---------------------------- MODULE LayoutProofs ----------------------------
(***************************************************************************)
(* Proofs about the inputs, the signal heads, the Identify process of one  *)
(* node and the host on the bus, for any number of inputs, switches and    *)
(* heads, any events and any lengths of the queues: the chips stay in step *)
(* with the heads, an input at rest has been taken as it is, an Identify   *)
(* that is over has answered for every event in use, and the host is right *)
(* about the heads it believes to know.  The invariants are LayoutInv and, *)
(* for the host, HostInv.  What a walk over several inputs, events or      *)
(* entries leaves alone is stated with Moved, what it does to what the     *)
(* host knows with Follows, and both are proved of the recursive functions *)
(* that walk by taking the shortest walk that fails.                       *)
(***************************************************************************)
EXTENDS Layout, SequenceTheorems, FiniteSetTheorems, WellFoundedInduction, TLAPS

\* An event of a configuration, or none
Ids == Events \cup {NoEvent}
Sides == {"producer", "consumer"}
States == {"valid", "invalid"}
Message == ({Report} \cup (Sides \X States)) \X Ids
Lamps == {Lamp[a] : a \in Aspects}

NodeType ==
  [up : BOOLEAN, local : Seq(Events), pos : 0..Len(Registry), identifying : BOOLEAN,
   rested : BOOLEAN, bus : Seq(Message), lost : SUBSET Events, closed : [1..S -> BOOLEAN],
   pressed : BOOLEAN, aspect : [Heads -> Aspects], enabled : [Heads -> BOOLEAN],
   flash : BOOLEAN, lit : BOOLEAN, pixel : [Heads -> Lamps]]

Config == [Heads -> HeadConfig(Ids)]

InboxType ==
  [type : {"tick", "identify"}] \cup [type : {"settled"}, low : BOOLEAN]
    \cup [type : {"report"}, id : Events]
    \cup [type : {"matching"}, id : Events, producers : BOOLEAN]
    \cup [type : {"write"}, head : Heads, config : HeadConfig(Ids)]

\* The state of the node and of its queue
LayoutTyped ==
  /\ node \in NodeType /\ node.bus = <<>>
  /\ config \in Config
  /\ inbox \in Seq(InboxType)
  /\ pin \in BOOLEAN /\ started \in BOOLEAN /\ edges \in BOOLEAN /\ timer \in BOOLEAN
  /\ reading \in BOOLEAN /\ unseen \in BOOLEAN /\ stirred \in BOOLEAN

\* The chips show their heads, and the flash timer runs when it is needed
InStep(cfg, m) ==
  /\ m.flash <=> \E h \in Heads : Flashing(m.aspect[h])
  /\ \A h \in Heads : m.pixel[h] = Shown(m, h, cfg[h].lamps)

\* An Identify that is over has passed the whole registry
Complete(m) == m.up /\ ~m.identifying => m.pos = Len(Registry)

Side(r) == IF r.kind = "feedback" THEN "producer" ELSE "consumer"

\* The entries after the first `from` that have been passed are on the bus
Told(cfg, from, m) ==
  \A i \in from + 1..m.pos : IdOf(cfg, Registry[i]) # NoEvent =>
    \E j \in DOMAIN m.bus : m.bus[j][1] # Report /\ m.bus[j][1][1] = Side(Registry[i])
                            /\ m.bus[j][2] = IdOf(cfg, Registry[i])

Extends(said, more) == Len(said) <= Len(more) /\ \A i \in 1..Len(said) : more[i] = said[i]

\* What a part of a turn of the task may do to the node
Moved(cfg, m, k) ==
  /\ k \in NodeType
  /\ k.up = m.up /\ k.pressed = m.pressed
  /\ InStep(cfg, m) => InStep(cfg, k)
  /\ Extends(m.bus, k.bus)
  /\ m.pos <= k.pos /\ Told(cfg, m.pos, k)
  /\ Complete(m) => Complete(k)

\* The last level that was posted, in the queue or already handled, is that of the input
LevelPosted ==
  \/ ~Queued("settled") /\ node.pressed = pin
  \/ \E i \in DOMAIN inbox :
       /\ inbox[i].type = "settled" /\ inbox[i].low = pin
       /\ \A j \in DOMAIN inbox : j > i => inbox[j].type # "settled"

InputInv == (edges \/ ~started) /\ ~timer /\ ~reading /\ ~unseen => LevelPosted

AnswerInv ==
  /\ Complete(node)
  /\ node.up /\ ~stirred =>
       \A i \in 1..node.pos : IdOf(config, Registry[i]) # NoEvent =>
         <<Side(Registry[i]), IdOf(config, Registry[i])>> \in answered

LayoutInv == LayoutTyped /\ InStep(config, node) /\ InputInv /\ AnswerInv

-----------------------------------------------------------------------------
(* Folds *)

LEMMA LeastOfNats ==
  ASSUME NEW T, T \subseteq Nat, T # {}
  PROVE  \E x \in T : \A y \in T : ~(y < x)
<1>1. \E x \in T : \A y \in T : ~(<<y, x>> \in OpToRel(<, Nat))
  BY NatLessThanWellFounded, WFMin
<1> QED BY <1>1 DEF OpToRel

\* The state after each entry of the registry
Steps(cfg, m, id, g, n) ==
  g = [i \in 0..n |->
        IF i = 0 THEN m
        ELSE IF Registry[i].kind # "feedback" /\ IdOf(cfg, Registry[i]) = id
        THEN OnEvent(cfg, g[i - 1], Registry[i])
        ELSE g[i - 1]]

LEMMA StepsExist ==
  ASSUME NEW cfg, NEW m, NEW id, NEW n \in Nat
  PROVE  \E g : Steps(cfg, m, id, g, n)
<1> DEFINE without == {k \in Nat : ~\E g : Steps(cfg, m, id, g, k)}
<1> SUFFICES ASSUME without # {} PROVE FALSE
  OBVIOUS
<1>1. PICK k \in without : \A j \in without : ~(j < k)
  <2> HIDE DEF without
  <2>1. without \subseteq Nat
    BY DEF without
  <2> QED BY <2>1, LeastOfNats
<1>2. k # 0
  <2>1. Steps(cfg, m, id, [i \in 0..0 |-> m], 0)
    BY DEF Steps
  <2> QED BY <2>1
<1>3. k - 1 \in Nat /\ k - 1 < k
  BY <1>2
<1>4. PICK g : Steps(cfg, m, id, g, k - 1)
  BY <1>1, <1>3
<1> DEFINE next(x) == IF Registry[k].kind # "feedback" /\ IdOf(cfg, Registry[k]) = id
                      THEN OnEvent(cfg, x, Registry[k]) ELSE x
           h == [i \in 0..k |-> IF i = k THEN next(g[k - 1]) ELSE g[i]]
<1>5. \A i \in 0..k - 1 : h[i] = g[i]
  BY <1>3
<1>6. h[k] = next(h[k - 1])
  BY <1>3, <1>5
<1>7. \A i \in 0..k - 1 :
        g[i] = IF i = 0 THEN m
               ELSE IF Registry[i].kind # "feedback" /\ IdOf(cfg, Registry[i]) = id
               THEN OnEvent(cfg, g[i - 1], Registry[i]) ELSE g[i - 1]
  BY <1>4 DEF Steps
<1>8. Steps(cfg, m, id, h, k)
  <2>1. h = [i \in 0..k |-> h[i]]
    OBVIOUS
  <2>2. \A i \in 0..k : h[i] = IF i = 0 THEN m
               ELSE IF Registry[i].kind # "feedback" /\ IdOf(cfg, Registry[i]) = id
               THEN OnEvent(cfg, h[i - 1], Registry[i]) ELSE h[i - 1]
    <3> SUFFICES ASSUME NEW i \in 0..k
                 PROVE  h[i] = IF i = 0 THEN m
                   ELSE IF Registry[i].kind # "feedback" /\ IdOf(cfg, Registry[i]) = id
                   THEN OnEvent(cfg, h[i - 1], Registry[i]) ELSE h[i - 1]
      OBVIOUS
    <3> HIDE DEF h
    <3>1. CASE i = k
      BY <1>2, <1>6, <3>1
    <3>2. CASE i # k
      <4>1. i \in 0..k-1 /\ (i # 0 => i - 1 \in 0..k - 1)
        BY <1>3, <3>2
      <4> QED BY <1>5, <1>7, <4>1
    <3> QED BY <3>1, <3>2
  <2> HIDE DEF h
  <2> QED BY <2>1, <2>2 DEF Steps
<1> QED BY <1>1, <1>8

LEMMA ConsumeSteps ==
  ASSUME NEW cfg, NEW m, NEW id, Len(Registry) \in Nat
  PROVE  \E g : Steps(cfg, m, id, g, Len(Registry)) /\ Consume(cfg, m, id) = g[Len(Registry)]
<1> DEFINE g == CHOOSE f : Steps(cfg, m, id, f, Len(Registry))
<1>1. Steps(cfg, m, id, g, Len(Registry))
  <2>1. \E f : Steps(cfg, m, id, f, Len(Registry))
    BY StepsExist
  <2> QED BY <2>1
<1>2. Consume(cfg, m, id) = g[Len(Registry)]
  BY DEF Consume, Steps
<1> QED BY <1>1, <1>2

-----------------------------------------------------------------------------
(* Types *)

EntryType ==
  [kind : {"command", "feedback"}, switch : 1..S, closed : BOOLEAN]
    \cup [kind : {"head"}, head : Heads, aspect : Aspects]

LEMMA AspectsTyped ==
  /\ Len(Aspect) = 11 /\ \A j \in 1..11 : Aspect[j] \in Aspects
  /\ "dark" \in Aspects /\ "red" \in Aspects /\ Lamp["dark"] = "none"
<1>1. Aspects = {"dark", "red", "yellow", "green", "lunar", "s", "d", "number",
                 "flashing_red", "flashing_yellow", "flashing_green"}
  BY DEF Aspects, Lamp
<1>2. Lamp["dark"] = "none"
  BY DEF Lamp
<1>3. Len(Aspect) = 11 /\ \A j \in 1..11 : Aspect[j] \in Aspects
  BY <1>1 DEF Aspect
<1> QED BY <1>1, <1>2, <1>3

LEMMA RegistryTyped ==
  /\ Len(Registry) \in Nat /\ DOMAIN Registry = 1..Len(Registry)
  /\ \A i \in 1..Len(Registry) : Registry[i] \in EntryType
<1>1. S \in Nat /\ H \in Nat
  BY LayoutAssumption, HeadAssumption
<1> DEFINE L == 4 * S + H * Len(Aspect)
           entry(i) ==
             IF i <= 4 * S
             THEN LET k == (i - 1) % 4
                      switch == (i - 1) \div 4 + 1
                  IN  IF k < 2 THEN CommandEntry(switch, k = 1) ELSE FeedbackEntry(switch, k = 3)
             ELSE LET k == i - 4 * S - 1
                  IN  HeadEntry(k \div Len(Aspect) + 1, Aspect[(k % Len(Aspect)) + 1])
<1>2. L = 4 * S + H * 11 /\ L \in Nat
  BY <1>1, AspectsTyped
<1>3. ASSUME NEW i \in 1..L
      PROVE  entry(i) \in EntryType
  <2>1. CASE i <= 4 * S
    <3>1. (i - 1) \div 4 + 1 \in 1..S
      BY <1>1, <1>2, <2>1
    <3> QED BY <2>1, <3>1 DEF EntryType, CommandEntry, FeedbackEntry
  <2>2. CASE ~(i <= 4 * S)
    <3> DEFINE k == i - 4 * S - 1
    <3>1. k \in Nat /\ k < H * 11
      BY <1>1, <1>2, <2>2
    <3>2. k \div 11 + 1 \in 1..H /\ (k % 11) + 1 \in 1..11
      BY <1>1, <3>1
    <3>3. entry(i) = HeadEntry(k \div 11 + 1, Aspect[(k % 11) + 1])
      BY <2>2, AspectsTyped
    <3> HIDE DEF k, entry
    <3> QED BY <3>2, <3>3, AspectsTyped DEF EntryType, HeadEntry, Heads
  <2> QED BY <2>1, <2>2
<1>4. Registry = [i \in 1..L |-> entry(i)]
  BY DEF Registry
<1> HIDE DEF L, entry
<1>5. Len(Registry) = L
  BY <1>2, <1>4
<1> QED BY <1>2, <1>3, <1>4, <1>5

LEMMA IdTyped ==
  ASSUME NEW cfg \in Config, NEW r \in EntryType
  PROVE  IdOf(cfg, r) \in Ids
<1>1. CASE r \in [kind : {"command", "feedback"}, switch : 1..S, closed : BOOLEAN]
  BY <1>1, LayoutAssumption DEF IdOf, Ids
<1>2. CASE r \in [kind : {"head"}, head : Heads, aspect : Aspects]
  <2>1. cfg[r.head].aspect_events[r.aspect] \in Ids
    BY <1>2 DEF Config, HeadConfig
  <2> QED BY <1>2, <2>1 DEF IdOf, EventOf, Ids
<1> QED BY <1>1, <1>2 DEF EntryType

LEMMA ShownTyped ==
  ASSUME NEW m, NEW h, m.aspect[h] \in Aspects, NEW lamps
  PROVE  Shown(m, h, lamps) \in Lamps
<1>1. Lamp[m.aspect[h]] \in Lamps /\ "none" \in Lamps
  BY AspectsTyped DEF Lamps
<1> QED BY <1>1 DEF Shown

\* The entries of the registry as the event exchange sees them
LEMMA EntriesTyped ==
  ASSUME NEW cfg \in Config, NEW m
  PROVE  LET entries == Entries(cfg, m)
         IN  /\ Len(entries) = Len(Registry) /\ DOMAIN entries = 1..Len(Registry)
             /\ \A i \in 1..Len(Registry) :
                  /\ entries[i].id = IdOf(cfg, Registry[i]) /\ entries[i].id \in Ids
                  /\ entries[i].producer = (Registry[i].kind = "feedback")
                  /\ entries[i].valid \in States
<1>1. Len(Registry) \in Nat /\ DOMAIN Registry = 1..Len(Registry)
      /\ \A i \in 1..Len(Registry) : IdOf(cfg, Registry[i]) \in Ids
  BY RegistryTyped, IdTyped
<1>2. \A i \in 1..Len(Registry) : StateOf(m, Registry[i]) \in States
  BY DEF StateOf, States
<1> DEFINE entry(i) == [id |-> IdOf(cfg, Registry[i]), producer |-> Registry[i].kind = "feedback",
                        valid |-> StateOf(m, Registry[i])]
<1>3. Entries(cfg, m) = [i \in 1..Len(Registry) |-> entry(i)]
  BY <1>1 DEF Entries
<1>4. Len(Entries(cfg, m)) = Len(Registry)
  <2> HIDE DEF entry
  <2> QED BY <1>1, <1>3
<1> QED BY <1>1, <1>2, <1>3, <1>4

-----------------------------------------------------------------------------
(* What moves the node *)

LEMMA ExtendsTransitive ==
  ASSUME NEW X, NEW a \in Seq(X), NEW b \in Seq(X), NEW c \in Seq(X), Extends(a, b), Extends(b, c)
  PROVE  Extends(a, c)
BY DEF Extends

LEMMA ExtendsAppend ==
  ASSUME NEW X, NEW a \in Seq(X), NEW x \in X
  PROVE  Append(a, x) \in Seq(X) /\ Extends(a, Append(a, x))
BY DEF Extends

\* What does not touch the answer to an Identify
LEMMA MovedAside ==
  ASSUME NEW cfg, NEW m \in NodeType, NEW k \in NodeType, k.up = m.up, k.pressed = m.pressed,
         k.pos = m.pos, k.identifying = m.identifying, Extends(m.bus, k.bus),
         InStep(cfg, m) => InStep(cfg, k)
  PROVE  Moved(cfg, m, k)
<1>1. m.pos \in Nat
  BY RegistryTyped DEF NodeType
<1>2. Told(cfg, m.pos, k)
  BY <1>1 DEF Told
<1>3. Complete(m) => Complete(k)
  BY DEF Complete
<1> QED BY <1>1, <1>2, <1>3 DEF Moved

LEMMA MovedItself ==
  ASSUME NEW cfg, NEW m \in NodeType
  PROVE  Moved(cfg, m, m)
<1>1. Extends(m.bus, m.bus)
  BY DEF Extends, NodeType
<1> QED BY <1>1, MovedAside

LEMMA MovedTransitive ==
  ASSUME NEW cfg, NEW m \in NodeType, NEW k, NEW l, Moved(cfg, m, k), Moved(cfg, k, l)
  PROVE  Moved(cfg, m, l)
<1>1. /\ k \in NodeType /\ l \in NodeType
      /\ m.pos \in Nat /\ k.pos \in Nat /\ l.pos \in Nat /\ m.pos <= k.pos /\ k.pos <= l.pos
      /\ m.bus \in Seq(Message) /\ k.bus \in Seq(Message) /\ l.bus \in Seq(Message)
      /\ Extends(m.bus, k.bus) /\ Extends(k.bus, l.bus)
      /\ Told(cfg, m.pos, k) /\ Told(cfg, k.pos, l)
  BY RegistryTyped DEF Moved, NodeType
<1>2. Told(cfg, m.pos, l)
  <2> SUFFICES ASSUME NEW i \in m.pos + 1..l.pos, IdOf(cfg, Registry[i]) # NoEvent
               PROVE  \E j \in DOMAIN l.bus :
                        l.bus[j][1] # Report /\ l.bus[j][1][1] = Side(Registry[i])
                        /\ l.bus[j][2] = IdOf(cfg, Registry[i])
    BY DEF Told
  <2>1. CASE i <= k.pos
    <3>1. i \in m.pos + 1..k.pos
      BY <1>1, <2>1
    <3>2. PICK j \in DOMAIN k.bus : k.bus[j][1] # Report /\ k.bus[j][1][1] = Side(Registry[i])
                        /\ k.bus[j][2] = IdOf(cfg, Registry[i])
      BY <1>1, <3>1 DEF Told
    <3>3. j \in DOMAIN l.bus /\ l.bus[j] = k.bus[j]
      BY <1>1 DEF Extends
    <3> QED BY <3>2, <3>3
  <2>2. CASE ~(i <= k.pos)
    <3>1. i \in k.pos + 1..l.pos
      BY <1>1, <2>2
    <3> QED BY <1>1, <3>1 DEF Told
  <2> QED BY <2>1, <2>2
<1>3. Extends(m.bus, l.bus)
  BY <1>1, ExtendsTransitive
<1> QED BY <1>1, <1>2, <1>3 DEF Moved

LEMMA NodeIsRecord ==
  ASSUME NEW m \in NodeType, NEW up \in BOOLEAN, NEW local \in Seq(Events),
         NEW pos \in 0..Len(Registry), NEW identifying \in BOOLEAN, NEW rested \in BOOLEAN,
         NEW sent \in Seq(Message), NEW lost \in SUBSET Events
  PROVE  [m EXCEPT !.up = up, !.local = local, !.pos = pos, !.identifying = identifying,
                   !.rested = rested, !.bus = sent, !.lost = lost] \in NodeType
BY DEF NodeType

\* Sending an event leaves everything but the bus and the own consumers' queue
LEMMA EventSendMoves ==
  ASSUME NEW cfg, NEW m \in NodeType, NEW id \in Ids
  PROVE  Moved(cfg, m, EventSend(m, id)) /\ Len(m.local) <= Len(EventSend(m, id).local)
<1> DEFINE k == EventSend(m, id)
           sent == SendGlobal(m, Report, id)
<1>1. CASE ~m.up \/ id = NoEvent
  <2>1. k = m
    BY <1>1 DEF EventSend
  <2>2. Len(m.local) <= Len(m.local)
    BY DEF NodeType
  <2> QED BY <2>1, <2>2, MovedItself
<1>2. CASE ~(~m.up \/ id = NoEvent)
  <2>1. id \in Events /\ <<Report, id>> \in Message
    BY <1>2 DEF Ids, Message
  <2>2. Append(m.bus, <<Report, id>>) \in Seq(Message)
        /\ Extends(m.bus, Append(m.bus, <<Report, id>>))
    BY <2>1, ExtendsAppend DEF NodeType
  <2>3. CASE Len(m.local) < LocalQueueLen
    <3>1. k = [m EXCEPT !.bus = Append(m.bus, <<Report, id>>), !.local = Append(m.local, id)]
      BY <1>2, <2>3 DEF EventSend, SendGlobal, NodeType
    <3>2. Append(m.local, id) \in Seq(Events) /\ Len(m.local) <= Len(Append(m.local, id))
      BY <2>1 DEF NodeType
    <3>3. k \in NodeType /\ k.local = Append(m.local, id) /\ k.bus = Append(m.bus, <<Report, id>>)
      BY <2>2, <3>1, <3>2 DEF NodeType
    <3>4. InStep(cfg, m) => InStep(cfg, k)
      BY <3>1 DEF InStep, Shown, NodeType
    <3>5. k.up = m.up /\ k.pressed = m.pressed /\ k.pos = m.pos /\ k.identifying = m.identifying
      BY <3>1 DEF NodeType
    <3> QED BY <2>2, <3>2, <3>3, <3>4, <3>5, MovedAside
  <2>4. CASE ~(Len(m.local) < LocalQueueLen)
    <3>1. k = [m EXCEPT !.bus = Append(m.bus, <<Report, id>>), !.lost = m.lost \cup {id}]
      BY <1>2, <2>4 DEF EventSend, SendGlobal, NodeType
    <3>2. Len(m.local) <= Len(m.local) /\ m.lost \cup {id} \in SUBSET Events
      BY <2>1 DEF NodeType
    <3>3. k \in NodeType /\ k.local = m.local /\ k.bus = Append(m.bus, <<Report, id>>)
      BY <2>2, <3>1, <3>2 DEF NodeType
    <3>4. InStep(cfg, m) => InStep(cfg, k)
      BY <3>1 DEF InStep, Shown, NodeType
    <3>5. k.up = m.up /\ k.pressed = m.pressed /\ k.pos = m.pos /\ k.identifying = m.identifying
      BY <3>1 DEF NodeType
    <3> QED BY <2>2, <3>2, <3>3, <3>4, <3>5, MovedAside
  <2> QED BY <2>3, <2>4
<1> QED BY <1>1, <1>2

\* A switch machine that moves
LEMMA MoveMoves ==
  ASSUME NEW cfg, NEW m \in NodeType, NEW i \in 1..S, NEW c \in BOOLEAN
  PROVE  Moved(cfg, m, Move(m, i, c)) /\ Len(m.local) <= Len(Move(m, i, c).local)
<1> DEFINE l == [m EXCEPT !.closed[i] = c]
<1>1. l \in NodeType /\ l.local = m.local /\ l.bus = m.bus
  BY DEF NodeType
<1>2. InStep(cfg, m) => InStep(cfg, l)
  BY DEF InStep, Shown, NodeType
<1>3. l.up = m.up /\ l.pressed = m.pressed /\ l.pos = m.pos /\ l.identifying = m.identifying
  BY DEF NodeType
<1>4. Extends(m.bus, l.bus)
  BY <1>1 DEF Extends, NodeType
<1>5. Feedback[i][c] \in Ids
  BY LayoutAssumption DEF Ids
<1>6. Move(m, i, c) = EventSend(l, Feedback[i][c])
  BY DEF Move
<1> HIDE DEF l
<1>7. Moved(cfg, m, l)
  BY <1>1, <1>2, <1>3, <1>4, MovedAside
<1>8. Moved(cfg, l, Move(m, i, c)) /\ Len(l.local) <= Len(Move(m, i, c).local)
  BY <1>1, <1>5, <1>6, EventSendMoves
<1> QED BY <1>1, <1>7, <1>8, MovedTransitive

\* A head that takes an aspect: the others stay in step, since `lit` changes only when
\* none of them flashes
LEMMA OnAspectMoves ==
  ASSUME NEW cfg \in Config, NEW m \in NodeType, NEW h \in Heads, NEW a \in Aspects
  PROVE  Moved(cfg, m, OnAspect(m, cfg, h, a)) /\ OnAspect(m, cfg, h, a).local = m.local
<1> DEFINE aspect == [m.aspect EXCEPT ![h] = a]
           flashing == \E g \in Heads : Flashing(aspect[g])
           lit == m.lit \/ (flashing /\ ~m.flash)
           l == [m EXCEPT !.aspect = aspect, !.flash = flashing, !.lit = lit]
           k == OnAspect(m, cfg, h, a)
<1>1. aspect \in [Heads -> Aspects] /\ flashing \in BOOLEAN /\ lit \in BOOLEAN
  BY DEF NodeType
<1>2. UpdateFlashTimer([m EXCEPT !.aspect[h] = a]) = l
  BY DEF UpdateFlashTimer, NodeType
<1>3. k = ShowHead(l, cfg, h)
  BY <1>2 DEF OnAspect
<1> HIDE DEF aspect, flashing, lit
<1>4. l \in NodeType /\ l.local = m.local /\ l.bus = m.bus /\ l.up = m.up /\ l.pressed = m.pressed
      /\ l.pos = m.pos /\ l.identifying = m.identifying /\ l.pixel = m.pixel
      /\ l.aspect = aspect /\ l.flash = flashing /\ l.lit = lit
  BY <1>1 DEF NodeType
<1> HIDE DEF l
<1>5. Shown(l, h, cfg[h].lamps) \in Lamps
  BY <1>1, <1>4, ShownTyped
<1>6. k = [l EXCEPT !.pixel[h] = Shown(l, h, cfg[h].lamps)]
  BY <1>3 DEF ShowHead
<1>7. k \in NodeType
  <2>1. k = [l EXCEPT !.pixel = [l.pixel EXCEPT ![h] = Shown(l, h, cfg[h].lamps)]]
    BY <1>6
  <2>2. [l.pixel EXCEPT ![h] = Shown(l, h, cfg[h].lamps)] \in [Heads -> Lamps]
    BY <1>4, <1>5 DEF NodeType
  <2> HIDE DEF k
  <2> QED BY <1>4, <2>1, <2>2 DEF NodeType
<1>8. k.local = m.local /\ k.bus = m.bus /\ k.up = m.up /\ k.pressed = m.pressed
      /\ k.pos = m.pos /\ k.identifying = m.identifying
      /\ k.aspect = aspect /\ k.flash = flashing /\ k.lit = lit
      /\ k.pixel[h] = Shown(l, h, cfg[h].lamps)
      /\ \A g \in Heads \ {h} : k.pixel[g] = m.pixel[g]
  BY <1>4, <1>6 DEF NodeType
<1>9. ASSUME InStep(cfg, m) PROVE InStep(cfg, k)
  <2>1. k.flash <=> \E g \in Heads : Flashing(k.aspect[g])
    BY <1>8 DEF flashing
  <2>2. Shown(k, h, cfg[h].lamps) = Shown(l, h, cfg[h].lamps)
    BY <1>4, <1>8 DEF Shown
  <2>3. ASSUME NEW g \in Heads, g # h PROVE k.pixel[g] = Shown(k, g, cfg[g].lamps)
    <3>1. k.aspect[g] = m.aspect[g]
      BY <1>8, <2>3 DEF aspect, NodeType
    <3>2. Flashing(m.aspect[g]) => m.flash
      BY <1>9 DEF InStep
    <3>3. Flashing(m.aspect[g]) => k.lit = m.lit
      BY <1>8, <3>2 DEF lit, NodeType
    <3>4. Shown(k, g, cfg[g].lamps) = Shown(m, g, cfg[g].lamps)
      BY <3>1, <3>3 DEF Shown
    <3> QED BY <1>8, <1>9, <2>3, <3>4 DEF InStep
  <2> HIDE DEF k
  <2> QED BY <1>8, <2>1, <2>2, <2>3 DEF InStep
<1>10. Extends(m.bus, k.bus)
  BY <1>8 DEF Extends, NodeType
<1> QED BY <1>7, <1>8, <1>9, <1>10, MovedAside

LEMMA OnEventMoves ==
  ASSUME NEW cfg \in Config, NEW m \in NodeType, NEW r \in EntryType, r.kind # "feedback"
  PROVE  Moved(cfg, m, OnEvent(cfg, m, r)) /\ Len(m.local) <= Len(OnEvent(cfg, m, r).local)
<1>1. CASE r.kind = "command"
  <2>1. r.switch \in 1..S /\ r.closed \in BOOLEAN
    BY <1>1 DEF EntryType
  <2> QED BY <1>1, <2>1, MoveMoves DEF OnEvent
<1>2. CASE r.kind # "command"
  <2>1. r.head \in Heads /\ r.aspect \in Aspects
    BY <1>2 DEF EntryType
  <2>2. Len(m.local) <= Len(m.local)
    BY DEF NodeType
  <2> QED BY <1>2, <2>1, <2>2, OnAspectMoves DEF OnEvent
<1> QED BY <1>1, <1>2

\* What holds of the start and is kept by each step holds of the end
LEMMA ConsumeMoves ==
  ASSUME NEW cfg \in Config, NEW m \in NodeType, NEW id
  PROVE  Moved(cfg, m, Consume(cfg, m, id)) /\ Len(m.local) <= Len(Consume(cfg, m, id).local)
<1> DEFINE L == Len(Registry)
<1>1. L \in Nat /\ \A i \in 1..L : Registry[i] \in EntryType
  BY RegistryTyped
<1>2. PICK g : Steps(cfg, m, id, g, L) /\ Consume(cfg, m, id) = g[L]
  BY <1>1, ConsumeSteps
<1> HIDE DEF L
<1> DEFINE good(i) == Moved(cfg, m, g[i]) /\ Len(m.local) <= Len(g[i].local)
           bad == {i \in 0..L : ~good(i)}
<1>3. ASSUME bad # {} PROVE FALSE
  <2>1. PICK k \in bad : \A j \in bad : ~(j < k)
    <3> HIDE DEF good
    <3>1. bad \subseteq Nat
      OBVIOUS
    <3> HIDE DEF bad
    <3> QED BY <1>3, <3>1, LeastOfNats
  <2>2. k \in 0..L /\ ~good(k)
    BY <2>1
  <2>3. k # 0
    <3>1. g[0] = m
      BY <1>1, <1>2 DEF Steps
    <3>2. Moved(cfg, m, m) /\ Len(m.local) \in Nat
      BY MovedItself DEF NodeType
    <3>3. good(0)
      BY <3>1, <3>2
    <3> QED BY <2>2, <3>3
  <2>4. k - 1 \in 0..L /\ k - 1 < k /\ k \in 1..L
    BY <1>1, <2>2, <2>3
  <2>5. good(k - 1)
    BY <2>1, <2>4
  <2>6. g[k] = IF Registry[k].kind # "feedback" /\ IdOf(cfg, Registry[k]) = id
               THEN OnEvent(cfg, g[k - 1], Registry[k]) ELSE g[k - 1]
    BY <1>2, <2>2, <2>3 DEF Steps
  <2>7. g[k - 1] \in NodeType
    BY <2>5 DEF Moved
  <2>8. CASE Registry[k].kind # "feedback" /\ IdOf(cfg, Registry[k]) = id
    <3>1. g[k] = OnEvent(cfg, g[k - 1], Registry[k])
      BY <2>6, <2>8
    <3>2. Moved(cfg, g[k - 1], g[k]) /\ Len(g[k - 1].local) <= Len(g[k].local)
      BY <1>1, <2>4, <2>7, <2>8, <3>1, OnEventMoves
    <3>3. Moved(cfg, m, g[k])
      BY <2>5, <3>2, MovedTransitive
    <3>4. Len(m.local) \in Nat /\ Len(g[k - 1].local) \in Nat /\ Len(g[k].local) \in Nat
      BY <2>7, <3>2 DEF Moved, NodeType
    <3>5. Len(m.local) <= Len(g[k].local)
      BY <2>5, <3>2, <3>4
    <3> QED BY <2>2, <3>3, <3>5
  <2>9. CASE ~(Registry[k].kind # "feedback" /\ IdOf(cfg, Registry[k]) = id)
    BY <2>2, <2>5, <2>6, <2>9
  <2> QED BY <2>8, <2>9
<1>4. good(L)
  <2>1. L \in 0..L
    BY <1>1
  <2> HIDE DEF good
  <2> QED BY <1>3, <2>1
<1> QED BY <1>2, <1>4

\* The state after each of the events that wait
Turns(cfg, m, g, n) ==
  g = [i \in 0..n |->
        IF i = 0 THEN m
        ELSE Consume(cfg, [g[i - 1] EXCEPT !.local = Tail(@)], Head(g[i - 1].local))]

LEMMA TurnsExist ==
  ASSUME NEW cfg, NEW m, NEW n \in Nat
  PROVE  \E g : Turns(cfg, m, g, n)
<1> DEFINE without == {k \in Nat : ~\E g : Turns(cfg, m, g, k)}
<1> SUFFICES ASSUME without # {} PROVE FALSE
  OBVIOUS
<1>1. PICK k \in without : \A j \in without : ~(j < k)
  <2> HIDE DEF without
  <2>1. without \subseteq Nat
    BY DEF without
  <2> QED BY <2>1, LeastOfNats
<1>2. k # 0
  <2>1. Turns(cfg, m, [i \in 0..0 |-> m], 0)
    BY DEF Turns
  <2> QED BY <2>1
<1>3. k - 1 \in Nat /\ k - 1 < k
  BY <1>2
<1>4. PICK g : Turns(cfg, m, g, k - 1)
  BY <1>1, <1>3
<1> DEFINE next(x) == Consume(cfg, [x EXCEPT !.local = Tail(@)], Head(x.local))
           h == [i \in 0..k |-> IF i = k THEN next(g[k - 1]) ELSE g[i]]
<1> HIDE DEF next
<1>5. \A i \in 0..k - 1 : h[i] = g[i]
  BY <1>3
<1>6. h[k] = next(h[k - 1])
  BY <1>3, <1>5
<1>7. \A i \in 0..k - 1 : g[i] = IF i = 0 THEN m ELSE next(g[i - 1])
  BY <1>4 DEF Turns, next
<1>8. h = [i \in 0..k |-> IF i = 0 THEN m ELSE next(h[i - 1])]
  <2>1. h = [i \in 0..k |-> h[i]]
    OBVIOUS
  <2>2. \A i \in 0..k : h[i] = IF i = 0 THEN m ELSE next(h[i - 1])
    <3> SUFFICES ASSUME NEW i \in 0..k PROVE h[i] = IF i = 0 THEN m ELSE next(h[i - 1])
      OBVIOUS
    <3> HIDE DEF h
    <3>1. CASE i = k
      BY <1>2, <1>6, <3>1
    <3>2. CASE i # k
      <4>1. i \in 0..k-1 /\ (i # 0 => i - 1 \in 0..k - 1)
        BY <1>3, <3>2
      <4> QED BY <1>5, <1>7, <4>1
    <3> QED BY <3>1, <3>2
  <2> HIDE DEF h
  <2> QED BY <2>1, <2>2
<1>9. Turns(cfg, m, h, k)
  <2> HIDE DEF h
  <2> QED BY <1>8 DEF Turns, next
<1> QED BY <1>1, <1>9

\* The queue never runs short: no consumer takes an event from it
LEMMA DrainTurns ==
  ASSUME NEW cfg \in Config, NEW m \in NodeType
  PROVE  \E g : /\ Turns(cfg, m, g, Len(m.local)) /\ Drain(cfg, m) = g[Len(m.local)]
                /\ \A i \in 0..Len(m.local) : /\ Moved(cfg, m, g[i])
                                              /\ Len(m.local) - i <= Len(g[i].local)
<1> DEFINE L == Len(m.local)
<1>1. L \in Nat
  BY DEF NodeType
<1>2. PICK g : Turns(cfg, m, g, L) /\ Drain(cfg, m) = g[L]
  <2> DEFINE g == CHOOSE f : Turns(cfg, m, f, L)
  <2>1. \E f : Turns(cfg, m, f, L)
    BY <1>1, TurnsExist
  <2>2. Turns(cfg, m, g, L)
    BY <2>1
  <2>3. Drain(cfg, m) = g[L]
    BY DEF Drain, Turns
  <2> HIDE DEF g
  <2> QED BY <2>2, <2>3
<1> DEFINE good(i) == Moved(cfg, m, g[i]) /\ L - i <= Len(g[i].local)
           bad == {i \in 0..L : ~good(i)}
<1> HIDE DEF L
<1>3. ASSUME bad # {} PROVE FALSE
  <2>1. PICK k \in bad : \A j \in bad : ~(j < k)
    <3> HIDE DEF good
    <3>1. bad \subseteq Nat
      OBVIOUS
    <3> HIDE DEF bad
    <3> QED BY <1>3, <3>1, LeastOfNats
  <2>2. k \in 0..L /\ ~good(k)
    BY <2>1
  <2>3. k # 0
    <3>1. g[0] = m
      BY <1>1, <1>2 DEF Turns
    <3>2. good(0)
      BY <3>1, MovedItself DEF NodeType, L
    <3> QED BY <2>2, <3>2
  <2>4. k - 1 \in 0..L /\ k - 1 < k /\ k \in 1..L
    BY <1>1, <2>2, <2>3
  <2>5. good(k - 1)
    BY <2>1, <2>4
  <2> DEFINE x == g[k - 1]
             y == [x EXCEPT !.local = Tail(x.local)]
  <2>6. g[k] = Consume(cfg, y, Head(x.local))
    BY <1>2, <2>2, <2>3 DEF Turns
  <2>7. x \in NodeType
    BY <2>5 DEF Moved
  <2> HIDE DEF x
  <2>8. x.local \in Seq(Events) /\ x.local # <<>> /\ Len(x.local) >= L - (k - 1)
    <3>1. x.local \in Seq(Events)
      BY <2>7 DEF NodeType
    <3>2. Len(x.local) >= L - (k - 1) /\ Len(x.local) \in Nat
      BY <2>5, <3>1 DEF x
    <3> QED BY <1>1, <2>4, <3>1, <3>2
  <2>9. Tail(x.local) \in Seq(Events) /\ Len(Tail(x.local)) = Len(x.local) - 1
    BY <2>8
  <2>10. y \in NodeType /\ y.local = Tail(x.local)
    BY <2>7, <2>9 DEF NodeType
  <2>11. Moved(cfg, x, y)
    <3>1. y.up = x.up /\ y.pressed = x.pressed /\ y.pos = x.pos /\ y.identifying = x.identifying
          /\ y.bus = x.bus
      BY <2>7 DEF NodeType
    <3>2. InStep(cfg, x) => InStep(cfg, y)
      BY <2>7 DEF InStep, Shown, NodeType
    <3>3. Extends(x.bus, y.bus)
      BY <2>7, <3>1 DEF Extends, NodeType
    <3> HIDE DEF y
    <3> QED BY <2>7, <2>10, <3>1, <3>2, <3>3, MovedAside
  <2> HIDE DEF y
  <2>12. Moved(cfg, y, g[k]) /\ Len(y.local) <= Len(g[k].local)
    BY <2>6, <2>10, ConsumeMoves
  <2>13. Moved(cfg, m, g[k])
    <3>1. Moved(cfg, m, x)
      BY <2>5 DEF x
    <3> QED BY <2>11, <2>12, <3>1, MovedTransitive
  <2>14. L - k <= Len(g[k].local)
    <3>1. Len(g[k].local) \in Nat /\ Len(x.local) \in Nat
      BY <2>7, <2>12 DEF Moved, NodeType
    <3> QED BY <1>1, <2>2, <2>8, <2>9, <2>10, <2>12, <3>1
  <2> QED BY <2>2, <2>13, <2>14
<1>4. \A i \in 0..L : good(i)
  <2> HIDE DEF good
  <2> QED BY <1>3
<1> QED BY <1>2, <1>4 DEF L

LEMMA DrainMoves ==
  ASSUME NEW cfg \in Config, NEW m \in NodeType
  PROVE  Moved(cfg, m, Drain(cfg, m))
<1>1. Len(m.local) \in 0..Len(m.local)
  BY DEF NodeType
<1> QED BY <1>1, DrainTurns

-----------------------------------------------------------------------------
(* The answer to an Identify *)

Rank(set, b) == Cardinality({c \in set : c <= b})

LEMMA RankTyped ==
  ASSUME NEW n \in Nat, NEW set \in SUBSET (1..n)
  PROVE  /\ IsFiniteSet(set) /\ Cardinality(set) \in Nat
         /\ \A a \in Nat : /\ IsFiniteSet({c \in set : c <= a}) /\ Rank(set, a) \in Nat
                           /\ Rank(set, a) <= Cardinality(set)
         /\ Rank(set, 0) = 0 /\ Rank(set, n) = Cardinality(set)
<1> DEFINE upTo(x) == {c \in set : c <= x}
<1>1. IsFiniteSet(set) /\ Cardinality(set) \in Nat
  <2>1. IsFiniteSet(1..n)
    BY FS_Interval
  <2>2. IsFiniteSet(set)
    BY <2>1, FS_Subset
  <2> QED BY <2>2, FS_CardinalityType
<1>2. \A c \in set : c \in Nat /\ 1 <= c /\ c <= n
  OBVIOUS
<1>3. ASSUME NEW a \in Nat
      PROVE  IsFiniteSet(upTo(a)) /\ Rank(set, a) \in Nat /\ Rank(set, a) <= Cardinality(set)
  <2>1. upTo(a) \subseteq set
    OBVIOUS
  <2> QED BY <1>1, <2>1, FS_Subset, FS_CardinalityType DEF Rank
<1>4. upTo(0) = {} /\ upTo(n) = set
  <2>1. \A c \in set : ~(c <= 0) /\ c <= n
    BY <1>2
  <2> QED BY <2>1
<1>5. Rank(set, 0) = 0
  BY <1>4, FS_EmptySet DEF Rank
<1> QED BY <1>1, <1>3, <1>4, <1>5 DEF Rank

LEMMA RankGrows ==
  ASSUME NEW n \in Nat, NEW set \in SUBSET (1..n), NEW a \in Nat, NEW b \in set, a < b
  PROVE  Rank(set, a) + 1 <= Rank(set, b)
<1> DEFINE upTo(x) == {c \in set : c <= x}
<1>1. b \in Nat /\ \A c \in set : c \in Nat
  OBVIOUS
<1>2. b \notin upTo(a) /\ upTo(a) \cup {b} \subseteq upTo(b)
  <2>1. \A c \in set : c <= a => c <= b
    BY <1>1
  <2>2. ~(b <= a) /\ b <= b
    BY <1>1
  <2> QED BY <2>1, <2>2
<1>3. IsFiniteSet(upTo(a)) /\ IsFiniteSet(upTo(b)) /\ Rank(set, a) \in Nat /\ Rank(set, b) \in Nat
  BY <1>1, RankTyped
<1> HIDE DEF upTo
<1>4. Cardinality(upTo(a) \cup {b}) = Cardinality(upTo(a)) + 1
  BY <1>2, <1>3, FS_AddElement
<1>5. Cardinality(upTo(a) \cup {b}) <= Cardinality(upTo(b))
  BY <1>2, <1>3, FS_Subset
<1>6. Cardinality(upTo(a)) = Rank(set, a) /\ Cardinality(upTo(b)) = Rank(set, b)
  BY DEF Rank, upTo
<1> QED BY <1>3, <1>4, <1>5, <1>6

LEMMA RankStays ==
  ASSUME NEW n \in Nat, NEW set \in SUBSET (1..n), NEW b \in Nat, b # 0, b \notin set
  PROVE  Rank(set, b) = Rank(set, b - 1)
<1>1. \A c \in set : c \in Nat
  OBVIOUS
<1>2. \A c \in set : c <= b <=> c <= b - 1
  BY <1>1
<1> QED BY <1>2 DEF Rank

LEMMA RankNext ==
  ASSUME NEW n \in Nat, NEW set \in SUBSET (1..n), NEW b \in set
  PROVE  b - 1 \in Nat /\ Rank(set, b) = Rank(set, b - 1) + 1
<1> DEFINE upTo(x) == {c \in set : c <= x}
<1>1. b \in Nat /\ b - 1 \in Nat /\ \A c \in set : c \in Nat
  OBVIOUS
<1>2. \A c \in set : c <= b <=> (c = b \/ c <= b - 1)
  BY <1>1
<1>3. upTo(b) = upTo(b - 1) \cup {b} /\ b \notin upTo(b - 1)
  <2>1. ~(b <= b - 1)
    BY <1>1
  <2> QED BY <1>2, <2>1
<1>4. IsFiniteSet(upTo(b - 1))
  BY <1>1, RankTyped
<1>5. Cardinality(upTo(b - 1)) = Rank(set, b - 1) /\ Cardinality(upTo(b)) = Rank(set, b)
  BY DEF Rank
<1> HIDE DEF upTo
<1>6. Cardinality(upTo(b - 1) \cup {b}) = Cardinality(upTo(b - 1)) + 1
  BY <1>3, <1>4, FS_AddElement
<1> QED BY <1>1, <1>3, <1>5, <1>6

\* Each rank is that of one element, and of no other
LEMMA RankTaken ==
  ASSUME NEW n \in Nat, NEW set \in SUBSET (1..n), NEW k \in 1..Cardinality(set)
  PROVE  \E b \in set : Rank(set, b) = k
<1> DEFINE enough == {b \in Nat : Rank(set, b) >= k}
<1>1. /\ Cardinality(set) \in Nat /\ \A b \in Nat : Rank(set, b) \in Nat
      /\ Rank(set, 0) = 0 /\ Rank(set, n) = Cardinality(set)
  BY RankTyped
<1>2. n \in enough
  BY <1>1
<1>3. PICK b \in enough : \A c \in enough : ~(c < b)
  <2> HIDE DEF enough
  <2>1. enough \subseteq Nat
    BY DEF enough
  <2> QED BY <1>2, <2>1, LeastOfNats
<1>4. b # 0
  BY <1>1
<1>5. b - 1 \in Nat /\ Rank(set, b - 1) < k
  <2>1. b - 1 \in Nat /\ b - 1 < b
    BY <1>4
  <2> QED BY <1>1, <1>3, <2>1
<1>6. b \in set
  <2>1. b \in Nat /\ Rank(set, b) >= k
    OBVIOUS
  <2>2. Rank(set, b) # Rank(set, b - 1)
    BY <1>1, <1>5, <2>1
  <2> QED BY <1>4, <2>1, <2>2, RankStays
<1>7. Rank(set, b) = Rank(set, b - 1) + 1
  BY <1>6, RankNext
<1> QED BY <1>1, <1>3, <1>5, <1>6, <1>7

LEMMA RankOfOne ==
  ASSUME NEW n \in Nat, NEW set \in SUBSET (1..n), NEW a \in set, NEW b \in set,
         Rank(set, a) = Rank(set, b)
  PROVE  a = b
<1>0. a \in Nat /\ b \in Nat
  OBVIOUS
<1>1. a \in Nat /\ b \in Nat /\ Rank(set, a) \in Nat /\ Rank(set, b) \in Nat
  BY <1>0, RankTyped
<1>2. a < b => Rank(set, a) + 1 <= Rank(set, b)
  BY <1>1, RankGrows
<1>3. b < a => Rank(set, b) + 1 <= Rank(set, a)
  BY <1>1, RankGrows
<1> QED BY <1>1, <1>2, <1>3

\* What an entry is identified as
LEMMA IdentifiedIs ==
  ASSUME NEW cfg \in Config, NEW x, NEW i \in 1..Len(Registry)
  PROVE  LET msg == Identified(Entries(cfg, x)[i])
         IN  /\ msg \in Message /\ msg[1] # Report
             /\ msg = <<<<Side(Registry[i]), StateOf(x, Registry[i])>>, IdOf(cfg, Registry[i])>>
<1> DEFINE entries == Entries(cfg, x)
<1>1. /\ entries[i].id = IdOf(cfg, Registry[i]) /\ entries[i].id \in Ids
      /\ entries[i].producer = (Registry[i].kind = "feedback")
      /\ entries[i].valid \in States
  BY EntriesTyped
<1>2. entries[i].valid = StateOf(x, Registry[i])
  BY RegistryTyped DEF Entries
<1> HIDE DEF entries
<1>3. <<Side(Registry[i]), entries[i].valid>> \in Sides \X States
  BY <1>1 DEF Side, Sides
<1>4. Identified(entries[i]) = <<<<Side(Registry[i]), entries[i].valid>>, entries[i].id>>
  BY <1>1 DEF Identified, IdentifiedMti, Side
<1>5. <<Side(Registry[i]), entries[i].valid>> # Report
  BY DEF Report
<1> QED BY <1>1, <1>2, <1>3, <1>4, <1>5 DEF Message, entries

\* What is sent goes on from what was sent before, with the entries of the set in their order
Identifying(cfg, m, x, set, sent) ==
  /\ Extends(m.bus, sent) /\ Len(sent) = Len(m.bus) + Cardinality(set)
  /\ \A n \in 1..Cardinality(set) : \E i \in set :
       Rank(set, i) = n /\ sent[Len(m.bus) + n] = Identified(Entries(cfg, x)[i])

\* The entries of the set are identified on the bus, and nothing else happens
LEMMA SendIdentifiedIs ==
  ASSUME NEW cfg \in Config, NEW m \in NodeType, NEW x, NEW set \in SUBSET (1..Len(Registry))
  PROVE  \E sent \in Seq(Message) :
           /\ SendIdentified(m, Entries(cfg, x), set) = [m EXCEPT !.bus = sent]
           /\ Identifying(cfg, m, x, set, sent)
<1> DEFINE entries == Entries(cfg, x)
           nth(k) == CHOOSE i \in set : Cardinality({j \in set : j <= i}) = k
           said == [k \in 1..Cardinality(set) |-> Identified(entries[nth(k)])]
           sent == m.bus \o said
<1>1. SendIdentified(m, entries, set) = [m EXCEPT !.bus = sent]
  BY DEF SendIdentified
<1>2. Len(Registry) \in Nat /\ Cardinality(set) \in Nat
  BY RegistryTyped, RankTyped
<1>3. \A i \in 1..Len(Registry) : Identified(entries[i]) \in Message
  BY IdentifiedIs
<1> HIDE DEF entries
<1>4. \A k \in 1..Cardinality(set) : nth(k) \in set /\ Rank(set, nth(k)) = k
  <2> TAKE k \in 1..Cardinality(set)
  <2>1. \E b \in set : Cardinality({j \in set : j <= b}) = k
    BY <1>2, RankTaken DEF Rank
  <2> QED BY <2>1 DEF Rank
<1> HIDE DEF nth
<1>5. said \in Seq(Message) /\ Len(said) = Cardinality(set)
  <2>1. \A k \in 1..Cardinality(set) : Identified(entries[nth(k)]) \in Message
    BY <1>3, <1>4
  <2> QED BY <1>2, <2>1
<1>6. m.bus \in Seq(Message)
  BY DEF NodeType
<1>7. /\ sent \in Seq(Message) /\ Len(sent) = Len(m.bus) + Cardinality(set)
      /\ \A i \in 1..Len(m.bus) : sent[i] = m.bus[i]
      /\ \A k \in 1..Cardinality(set) : sent[Len(m.bus) + k] = said[k]
  <2> HIDE DEF said
  <2>1. sent \in Seq(Message) /\ Len(sent) = Len(m.bus) + Len(said)
    BY <1>5, <1>6, ConcatProperties
  <2>2. \A i \in 1..Len(m.bus) : sent[i] = m.bus[i]
    BY <1>5, <1>6, ConcatProperties
  <2>3. ASSUME NEW k \in 1..Cardinality(set) PROVE sent[Len(m.bus) + k] = said[k]
    <3>1. Len(m.bus) \in Nat
      BY <1>6
    <3>2. Len(m.bus) + k \in 1..Len(m.bus) + Len(said) /\ ~(Len(m.bus) + k <= Len(m.bus))
          /\ Len(m.bus) + k - Len(m.bus) = k
      BY <1>2, <1>5, <3>1
    <3> QED BY <1>5, <1>6, <3>2, ConcatProperties
  <2> QED BY <1>5, <2>1, <2>2, <2>3
<1>8. Extends(m.bus, sent)
  BY <1>2, <1>6, <1>7 DEF Extends
<1>9. \A n \in 1..Cardinality(set) : \E i \in set :
        Rank(set, i) = n /\ sent[Len(m.bus) + n] = Identified(entries[i])
  <2> TAKE n \in 1..Cardinality(set)
  <2>1. sent[Len(m.bus) + n] = said[n] /\ said[n] = Identified(entries[nth(n)])
    <3>1. said[n] = Identified(entries[nth(n)])
      OBVIOUS
    <3> QED BY <1>7, <3>1
  <2> QED BY <1>4, <2>1
<1>10. Identifying(cfg, m, x, set, sent)
  BY <1>5, <1>7, <1>8, <1>9 DEF entries, Identifying
<1> HIDE DEF sent
<1> QED BY <1>1, <1>7, <1>10 DEF entries

\* What is sent goes on from what was sent before, with an answer for each entry of the set
Answering(cfg, m, set, sent) ==
  /\ Extends(m.bus, sent)
  /\ \A i \in set : \E j \in DOMAIN sent :
       sent[j][1] # Report /\ sent[j][1][1] = Side(Registry[i])
       /\ sent[j][2] = IdOf(cfg, Registry[i])

LEMMA SendIdentifiedTells ==
  ASSUME NEW cfg \in Config, NEW m \in NodeType, NEW x, NEW set \in SUBSET (1..Len(Registry))
  PROVE  \E sent \in Seq(Message) :
           /\ SendIdentified(m, Entries(cfg, x), set) = [m EXCEPT !.bus = sent]
           /\ Answering(cfg, m, set, sent)
<1>1. PICK sent \in Seq(Message) :
        /\ SendIdentified(m, Entries(cfg, x), set) = [m EXCEPT !.bus = sent]
        /\ Identifying(cfg, m, x, set, sent)
  BY SendIdentifiedIs
<1>2. Len(Registry) \in Nat /\ Cardinality(set) \in Nat /\ Len(m.bus) \in Nat
  BY RegistryTyped, RankTyped DEF NodeType
<1>3. ASSUME NEW i \in set
      PROVE  \E j \in DOMAIN sent :
               sent[j][1] # Report /\ sent[j][1][1] = Side(Registry[i])
               /\ sent[j][2] = IdOf(cfg, Registry[i])
  <2>1. i \in Nat /\ i \in 1..Len(Registry)
    BY <1>2
  <2>2. i - 1 \in Nat /\ Rank(set, i) = Rank(set, i - 1) + 1
    BY <1>2, <2>1, RankNext
  <2>3. Rank(set, i - 1) \in Nat /\ Rank(set, i) \in Nat /\ Rank(set, i) <= Cardinality(set)
    BY <1>2, <2>1, <2>2, RankTyped
  <2>4. Rank(set, i) \in 1..Cardinality(set)
    BY <1>2, <2>2, <2>3
  <2>5. PICK k \in set :
          Rank(set, k) = Rank(set, i)
          /\ sent[Len(m.bus) + Rank(set, i)] = Identified(Entries(cfg, x)[k])
    BY <1>1, <2>4 DEF Identifying
  <2>6. k = i
    BY <1>2, <2>5, RankOfOne
  <2>7. Len(m.bus) + Rank(set, i) \in DOMAIN sent
    BY <1>1, <1>2, <2>4 DEF Identifying
  <2>8. LET msg == Identified(Entries(cfg, x)[i])
        IN  /\ msg[1] # Report
            /\ msg = <<<<Side(Registry[i]), StateOf(x, Registry[i])>>, IdOf(cfg, Registry[i])>>
    BY <2>1, IdentifiedIs
  <2>9. LET msg == Identified(Entries(cfg, x)[i])
        IN  msg[1] # Report /\ msg[1][1] = Side(Registry[i]) /\ msg[2] = IdOf(cfg, Registry[i])
    BY <2>8
  <2> QED BY <2>5, <2>6, <2>7, <2>9
<1>4. Answering(cfg, m, set, sent)
  BY <1>1, <1>3 DEF Answering, Identifying
<1> QED BY <1>1, <1>4

\* Where a batch ends is an entry, and not before the one it began after
LEMMA BatchEndTyped ==
  ASSUME NEW cfg \in Config, NEW m \in NodeType, NEW x
  PROVE  LET last == BatchEnd(m, Entries(cfg, x)) IN last \in 0..Len(Registry) /\ m.pos <= last
<1> DEFINE entries == Entries(cfg, x)
           open == Unanswered(m, entries)
           last == BatchEnd(m, entries)
<1>1. Len(Registry) \in Nat /\ m.pos \in 0..Len(Registry) /\ Len(entries) = Len(Registry)
  BY RegistryTyped, EntriesTyped DEF NodeType
<1>2. open \in SUBSET (1..Len(Registry)) /\ \A i \in open : m.pos <= i
  BY <1>1 DEF Unanswered
<1>3. last = IF Cardinality(open) < IdentifyBatch THEN Len(entries)
             ELSE CHOOSE i \in open : Cardinality({j \in open : j <= i}) = IdentifyBatch
  BY DEF BatchEnd
<1> HIDE DEF open, last, entries
<1>4. Cardinality(open) \in Nat
  BY <1>1, <1>2, RankTyped
<1>5. ASSUME Cardinality(open) < IdentifyBatch
      PROVE  last \in 0..Len(Registry) /\ m.pos <= last
  BY <1>1, <1>3, <1>5
<1>6. ASSUME ~(Cardinality(open) < IdentifyBatch)
      PROVE  last \in 0..Len(Registry) /\ m.pos <= last
  <2>1. IdentifyBatch \in 1..Cardinality(open)
    BY <1>4, <1>6, EventAssumption
  <2>2. \E i \in open : Cardinality({j \in open : j <= i}) = IdentifyBatch
    BY <1>1, <1>2, <2>1, RankTaken DEF Rank
  <2>3. last \in open
    BY <1>3, <1>6, <2>2
  <2> QED BY <1>1, <1>2, <2>3
<1> QED BY <1>5, <1>6 DEF last, entries

\* A batch answers for every entry it passes, and the last one passes the end
LEMMA BatchMoves ==
  ASSUME NEW cfg \in Config, NEW m \in NodeType, NEW x
  PROVE  LET k == Batch(m, Entries(cfg, x))
         IN  Moved(cfg, m, k) /\ Complete(k)
<1> DEFINE entries == Entries(cfg, x)
           last == BatchEnd(m, entries)
           set == {i \in Unanswered(m, entries) : i <= last}
<1>1. Len(Registry) \in Nat /\ m.pos \in 0..Len(Registry) /\ Len(entries) = Len(Registry)
  BY RegistryTyped, EntriesTyped DEF NodeType
<1>2. last \in 0..Len(Registry) /\ m.pos <= last
  BY BatchEndTyped
<1>3. set \in SUBSET (1..Len(Registry))
  BY <1>1 DEF Unanswered
<1>4. \A i \in m.pos + 1..last : IdOf(cfg, Registry[i]) # NoEvent => i \in set
  <2>1. \A i \in m.pos + 1..last :
          i \in 1..Len(Registry) /\ i \in m.pos + 1..Len(entries) /\ i <= last
    BY <1>1, <1>2
  <2>2. \A i \in 1..Len(Registry) : entries[i].id = IdOf(cfg, Registry[i])
    BY EntriesTyped
  <2> QED BY <2>1, <2>2 DEF Unanswered
<1>5. Batch(m, entries) =
        [SendIdentified(m, entries, set) EXCEPT
           !.pos = last, !.identifying = last < Len(entries), !.rested = FALSE]
  BY DEF Batch
<1> HIDE DEF set, last
<1>6. PICK sent \in Seq(Message) :
        SendIdentified(m, entries, set) = [m EXCEPT !.bus = sent] /\ Answering(cfg, m, set, sent)
  BY <1>3, SendIdentifiedTells
<1> DEFINE k == [m EXCEPT !.bus = sent, !.pos = last, !.identifying = last < Len(Registry),
                          !.rested = FALSE]
<1>7. Batch(m, entries) = k
  <2> DEFINE said == [m EXCEPT !.bus = sent]
             batch == [said EXCEPT !.pos = last, !.identifying = last < Len(Registry),
                                   !.rested = FALSE]
  <2>1. Batch(m, entries) = batch
    BY <1>1, <1>5, <1>6
  <2>2. batch = k
    BY DEF NodeType
  <2> QED BY <2>1, <2>2
<1>8. k \in NodeType
  <2>1. CASE last < Len(Registry)
    <3>1. k = [m EXCEPT !.bus = sent, !.pos = last, !.identifying = TRUE, !.rested = FALSE]
      BY <2>1
    <3> HIDE DEF k
    <3> QED BY <1>2, <3>1 DEF NodeType
  <2>2. CASE ~(last < Len(Registry))
    <3>0. (last < Len(Registry)) = FALSE
      BY <2>2
    <3>1. k = [m EXCEPT !.bus = sent, !.pos = last, !.identifying = FALSE, !.rested = FALSE]
      BY <3>0, Zenon
    <3> HIDE DEF k
    <3> QED BY <1>2, <3>1 DEF NodeType
  <2> QED BY <2>1, <2>2
<1>9. /\ k.up = m.up /\ k.pressed = m.pressed /\ k.bus = sent /\ k.pos = last
      /\ (k.identifying <=> last < Len(Registry)) /\ k.aspect = m.aspect /\ k.flash = m.flash
      /\ k.lit = m.lit /\ k.pixel = m.pixel
  BY DEF NodeType
<1> HIDE DEF k, entries
<1>10. InStep(cfg, m) => InStep(cfg, k)
  BY <1>9 DEF InStep, Shown
<1>11. Told(cfg, m.pos, k)
  <2> SUFFICES ASSUME NEW i \in m.pos + 1..last, IdOf(cfg, Registry[i]) # NoEvent
               PROVE  \E j \in DOMAIN sent :
                        sent[j][1] # Report /\ sent[j][1][1] = Side(Registry[i])
                        /\ sent[j][2] = IdOf(cfg, Registry[i])
    BY <1>9 DEF Told
  <2>1. i \in set
    BY <1>4
  <2> QED BY <1>6, <2>1 DEF Answering
<1>12. Complete(k)
  BY <1>1, <1>2, <1>9 DEF Complete
<1>13. Moved(cfg, m, k)
  BY <1>2, <1>6, <1>8, <1>9, <1>10, <1>11, <1>12 DEF Moved, Answering
<1> QED BY <1>7, <1>12, <1>13 DEF entries

LEMMA IdentifyMatchingMoves ==
  ASSUME NEW cfg \in Config, NEW m \in NodeType, NEW id, NEW producers
  PROVE  Moved(cfg, m, IdentifyMatching(cfg, m, id, producers))
<1> DEFINE entries == Entries(cfg, m)
           set == {i \in DOMAIN entries : entries[i].producer = producers /\ entries[i].id = id}
           k == IdentifyMatching(cfg, m, id, producers)
<1>1. k = SendIdentified(m, entries, set)
  BY DEF IdentifyMatching
<1>2. set \in SUBSET (1..Len(Registry))
  BY EntriesTyped
<1> HIDE DEF set
<1>3. PICK sent \in Seq(Message) : k = [m EXCEPT !.bus = sent] /\ Extends(m.bus, sent)
  BY <1>1, <1>2, SendIdentifiedTells DEF Answering
<1>4. k \in NodeType
  BY <1>3 DEF NodeType
<1>5. k.up = m.up /\ k.pressed = m.pressed /\ k.pos = m.pos /\ k.identifying = m.identifying
      /\ k.bus = sent
  BY <1>3 DEF NodeType
<1>6. InStep(cfg, m) => InStep(cfg, k)
  BY <1>3 DEF InStep, Shown, NodeType
<1> QED BY <1>3, <1>4, <1>5, <1>6, MovedAside

-----------------------------------------------------------------------------
(* The other messages of the task *)

\* A tick changes the half for all heads that flash
LEMMA FlashTickMoves ==
  ASSUME NEW cfg \in Config, NEW m \in NodeType
  PROVE  Moved(cfg, m, FlashTick(m, cfg))
<1> DEFINE l == [m EXCEPT !.lit = ~m.lit]
           flashing == {h \in Heads : Flashing(m.aspect[h])}
           pixel == [h \in Heads |-> IF h \in flashing THEN Shown(l, h, cfg[h].lamps)
                                     ELSE m.pixel[h]]
           k == FlashTick(m, cfg)
<1>1. l \in NodeType /\ l.aspect = m.aspect /\ l.lit = ~m.lit /\ l.pixel = m.pixel
  BY DEF NodeType
<1>2. k = [l EXCEPT !.pixel = pixel]
  BY <1>1 DEF FlashTick, ShowHeads
<1> HIDE DEF l, k
<1>3. pixel \in [Heads -> Lamps]
  <2>1. \A h \in Heads : Shown(l, h, cfg[h].lamps) \in Lamps
    BY <1>1, ShownTyped DEF NodeType
  <2>2. \A h \in Heads : m.pixel[h] \in Lamps
    BY DEF NodeType
  <2> QED BY <2>1, <2>2
<1>4. \A h \in Heads : pixel[h] = IF h \in flashing THEN Shown(l, h, cfg[h].lamps) ELSE m.pixel[h]
  OBVIOUS
<1> HIDE DEF pixel
<1>5. k \in NodeType /\ k.pixel = pixel /\ k.aspect = m.aspect /\ k.lit = ~m.lit
  BY <1>1, <1>2, <1>3 DEF NodeType
<1>6. k.up = m.up /\ k.pressed = m.pressed /\ k.pos = m.pos /\ k.identifying = m.identifying
      /\ k.bus = m.bus /\ k.flash = m.flash
  BY <1>2 DEF NodeType, l
<1>7. ASSUME InStep(cfg, m) PROVE InStep(cfg, k)
  <2>1. ASSUME NEW h \in Heads PROVE k.pixel[h] = Shown(k, h, cfg[h].lamps)
    <3>1. Shown(k, h, cfg[h].lamps) = Shown(l, h, cfg[h].lamps)
      BY <1>1, <1>5 DEF Shown
    <3>2. CASE h \in flashing
      BY <1>4, <1>5, <3>1, <3>2
    <3>3. CASE h \notin flashing
      <4>1. Shown(k, h, cfg[h].lamps) = Shown(m, h, cfg[h].lamps)
        BY <1>5, <3>3 DEF Shown
      <4> QED BY <1>4, <1>5, <1>7, <3>3, <4>1 DEF InStep
    <3> QED BY <3>2, <3>3
  <2> QED BY <1>5, <1>6, <1>7, <2>1 DEF InStep
<1>8. Extends(m.bus, k.bus)
  BY <1>6 DEF Extends, NodeType
<1> QED BY <1>5, <1>6, <1>7, <1>8, MovedAside DEF k

\* A configuration that is applied puts every chip in step, whatever it showed before
LEMMA ApplyConfigShows ==
  ASSUME NEW cfg \in Config, NEW m \in NodeType
  PROVE  LET k == ApplyConfig(m, cfg)
         IN  /\ k \in NodeType /\ InStep(cfg, k) /\ Moved(cfg, m, k)
             /\ k.pressed = m.pressed /\ k.up = m.up /\ k.bus = m.bus /\ k.pos = m.pos
<1> DEFINE aspect == [h \in Heads |-> IF cfg[h].enabled = m.enabled[h] THEN m.aspect[h]
                                      ELSE IF cfg[h].enabled THEN cfg[h].power_on_aspect
                                      ELSE "dark"]
           enabled == [h \in Heads |-> cfg[h].enabled]
           flashing == \E h \in Heads : Flashing(aspect[h])
           lit == m.lit \/ (flashing /\ ~m.flash)
           l == [m EXCEPT !.aspect = aspect, !.enabled = enabled, !.flash = flashing, !.lit = lit]
           pixel == [h \in Heads |-> Shown(l, h, cfg[h].lamps)]
           k == ApplyConfig(m, cfg)
<1>1. /\ aspect \in [Heads -> Aspects] /\ enabled \in [Heads -> BOOLEAN]
      /\ flashing \in BOOLEAN /\ lit \in BOOLEAN
  <2>1. \A h \in Heads : /\ cfg[h].enabled \in BOOLEAN /\ cfg[h].power_on_aspect \in Aspects
                         /\ m.aspect[h] \in Aspects
    BY DEF Config, HeadConfig, NodeType
  <2> QED BY <2>1, AspectsTyped DEF NodeType
<1>2. UpdateFlashTimer([m EXCEPT !.aspect = aspect, !.enabled = enabled]) = l
  BY DEF UpdateFlashTimer, NodeType
<1>3. k = ShowHeads(l, cfg, Heads)
  BY <1>2 DEF ApplyConfig
<1> HIDE DEF aspect, enabled, lit, flashing
<1>4. l \in NodeType /\ l.aspect = aspect /\ l.lit = lit
  BY <1>1 DEF NodeType
<1>5. k = [l EXCEPT !.pixel = pixel]
  BY <1>3, <1>4 DEF ShowHeads
<1> HIDE DEF l, k
<1>6. pixel \in [Heads -> Lamps]
  BY <1>1, <1>4, ShownTyped
<1>7. \A h \in Heads : pixel[h] = Shown(l, h, cfg[h].lamps)
  OBVIOUS
<1> HIDE DEF pixel
<1>8. k \in NodeType /\ k.pixel = pixel /\ k.aspect = aspect /\ k.lit = lit
  BY <1>4, <1>5, <1>6 DEF NodeType
<1>9. k.up = m.up /\ k.pressed = m.pressed /\ k.pos = m.pos /\ k.identifying = m.identifying
      /\ k.bus = m.bus /\ k.flash = flashing
  BY <1>1, <1>5 DEF NodeType, l
<1>10. InStep(cfg, k)
  <2>1. \A h \in Heads : Shown(k, h, cfg[h].lamps) = Shown(l, h, cfg[h].lamps)
    BY <1>4, <1>8 DEF Shown
  <2> QED BY <1>7, <1>8, <1>9, <2>1 DEF InStep, flashing
<1>11. Extends(m.bus, k.bus)
  BY <1>9 DEF Extends, NodeType
<1> QED BY <1>8, <1>9, <1>10, <1>11, MovedAside DEF k

-----------------------------------------------------------------------------
(* A turn of the task *)

\* A message, or what a turn without one is given
TurnType == InboxType \cup [type : {"none", "claim"}]

\* The turn answers an Identify from the start of the registry
Asks(m, msg) == msg.type = "claim" \/ (msg.type = "identify" /\ m.up)

\* The configuration the turn works with
TurnConfig(msg) ==
  IF msg.type = "write" /\ node.up THEN [config EXCEPT ![msg.head] = msg.config] ELSE config

\* The node as the answer and the press of the turn find it
Begun(m, msg) ==
  [m EXCEPT !.up = IF msg.type = "claim" THEN TRUE ELSE m.up,
            !.pos = IF Asks(m, msg) THEN 0 ELSE m.pos,
            !.pressed = IF msg.type = "settled" THEN msg.low ELSE m.pressed]

LEMMA BegunTyped ==
  ASSUME NEW m \in NodeType, NEW msg \in TurnType
  PROVE  LET b == Begun(m, msg)
         IN  /\ b \in NodeType /\ b.bus = m.bus /\ b.local = m.local
             /\ b.up = (IF msg.type = "claim" THEN TRUE ELSE m.up)
             /\ b.pos = (IF Asks(m, msg) THEN 0 ELSE m.pos)
             /\ b.pressed = (IF msg.type = "settled" THEN msg.low ELSE m.pressed)
             /\ b.identifying = m.identifying
             /\ \A cfg : InStep(cfg, m) => InStep(cfg, b)
<1> DEFINE up == IF msg.type = "claim" THEN TRUE ELSE m.up
           pos == IF Asks(m, msg) THEN 0 ELSE m.pos
           pressed == IF msg.type = "settled" THEN msg.low ELSE m.pressed
           b == [m EXCEPT !.up = up, !.pos = pos, !.pressed = pressed]
<1>1. pressed \in BOOLEAN
  <2>1. CASE msg.type = "settled"
    <3>1. msg.low \in BOOLEAN
      BY <2>1 DEF TurnType, InboxType
    <3> QED BY <2>1, <3>1
  <2>2. CASE msg.type # "settled"
    <3>1. m.pressed \in BOOLEAN
      BY DEF NodeType
    <3> QED BY <2>2, <3>1
  <2> HIDE DEF pressed
  <2> QED BY <2>1, <2>2
<1>2. up \in BOOLEAN /\ pos \in 0..Len(Registry)
  <2>1. m.up \in BOOLEAN /\ m.pos \in 0..Len(Registry) /\ 0 \in 0..Len(Registry)
    BY RegistryTyped DEF NodeType
  <2>2. up \in BOOLEAN
    BY <2>1
  <2> QED BY <2>1, <2>2
<1>3. Begun(m, msg) = b
  BY DEF Begun
<1> HIDE DEF up, pos, pressed
<1>4. b \in NodeType
  BY <1>1, <1>2 DEF NodeType
<1>5. /\ b.bus = m.bus /\ b.local = m.local /\ b.up = up /\ b.pos = pos /\ b.pressed = pressed
      /\ b.identifying = m.identifying /\ b.aspect = m.aspect /\ b.flash = m.flash
      /\ b.lit = m.lit /\ b.pixel = m.pixel
  BY DEF NodeType
<1> HIDE DEF b
<1>6. \A cfg : InStep(cfg, m) => InStep(cfg, b)
  BY <1>5 DEF InStep, Shown
<1> QED BY <1>3, <1>4, <1>5, <1>6 DEF up, pos, pressed

\* The press handler moves a switch
LEMMA SettledMoves ==
  ASSUME NEW cfg \in Config, NEW m \in NodeType, NEW low \in BOOLEAN
  PROVE  Moved(cfg, [m EXCEPT !.pressed = low], Settled(m, low))
<1> DEFINE b == [m EXCEPT !.pressed = low]
<1>1. b \in NodeType
  BY DEF NodeType
<1>2. ASSUME low = m.pressed PROVE Moved(cfg, b, Settled(m, low))
  <2>1. b = m
    BY <1>2 DEF NodeType
  <2>2. Settled(m, low) = m
    BY <1>2 DEF Settled
  <2> HIDE DEF b
  <2> QED BY <2>1, <2>2, MovedItself
<1>3. ASSUME low # m.pressed PROVE Moved(cfg, b, Settled(m, low))
  <2>1. Settled(m, low) = IF low THEN Move(b, 1, ~m.closed[1]) ELSE b
    BY <1>3 DEF Settled
  <2>2. 1 \in 1..S /\ (~m.closed[1]) \in BOOLEAN
    BY LayoutAssumption
  <2> HIDE DEF b
  <2> QED BY <1>1, <2>1, <2>2, MovedItself, MoveMoves
<1> QED BY <1>2, <1>3

\* What a message does, but for its effect on the chips
LEMMA HandleMoves ==
  ASSUME NEW cfg \in Config, NEW m \in NodeType, NEW msg \in TurnType
  PROVE  LET k == Handle(cfg, m, msg)
         IN  /\ Moved(cfg, Begun(m, msg), k)
             /\ Complete(m) => Complete(k)
             /\ msg.type = "write" /\ m.up => InStep(cfg, k)
<1> DEFINE b == Begun(m, msg)
           k == Handle(cfg, m, msg)
           goal == /\ Moved(cfg, b, k) /\ (Complete(m) => Complete(k))
                   /\ (msg.type = "write" /\ m.up => InStep(cfg, k))
<1>1. b \in NodeType
  BY BegunTyped
<1>2. ASSUME msg.type \notin {"claim", "settled"}, ~Asks(m, msg)
      PROVE  b = m
  BY <1>2 DEF Begun, NodeType
<1>3. ASSUME msg.type = "tick" PROVE goal
  <2>1. b = m
    BY <1>2, <1>3 DEF Asks
  <2>2. k = FlashTick(m, cfg)
    BY <1>3 DEF Handle
  <2>3. Moved(cfg, m, k)
    BY <2>2, FlashTickMoves
  <2> QED BY <1>3, <2>1, <2>3 DEF Moved
<1>4. ASSUME msg.type = "settled" PROVE goal
  <2>1. b = [m EXCEPT !.pressed = msg.low] /\ (Complete(m) => Complete(b))
    BY <1>4 DEF Begun, Asks, NodeType, Complete
  <2>2. k = Settled(m, msg.low) /\ msg.low \in BOOLEAN
    BY <1>4 DEF Handle, TurnType, InboxType
  <2>3. Moved(cfg, b, k)
    BY <2>1, <2>2, SettledMoves
  <2> QED BY <1>4, <2>1, <2>3 DEF Moved
<1>5. ASSUME msg.type = "claim" PROVE goal
  <2> DEFINE l == [m EXCEPT !.up = TRUE]
  <2>1. [l EXCEPT !.pos = 0] = b
    BY <1>5 DEF Begun, Asks, NodeType
  <2>2. k = IdentifyAll(l, Entries(cfg, m))
    BY <1>5 DEF Handle
  <2> HIDE DEF l, b, k
  <2>3. k = Batch(b, Entries(cfg, m))
    BY <2>1, <2>2 DEF IdentifyAll
  <2> QED BY <1>1, <1>5, <2>3, BatchMoves
<1>6. ASSUME msg.type = "identify", m.up PROVE goal
  <2>1. [m EXCEPT !.pos = 0] = b
    BY <1>6 DEF Begun, Asks, NodeType
  <2>2. k = IdentifyAll(m, Entries(cfg, m))
    BY <1>6 DEF Handle
  <2> HIDE DEF b, k
  <2>3. k = Batch(b, Entries(cfg, m))
    BY <2>1, <2>2 DEF IdentifyAll
  <2> QED BY <1>1, <1>6, <2>3, BatchMoves
<1>7. ASSUME msg.type = "write", m.up PROVE goal
  <2>1. b = m
    BY <1>2, <1>7 DEF Asks
  <2>2. k = ApplyConfig(m, cfg)
    BY <1>7 DEF Handle
  <2> HIDE DEF b, k
  <2>3. Moved(cfg, m, k) /\ InStep(cfg, k)
    BY <2>2, ApplyConfigShows
  <2> QED BY <2>1, <2>3 DEF Moved
<1>8. ASSUME msg.type = "report", m.up PROVE goal
  <2>1. b = m
    BY <1>2, <1>8 DEF Asks
  <2>2. k = Consume(cfg, m, msg.id)
    BY <1>8 DEF Handle
  <2> HIDE DEF b, k
  <2>3. Moved(cfg, m, k)
    BY <2>2, ConsumeMoves
  <2> QED BY <1>8, <2>1, <2>3 DEF Moved
<1>9. ASSUME msg.type = "matching", m.up PROVE goal
  <2>1. b = m
    BY <1>2, <1>9 DEF Asks
  <2>2. k = IdentifyMatching(cfg, m, msg.id, msg.producers)
    BY <1>9 DEF Handle
  <2> HIDE DEF b, k
  <2>3. Moved(cfg, m, k)
    BY <2>2, IdentifyMatchingMoves
  <2> QED BY <1>9, <2>1, <2>3 DEF Moved
<1>10. ASSUME msg.type = "none"
                \/ (msg.type \in {"write", "report", "identify", "matching"} /\ ~m.up)
       PROVE  goal
  <2>1. b = m
    BY <1>2, <1>10 DEF Asks
  <2>2. k = m
    BY <1>10 DEF Handle
  <2> HIDE DEF b, k
  <2> QED BY <1>10, <2>1, <2>2, MovedItself
<1>11. msg.type \in {"tick", "settled", "claim", "identify", "write", "report", "matching", "none"}
  BY DEF TurnType, InboxType
<1> HIDE DEF goal
<1>12. goal
  BY <1>3, <1>4, <1>5, <1>6, <1>7, <1>8, <1>9, <1>10, <1>11
<1> QED BY <1>12 DEF goal

\* The node's own events, and the next batch
LEMMA RunTimersMoves ==
  ASSUME NEW cfg \in Config, NEW m \in NodeType
  PROVE  Moved(cfg, m, RunTimers(cfg, m))
<1>1. CASE ~m.up
  BY <1>1, MovedItself DEF RunTimers
<1>2. CASE m.up
  <2> DEFINE d == Drain(cfg, m)
             k == RunTimers(cfg, m)
  <2>1. Moved(cfg, m, d) /\ d \in NodeType
    BY DrainMoves DEF Moved
  <2>2. k = IF d.identifying /\ d.rested THEN Batch(d, Entries(cfg, d)) ELSE d
    BY <1>2 DEF RunTimers, NextBatch
  <2> HIDE DEF d
  <2>3. Moved(cfg, d, Batch(d, Entries(cfg, d))) /\ Moved(cfg, d, d)
    BY <2>1, BatchMoves, MovedItself
  <2> QED BY <2>1, <2>2, <2>3, MovedTransitive
<1> QED BY <1>1, <1>2

LEMMA TurnConfigTyped ==
  ASSUME config \in Config, NEW msg \in TurnType
  PROVE  TurnConfig(msg) \in Config
<1>1. msg.type = "write" => msg.head \in Heads /\ msg.config \in HeadConfig(Ids)
  BY DEF TurnType, InboxType
<1> QED BY <1>1 DEF TurnConfig, Config

\* What a turn keeps of the node, and that it answers from where it began
LEMMA TurnMoves ==
  ASSUME LayoutTyped, InStep(config, node), Complete(node), NEW msg \in TurnType
  PROVE  LET cfg == TurnConfig(msg)
             m   == RunTimers(cfg, Handle(cfg, node, msg))
         IN  /\ m \in NodeType /\ InStep(cfg, m) /\ Complete(m)
             /\ m.up = (IF msg.type = "claim" THEN TRUE ELSE node.up)
             /\ m.pressed = (IF msg.type = "settled" THEN msg.low ELSE node.pressed)
             /\ Told(cfg, IF Asks(node, msg) THEN 0 ELSE node.pos, m)
<1> DEFINE cfg == TurnConfig(msg)
           b   == Begun(node, msg)
           k   == Handle(cfg, node, msg)
           m   == RunTimers(cfg, k)
<1>1. node \in NodeType /\ cfg \in Config
  BY TurnConfigTyped DEF LayoutTyped
<1>2. /\ b \in NodeType
      /\ b.up = (IF msg.type = "claim" THEN TRUE ELSE node.up)
      /\ b.pos = (IF Asks(node, msg) THEN 0 ELSE node.pos)
      /\ b.pressed = (IF msg.type = "settled" THEN msg.low ELSE node.pressed)
      /\ (InStep(cfg, node) => InStep(cfg, b))
  BY <1>1, BegunTyped
<1>3. Moved(cfg, b, k) /\ Complete(k) /\ (msg.type = "write" /\ node.up => InStep(cfg, k))
  BY <1>1, HandleMoves
<1>4. ~(msg.type = "write" /\ node.up) => cfg = config
  BY DEF TurnConfig
<1> HIDE DEF b, k, cfg
<1>5. InStep(cfg, k)
  BY <1>2, <1>3, <1>4 DEF Moved
<1>6. k \in NodeType
  BY <1>3 DEF Moved
<1>7. Moved(cfg, k, m)
  BY <1>1, <1>6, RunTimersMoves
<1> HIDE DEF m
<1>8. Moved(cfg, b, m)
  BY <1>2, <1>3, <1>7, MovedTransitive
<1>9. InStep(cfg, m) /\ Complete(m)
  BY <1>3, <1>5, <1>7 DEF Moved
<1>10. m \in NodeType /\ m.up = b.up /\ m.pressed = b.pressed /\ Told(cfg, b.pos, m)
  BY <1>8 DEF Moved
<1> QED BY <1>2, <1>9, <1>10 DEF cfg, k, m

\* What the rest of the state has of a turn
LEMMA TurnKeeps ==
  ASSUME LayoutTyped, InStep(config, node), AnswerInv, NEW msg \in TurnType, Run(msg)
  PROVE  /\ node' \in NodeType /\ node'.bus = <<>> /\ config' \in Config /\ stirred' \in BOOLEAN
         /\ InStep(config, node)' /\ AnswerInv'
         /\ node'.pressed = (IF msg.type = "settled" THEN msg.low ELSE node.pressed)
<1> DEFINE cfg == TurnConfig(msg)
           m == RunTimers(cfg, Handle(cfg, node, msg))
           asks == Asks(node, msg)
           replies == {i \in DOMAIN m.bus : m.bus[i][1] # Report}
<1>1. /\ m \in NodeType /\ InStep(cfg, m) /\ Complete(m)
      /\ m.up = (IF msg.type = "claim" THEN TRUE ELSE node.up)
      /\ m.pressed = (IF msg.type = "settled" THEN msg.low ELSE node.pressed)
      /\ Told(cfg, IF asks THEN 0 ELSE node.pos, m)
  BY TurnMoves DEF AnswerInv
<1>2. cfg \in Config
  BY TurnConfigTyped DEF LayoutTyped
<1>3. After(msg, cfg, m)
  BY DEF Run, TurnConfig
<1> HIDE DEF cfg, m
<1>4. /\ config' = cfg
      /\ node' = [m EXCEPT !.bus = <<>>, !.lost = {}]
      /\ answered' = (IF asks THEN {} ELSE answered) \cup
                     {<<m.bus[i][1][1], m.bus[i][2]>> : i \in replies}
      /\ stirred' = (cfg # config \/ (stirred /\ ~asks))
  <2>1. config' = cfg /\ node' = [m EXCEPT !.bus = <<>>, !.lost = {}]
    BY <1>3 DEF After
  <2>2. stirred' = (cfg # config \/ (stirred /\ ~asks))
    BY <1>3, Zenon DEF After, Asks
  <2>3. answered' = (IF asks THEN {} ELSE answered) \cup
                    {<<m.bus[i][1][1], m.bus[i][2]>> : i \in replies}
    BY <1>3, Zenon DEF After, Asks
  <2> QED BY <2>1, <2>2, <2>3
<1>5. node' \in NodeType
  <2>1. m \in NodeType /\ node' = [m EXCEPT !.bus = <<>>, !.lost = {}]
    BY <1>1, <1>4
  <2>2. <<>> \in Seq(Message) /\ {} \in SUBSET Events
    OBVIOUS
  <2> QED BY <2>1, <2>2 DEF NodeType
<1>6. /\ node'.bus = <<>> /\ node'.up = m.up /\ node'.pressed = m.pressed /\ node'.pos = m.pos
      /\ node'.identifying = m.identifying /\ node'.aspect = m.aspect /\ node'.flash = m.flash
      /\ node'.lit = m.lit /\ node'.pixel = m.pixel
  BY <1>1, <1>4 DEF NodeType
<1>7. InStep(config, node)'
  BY <1>1, <1>4, <1>6 DEF InStep, Shown
<1>8. Complete(node)'
  BY <1>1, <1>6 DEF Complete
<1>9. ASSUME node'.up, ~stirred', NEW i \in 1..node'.pos, IdOf(config', Registry[i]) # NoEvent
      PROVE  <<Side(Registry[i]), IdOf(config', Registry[i])>> \in answered'
  <2> DEFINE from == IF asks THEN 0 ELSE node.pos
  <2>1. config' = config /\ cfg = config /\ (~stirred \/ asks)
    BY <1>4, <1>9
  <2>2. from \in Nat /\ m.pos \in Nat /\ i \in Nat /\ 1 <= i /\ i <= m.pos /\ node.pos \in Nat
    BY <1>1, <1>6, RegistryTyped DEF LayoutTyped, NodeType
  <2>3. CASE i > from
    <3>1. i \in from + 1..m.pos
      BY <2>2, <2>3
    <3>2. PICK j \in DOMAIN m.bus : m.bus[j][1] # Report /\ m.bus[j][1][1] = Side(Registry[i])
                                    /\ m.bus[j][2] = IdOf(config, Registry[i])
      BY <1>1, <1>9, <2>1, <3>1 DEF Told
    <3>3. j \in replies
      BY <3>2
    <3> HIDE DEF replies
    <3> QED BY <1>4, <2>1, <3>2, <3>3
  <2>4. CASE ~(i > from)
    <3>1. ~asks /\ i \in 1..node.pos
      BY <2>2, <2>4
    <3>2. node.up /\ ~stirred
      BY <1>1, <1>6, <1>9, <2>1, <3>1 DEF Asks
    <3>3. <<Side(Registry[i]), IdOf(config, Registry[i])>> \in answered
      BY <1>9, <2>1, <3>1, <3>2 DEF AnswerInv
    <3> QED BY <1>4, <2>1, <3>1, <3>3
  <2> QED BY <2>3, <2>4
<1>10. AnswerInv'
  BY <1>8, <1>9 DEF AnswerInv
<1>11. stirred' \in BOOLEAN
  BY <1>4
<1> QED BY <1>1, <1>2, <1>4, <1>5, <1>6, <1>7, <1>10, <1>11

-----------------------------------------------------------------------------
(* The queue and the input *)

\* A message that is not a level changes nothing about the last level posted
LEMMA AppendKeeps ==
  ASSUME inbox \in Seq(InboxType), NEW x \in InboxType, inbox' = Append(inbox, x)
  PROVE  /\ inbox' \in Seq(InboxType)
         /\ x.type # "settled" /\ node'.pressed = node.pressed /\ pin' = pin /\ LevelPosted
              => LevelPosted'
         /\ x.type = "settled" /\ x.low = pin' => LevelPosted'
<1>1. inbox' \in Seq(InboxType) /\ Len(inbox') = Len(inbox) + 1 /\ Len(inbox) \in Nat
      /\ DOMAIN inbox' = 1..Len(inbox) + 1 /\ DOMAIN inbox = 1..Len(inbox)
      /\ (\A i \in 1..Len(inbox) : inbox'[i] = inbox[i]) /\ inbox'[Len(inbox) + 1] = x
  OBVIOUS
<1>2. ASSUME x.type # "settled", node'.pressed = node.pressed, pin' = pin, LevelPosted
      PROVE  LevelPosted'
  <2>1. CASE ~Queued("settled") /\ node.pressed = pin
    <3>1. \A i \in DOMAIN inbox' : i \in DOMAIN inbox \/ i = Len(inbox) + 1
      BY <1>1
    <3>2. ~Queued("settled")'
      BY <1>1, <1>2, <2>1, <3>1 DEF Queued
    <3> QED BY <1>2, <2>1, <3>2 DEF LevelPosted
  <2>2. ASSUME NEW i \in DOMAIN inbox, inbox[i].type = "settled", inbox[i].low = pin,
               \A j \in DOMAIN inbox : j > i => inbox[j].type # "settled"
        PROVE  LevelPosted'
    <3>1. i \in DOMAIN inbox' /\ inbox'[i].type = "settled" /\ inbox'[i].low = pin'
      BY <1>1, <1>2, <2>2
    <3>2. ASSUME NEW j \in DOMAIN inbox', j > i PROVE inbox'[j].type # "settled"
      <4>1. CASE j = Len(inbox) + 1
        BY <1>1, <1>2, <4>1
      <4>2. CASE j # Len(inbox) + 1
        <5>1. j \in DOMAIN inbox
          BY <1>1, <4>2
        <5> QED BY <1>1, <2>2, <3>2, <5>1
      <4> QED BY <4>1, <4>2
    <3> QED BY <3>1, <3>2 DEF LevelPosted
  <2> QED BY <1>2, <2>1, <2>2 DEF LevelPosted
<1>3. ASSUME x.type = "settled", x.low = pin' PROVE LevelPosted'
  <2>1. Len(inbox) + 1 \in DOMAIN inbox'
    BY <1>1
  <2>2. \A j \in DOMAIN inbox' : ~(j > Len(inbox) + 1)
    BY <1>1
  <2> QED BY <1>1, <1>3, <2>1, <2>2 DEF LevelPosted
<1> QED BY <1>1, <1>2, <1>3

\* The task takes the levels in the order they were posted
LEMMA TakeKeeps ==
  ASSUME inbox \in Seq(InboxType), inbox # <<>>, inbox' = Tail(inbox), pin' = pin,
         node'.pressed = (IF Head(inbox).type = "settled" THEN Head(inbox).low ELSE node.pressed)
  PROVE  /\ Head(inbox) \in InboxType /\ inbox' \in Seq(InboxType)
         /\ LevelPosted => LevelPosted'
<1>1. Head(inbox) \in InboxType /\ inbox' \in Seq(InboxType) /\ Len(inbox) \in Nat \ {0}
      /\ Len(inbox') = Len(inbox) - 1 /\ Head(inbox) = inbox[1]
      /\ DOMAIN inbox' = 1..Len(inbox) - 1 /\ DOMAIN inbox = 1..Len(inbox)
      /\ \A i \in 1..Len(inbox) - 1 : inbox'[i] = inbox[i + 1]
  OBVIOUS
<1>2. CASE ~Queued("settled") /\ node.pressed = pin
  <2>1. \A i \in DOMAIN inbox' : i + 1 \in DOMAIN inbox
    BY <1>1
  <2>2. 1 \in DOMAIN inbox
    BY <1>1
  <2>3. ~Queued("settled")' /\ Head(inbox).type # "settled"
    BY <1>1, <1>2, <2>1, <2>2 DEF Queued
  <2> QED BY <1>1, <1>2, <2>3 DEF LevelPosted
<1>3. ASSUME NEW i \in DOMAIN inbox, inbox[i].type = "settled", inbox[i].low = pin,
             \A j \in DOMAIN inbox : j > i => inbox[j].type # "settled"
      PROVE  LevelPosted'
  <2>1. \A j \in DOMAIN inbox' : j + 1 \in DOMAIN inbox /\ (j + 1 > i <=> j > i - 1)
    BY <1>1
  <2>2. \A j \in DOMAIN inbox' : j > i - 1 => inbox'[j].type # "settled"
    BY <1>1, <1>3, <2>1
  <2>3. CASE i = 1
    <3>1. node'.pressed = pin'
      BY <1>1, <1>3, <2>3
    <3>2. \A j \in DOMAIN inbox' : j > i - 1
      BY <1>1, <2>3
    <3>3. ~Queued("settled")'
      BY <2>2, <3>2 DEF Queued
    <3> QED BY <3>1, <3>3 DEF LevelPosted
  <2>4. CASE i # 1
    <3>1. i - 1 \in DOMAIN inbox' /\ i - 1 + 1 = i
      BY <1>1, <2>4
    <3>2. inbox'[i - 1] = inbox[i]
      BY <1>1, <3>1
    <3> QED BY <1>3, <2>2, <3>1, <3>2 DEF LevelPosted
  <2> QED BY <2>3, <2>4
<1> QED BY <1>1, <1>2, <1>3 DEF LevelPosted

-----------------------------------------------------------------------------
(* The invariant *)

\* What a step leaves alone that is not a turn of the task, and does not touch the node
\* or its configuration
LEMMA NodeStays ==
  ASSUME LayoutInv, UNCHANGED <<node, config>>, UNCHANGED <<answered, stirred>>
  PROVE  node' \in NodeType /\ node'.bus = <<>> /\ config' \in Config /\ stirred' \in BOOLEAN
         /\ InStep(config, node)' /\ AnswerInv'
BY DEF LayoutInv, LayoutTyped, InStep, AnswerInv, Complete

LEMMA InitLayout == Init => LayoutInv
<1> SUFFICES ASSUME Init PROVE LayoutInv
  OBVIOUS
<1> DEFINE blank ==
      [up |-> FALSE, local |-> <<>>, pos |-> 0, identifying |-> FALSE, rested |-> FALSE,
       bus |-> <<>>, lost |-> {},
       closed |-> [i \in 1..S |-> TRUE], pressed |-> FALSE,
       aspect |-> [h \in Heads |-> "dark"], enabled |-> [h \in Heads |-> FALSE],
       flash |-> FALSE, lit |-> FALSE, pixel |-> [h \in Heads |-> "none"]]
<1>1. config \in Config
  BY LayoutAssumption DEF Init, Config, Ids
<1>2. blank \in NodeType
  <2>1. "dark" \in Aspects /\ "none" \in Lamps
    BY AspectsTyped DEF Lamps
  <2>2. 0 \in 0..Len(Registry)
    BY RegistryTyped
  <2> QED BY <2>1, <2>2 DEF NodeType
<1>3. node = ApplyConfig(blank, config) /\ pin = FALSE
  BY DEF Init, NewNode
<1>4. blank.pressed = FALSE /\ blank.up = FALSE /\ blank.bus = <<>>
  OBVIOUS
<1> HIDE DEF blank
<1>5. node \in NodeType /\ InStep(config, node) /\ node.pressed = FALSE /\ node.up = FALSE
      /\ node.bus = <<>>
  BY <1>1, <1>2, <1>3, <1>4, ApplyConfigShows
<1>6. LayoutTyped
  <2>1. inbox = <<>> /\ <<>> \in Seq(InboxType)
    BY DEF Init
  <2>2. /\ pin \in BOOLEAN /\ started \in BOOLEAN /\ edges \in BOOLEAN /\ timer \in BOOLEAN
        /\ reading \in BOOLEAN /\ unseen \in BOOLEAN /\ stirred \in BOOLEAN
    BY DEF Init
  <2> QED BY <1>1, <1>5, <2>1, <2>2 DEF LayoutTyped
<1>7. ~Queued("settled")
  BY DEF Init, Queued
<1>8. InputInv
  BY <1>3, <1>5, <1>7 DEF InputInv, LevelPosted
<1>9. AnswerInv
  BY <1>5 DEF AnswerInv, Complete
<1> QED BY <1>5, <1>6, <1>8, <1>9 DEF LayoutInv

LEMMA TurnStep ==
  ASSUME LayoutInv, Take \/ Wake \/ Claim
  PROVE  LayoutInv'
<1>1. LayoutTyped /\ InStep(config, node) /\ InputInv /\ AnswerInv
  BY DEF LayoutInv
<1>2. CASE Take
  <2>1. inbox # <<>> /\ inbox' = Tail(inbox) /\ Run(Head(inbox)) /\ UNCHANGED <<input, counts>>
    BY <1>2 DEF Take
  <2>2. inbox \in Seq(InboxType) /\ Head(inbox) \in TurnType
    BY <1>1, <2>1 DEF LayoutTyped, TurnType
  <2>3. /\ node' \in NodeType /\ node'.bus = <<>> /\ config' \in Config /\ stirred' \in BOOLEAN
        /\ InStep(config, node)' /\ AnswerInv'
        /\ node'.pressed = (IF Head(inbox).type = "settled" THEN Head(inbox).low ELSE node.pressed)
    BY <1>1, <2>1, <2>2, TurnKeeps
  <2>4. inbox' \in Seq(InboxType) /\ (LevelPosted => LevelPosted')
    BY <2>1, <2>2, <2>3, TakeKeeps DEF input
  <2>5. LayoutTyped'
    BY <1>1, <2>1, <2>3, <2>4 DEF LayoutTyped, input
  <2>6. InputInv'
    BY <1>1, <2>1, <2>4 DEF InputInv, input
  <2> QED BY <2>3, <2>5, <2>6 DEF LayoutInv
<1>3. CASE Wake \/ Claim
  <2>1. PICK msg \in TurnType : msg.type \in {"none", "claim"} /\ Run(msg)
    <3>1. CASE Wake
      <4>1. [type |-> "none"] \in TurnType
        BY DEF TurnType
      <4> QED BY <3>1, <4>1 DEF Wake
    <3>2. CASE Claim
      <4>1. [type |-> "claim"] \in TurnType
        BY DEF TurnType
      <4> QED BY <3>2, <4>1 DEF Claim
    <3> QED BY <1>3, <3>1, <3>2
  <2>2. UNCHANGED <<inbox, input, counts>>
    BY <1>3 DEF Wake, Claim
  <2>3. /\ node' \in NodeType /\ node'.bus = <<>> /\ config' \in Config /\ stirred' \in BOOLEAN
        /\ InStep(config, node)' /\ AnswerInv' /\ node'.pressed = node.pressed
    BY <1>1, <2>1, TurnKeeps
  <2>4. LayoutTyped'
    BY <1>1, <2>2, <2>3 DEF LayoutTyped, input
  <2>5. InputInv'
    BY <1>1, <2>2, <2>3 DEF InputInv, LevelPosted, Queued, input
  <2> QED BY <2>3, <2>4, <2>5 DEF LayoutInv
<1> QED BY <1>2, <1>3

LEMMA RestStep ==
  ASSUME LayoutInv, Rest
  PROVE  LayoutInv'
<1>1. LayoutTyped /\ InStep(config, node) /\ InputInv /\ AnswerInv
  BY DEF LayoutInv
<1>2. node' = [node EXCEPT !.rested = TRUE] /\ UNCHANGED <<config, inbox, input, bus, counts>>
  BY DEF Rest
<1>3. node \in NodeType /\ node.bus = <<>>
  BY <1>1 DEF LayoutTyped
<1>4. node' \in NodeType
  BY <1>2, <1>3 DEF NodeType
<1>5. /\ node'.bus = <<>> /\ node'.up = node.up /\ node'.pressed = node.pressed
      /\ node'.pos = node.pos /\ node'.identifying = node.identifying
      /\ node'.aspect = node.aspect /\ node'.flash = node.flash /\ node'.lit = node.lit
      /\ node'.pixel = node.pixel
  BY <1>2, <1>3 DEF NodeType
<1>6. LayoutTyped'
  BY <1>1, <1>2, <1>4, <1>5 DEF LayoutTyped, input, bus
<1>7. InStep(config, node)'
  BY <1>1, <1>2, <1>5 DEF InStep, Shown
<1>8. InputInv'
  BY <1>1, <1>2, <1>5 DEF InputInv, LevelPosted, Queued, input
<1>9. AnswerInv'
  BY <1>1, <1>2, <1>5 DEF AnswerInv, Complete, bus
<1> QED BY <1>6, <1>7, <1>8, <1>9 DEF LayoutInv

\* A message for the queue that is not a level, if there is room for it
LEMMA FrameStep ==
  ASSUME LayoutInv, UNCHANGED <<node, config, input, answered, stirred>>, NEW x \in InboxType,
         x.type # "settled", inbox' = inbox \/ inbox' = Append(inbox, x)
  PROVE  LayoutInv'
<1>1. LayoutTyped /\ InputInv
  BY DEF LayoutInv
<1>2. node' \in NodeType /\ node'.bus = <<>> /\ config' \in Config /\ stirred' \in BOOLEAN
      /\ InStep(config, node)' /\ AnswerInv'
  BY NodeStays
<1>3. inbox' \in Seq(InboxType) /\ (LevelPosted => LevelPosted')
  <2>1. CASE inbox' = inbox
    BY <1>1, <2>1 DEF LayoutTyped, LevelPosted, Queued, input
  <2>2. CASE inbox' = Append(inbox, x)
    BY <1>1, <2>2, AppendKeeps DEF LayoutTyped, input
  <2> QED BY <2>1, <2>2
<1>4. LayoutTyped'
  BY <1>1, <1>2, <1>3 DEF LayoutTyped, input
<1>5. InputInv'
  BY <1>1, <1>3 DEF InputInv, input
<1> QED BY <1>2, <1>4, <1>5 DEF LayoutInv

LEMMA InputStep ==
  ASSUME LayoutInv, InputsStart \/ Change \/ Debounce
  PROVE  LayoutInv'
<1>1. LayoutTyped /\ InputInv
  BY DEF LayoutInv
<1>2. UNCHANGED <<node, config, answered, stirred>>
  BY DEF InputsStart, Change, Debounce, bus
<1>3. node' \in NodeType /\ node'.bus = <<>> /\ config' \in Config /\ stirred' \in BOOLEAN
      /\ InStep(config, node)' /\ AnswerInv'
  BY <1>2, NodeStays
<1>4. CASE InputsStart
  <2>1. LayoutTyped'
    BY <1>1, <1>3, <1>4 DEF LayoutTyped, InputsStart
  <2>2. InputInv'
    BY <1>1, <1>2, <1>4 DEF InputInv, LevelPosted, Queued, InputsStart
  <2> QED BY <1>3, <2>1, <2>2 DEF LayoutInv
<1>5. CASE Change
  <2>1. LayoutTyped'
    BY <1>1, <1>3, <1>5 DEF LayoutTyped, Change
  <2>2. InputInv'
    BY <1>1, <1>5 DEF InputInv, Change, LayoutTyped
  <2> QED BY <1>3, <2>1, <2>2 DEF LayoutInv
<1>6. CASE Debounce
  <2>1. UNCHANGED <<node, pin, started>>
    BY <1>6 DEF Debounce
  <2>2. CASE timer /\ ~reading /\ timer' = FALSE /\ reading' = TRUE /\ edges' = TRUE
             /\ UNCHANGED <<inbox, unseen>>
    <3>1. LayoutTyped'
      BY <1>1, <1>3, <2>1, <2>2 DEF LayoutTyped
    <3>2. InputInv'
      BY <2>2 DEF InputInv
    <3> QED BY <1>3, <3>1, <3>2 DEF LayoutInv
  <2>3. CASE reading /\ reading' = FALSE /\ PostLevel /\ UNCHANGED <<timer, edges>>
    <3>1. CASE Full
      <4>1. unseen' = TRUE /\ UNCHANGED inbox
        BY <2>3, <3>1 DEF PostLevel
      <4>2. LayoutTyped'
        BY <1>1, <1>3, <2>1, <2>3, <4>1 DEF LayoutTyped
      <4>3. InputInv'
        BY <4>1 DEF InputInv
      <4> QED BY <1>3, <4>2, <4>3 DEF LayoutInv
    <3>2. CASE ~Full
      <4> DEFINE x == [type |-> "settled", low |-> pin]
      <4>1. unseen' = FALSE /\ inbox' = Append(inbox, x)
        BY <2>3, <3>2 DEF PostLevel
      <4>2. x \in InboxType /\ x.type = "settled" /\ x.low = pin'
        BY <1>1, <2>1 DEF LayoutTyped, InboxType
      <4> HIDE DEF x
      <4>3. inbox' \in Seq(InboxType) /\ LevelPosted'
        BY <1>1, <4>1, <4>2, AppendKeeps DEF LayoutTyped
      <4>4. LayoutTyped'
        BY <1>1, <1>3, <2>1, <2>3, <4>1, <4>3 DEF LayoutTyped
      <4>5. InputInv'
        BY <4>3 DEF InputInv
      <4> QED BY <1>3, <4>4, <4>5 DEF LayoutInv
    <3> QED BY <3>1, <3>2
  <2> QED BY <1>6, <2>2, <2>3 DEF Debounce, RearmFirst
<1> QED BY <1>4, <1>5, <1>6

LEMMA NextLayout == LayoutInv /\ [Next]_vars => LayoutInv'
<1> SUFFICES ASSUME LayoutInv, [Next]_vars PROVE LayoutInv'
  OBVIOUS
<1>1. CASE Take \/ Wake \/ Claim
  BY <1>1, TurnStep
<1>2. CASE Rest
  BY <1>2, RestStep
<1>3. CASE FlashTimer
  <2>1. [type |-> "tick"] \in InboxType
    BY DEF InboxType
  <2>2. UNCHANGED <<node, config, input, answered, stirred>>
        /\ inbox' = Append(inbox, [type |-> "tick"])
    BY <1>3 DEF FlashTimer, bus
  <2> QED BY <2>1, <2>2, FrameStep
<1>4. CASE InputsStart \/ Change \/ Debounce
  BY <1>4, InputStep
<1>5. ASSUME NEW id \in HostEvents, HostReports(id) PROVE LayoutInv'
  <2>1. [type |-> "report", id |-> id] \in InboxType
    BY LayoutAssumption DEF InboxType
  <2>2. UNCHANGED <<node, config, input, answered, stirred>>
        /\ (inbox' = inbox \/ inbox' = Append(inbox, [type |-> "report", id |-> id]))
    BY <1>5 DEF HostReports, Frame
  <2> QED BY <2>1, <2>2, FrameStep
<1>6. ASSUME NEW msg \in HostRequests, HostAsks(msg) PROVE LayoutInv'
  <2>1. msg \in InboxType /\ msg.type # "settled"
    BY LayoutAssumption DEF InboxType
  <2>2. UNCHANGED <<node, config, input, answered, stirred>>
        /\ (inbox' = inbox \/ inbox' = Append(inbox, msg))
    BY <1>6 DEF HostAsks, Frame, bus
  <2> QED BY <2>1, <2>2, FrameStep
<1>7. ASSUME NEW h \in Heads, NEW c \in Configs[h], HostWrites(h, c) PROVE LayoutInv'
  <2> DEFINE x == [type |-> "write", head |-> h, config |-> c]
  <2>1. x \in InboxType /\ x.type # "settled"
    BY LayoutAssumption DEF InboxType, Ids
  <2>2. UNCHANGED <<node, config, input, answered, stirred>>
        /\ (inbox' = inbox \/ inbox' = Append(inbox, x))
    BY <1>7 DEF HostWrites, Frame, bus
  <2> HIDE DEF x
  <2> QED BY <2>1, <2>2, FrameStep
<1>8. CASE UNCHANGED vars
  <2>1. LayoutTyped /\ InputInv /\ UNCHANGED <<node, config, answered, stirred>>
    BY <1>8 DEF LayoutInv, vars, bus
  <2>2. InStep(config, node)' /\ AnswerInv'
    BY <2>1, NodeStays
  <2>3. LayoutTyped' /\ InputInv'
    BY <1>8, <2>1 DEF LayoutTyped, InputInv, LevelPosted, Queued, vars, input, bus
  <2> QED BY <2>2, <2>3 DEF LayoutInv
<1> QED BY <1>1, <1>2, <1>3, <1>4, <1>5, <1>6, <1>7, <1>8 DEF Next

\* Always: the node, its configuration and its queue are what the program can hold, the
\* chips are in step with the heads, the last level posted is that of the input at rest,
\* and what an Identify has passed has been answered for.
THEOREM LayoutInvariant == Spec => []LayoutInv
<1>1. Init => LayoutInv
  BY InitLayout
<1>2. LayoutInv /\ [Next]_vars => LayoutInv'
  BY NextLayout
<1> QED BY <1>1, <1>2, PTL DEF Spec

\* Each chip always shows the aspect of its head, and those that flash do so together
\* (signals.c:39), for any number of heads, any configurations and any lengths of the
\* queues: the flash timer runs exactly when some head flashes, so a head that starts
\* to flash changes the half only when no other is in it.
THEOREM ChipsStayInStep == Spec => []HeadsInStep
<1>1. LayoutInv => HeadsInStep
  BY DEF LayoutInv, InStep, HeadsInStep
<1> QED BY <1>1, LayoutInvariant, PTL

\* An input at rest has always been taken as it is (inputs.c:34), unless the queue had no
\* room for the level: the last level posted is the level now, whether it still waits or
\* has been handled, because a change after the read starts a new cycle.
THEOREM InputIsTaken == Spec => []InputAgrees
<1>1. ASSUME LayoutInv PROVE InputAgrees
  BY <1>1 DEF LayoutInv, InputInv, InputAgrees, LevelPosted, Queued
<1> QED BY <1>1, LayoutInvariant, PTL

\* Between two Identifies every event in use has been answered for since the later request
\* (events.c:121), for any registry, any size of a batch and any requests in between: a
\* batch answers for every entry it passes, and a new request starts over.
THEOREM IdentifyAnswersAll == Spec => []AllAnswered
<1>1. ASSUME LayoutInv PROVE AllAnswered
  <2> SUFFICES ASSUME node.up, ~node.identifying, ~stirred, NEW i \in DOMAIN Registry,
                      Entries(config, node)[i].id # NoEvent
               PROVE  <<IF Entries(config, node)[i].producer THEN "producer" ELSE "consumer",
                        Entries(config, node)[i].id>> \in answered
    BY DEF AllAnswered
  <2>1. config \in Config /\ node.pos = Len(Registry) /\ i \in 1..Len(Registry)
    BY <1>1, RegistryTyped DEF LayoutInv, LayoutTyped, AnswerInv, Complete
  <2>2. Entries(config, node)[i].id = IdOf(config, Registry[i])
        /\ Entries(config, node)[i].producer = (Registry[i].kind = "feedback")
    BY <2>1, EntriesTyped
  <2>3. <<Side(Registry[i]), IdOf(config, Registry[i])>> \in answered
    BY <1>1, <2>1, <2>2 DEF LayoutInv, AnswerInv
  <2> QED BY <2>2, <2>3 DEF Side
<1> QED BY <1>1, LayoutInvariant, PTL

-----------------------------------------------------------------------------
(* What the host knows of the heads *)

\* An event is about a head if it stands for one of its aspects
About(cfg, h, id) == \E a \in Aspects : EventOf(cfg, h, a) = id

\* b is the aspect head h comes to show, by the events that wait: that of the last which
\* is about it, or else d
Due(cfg, queue, h, d, b) ==
  \/ b = d /\ \A i \in DOMAIN queue : ~About(cfg, h, queue[i])
  \/ /\ b \in Aspects
     /\ \E i \in DOMAIN queue : /\ EventOf(cfg, h, b) = queue[i]
                                /\ \A j \in DOMAIN queue : j > i => ~About(cfg, h, queue[j])

\* The Identify in progress has yet to answer for that aspect
Unasked(m, h, b) == \E i \in m.pos + 1..Len(Registry) : Registry[i] = HeadEntry(h, b)

\* What the host may hold of head h, when it shows d before the events that wait: what it
\* comes to show, nothing, or what the Identify in progress will put right; unless an event
\* about it was lost
Informed(cfg, heads, m, h, d) ==
  \/ \E id \in m.lost : About(cfg, h, id)
  \/ Hears(cfg, heads, m.bus)[h] = "unknown"
  \/ Due(cfg, m.local, h, d, Hears(cfg, heads, m.bus)[h])
  \/ Unasked(m, h, Hears(cfg, heads, m.bus)[h])

\* The host holds only what some event told it
Named(cfg, heads) ==
  /\ heads \in [Heads -> Aspects \cup {"unknown"}]
  /\ \A h \in Heads : heads[h] # "unknown" => EventOf(cfg, h, heads[h]) # NoEvent

\* Every message names an event
Sound(m) == \A i \in DOMAIN m.bus : m.bus[i][2] # NoEvent

LEMMA AspectsListed == \A a \in Aspects : \E j \in 1..11 : Aspect[j] = a
<1>1. Aspects = {"dark", "red", "yellow", "green", "lunar", "s", "d", "number",
                 "flashing_red", "flashing_yellow", "flashing_green"}
  BY DEF Aspects, Lamp
<1>2. /\ Aspect[1] = "dark" /\ Aspect[2] = "red" /\ Aspect[3] = "yellow" /\ Aspect[4] = "green"
      /\ Aspect[5] = "lunar" /\ Aspect[6] = "s" /\ Aspect[7] = "d" /\ Aspect[8] = "number"
      /\ Aspect[9] = "flashing_red" /\ Aspect[10] = "flashing_yellow"
      /\ Aspect[11] = "flashing_green"
  BY DEF Aspect
<1>3. 1 \in 1..11 /\ 2 \in 1..11 /\ 3 \in 1..11 /\ 4 \in 1..11 /\ 5 \in 1..11 /\ 6 \in 1..11
      /\ 7 \in 1..11 /\ 8 \in 1..11 /\ 9 \in 1..11 /\ 10 \in 1..11 /\ 11 \in 1..11
  OBVIOUS
<1> QED BY <1>1, <1>2, <1>3

\* The heads are the last in the registry, with every aspect
LEMMA HeadsRegistered ==
  /\ Len(Registry) \in Nat /\ 4 * S \in Nat /\ 1 \in 1..Len(Registry)
  /\ Registry[1] = CommandEntry(1, FALSE)
  /\ \A i \in 1..Len(Registry) : i <= 4 * S => Registry[i].kind # "head"
  /\ \A i \in 1..Len(Registry) : i > 4 * S =>
       /\ Registry[i].kind = "head" /\ Registry[i].head \in Heads /\ Registry[i].aspect \in Aspects
       /\ Registry[i] = HeadEntry(Registry[i].head, Registry[i].aspect)
  /\ \A h \in Heads, a \in Aspects :
       \E i \in 1..Len(Registry) : i > 4 * S /\ Registry[i] = HeadEntry(h, a)
<1>1. S \in Nat /\ S # 0 /\ H \in Nat
  BY LayoutAssumption, HeadAssumption
<1> DEFINE L == 4 * S + H * Len(Aspect)
           switched(i) ==
             LET k == (i - 1) % 4
                 switch == (i - 1) \div 4 + 1
             IN  IF k < 2 THEN CommandEntry(switch, k = 1) ELSE FeedbackEntry(switch, k = 3)
           shown(i) ==
             LET k == i - 4 * S - 1
             IN  HeadEntry(k \div Len(Aspect) + 1, Aspect[(k % Len(Aspect)) + 1])
           entry(i) == IF i <= 4 * S THEN switched(i) ELSE shown(i)
<1>2. L = 4 * S + H * 11 /\ L \in Nat /\ 4 * S \in Nat /\ 1 \in 1..L /\ 1 <= 4 * S
  BY <1>1, AspectsTyped
<1>3. Registry = [i \in 1..L |-> entry(i)]
  BY DEF Registry
<1>4. switched(1) = CommandEntry(1, FALSE)
  <2>1. (1 - 1) % 4 = 0 /\ (1 - 1) \div 4 + 1 = 1 /\ (0 = 1) = FALSE /\ 0 < 2
    OBVIOUS
  <2> QED BY <2>1, Zenon
<1>5. ASSUME NEW i \in 1..L, i <= 4 * S
      PROVE  entry(i) = switched(i) /\ switched(i).kind # "head"
  BY <1>5 DEF CommandEntry, FeedbackEntry
<1>6. ASSUME NEW i \in 1..L, i > 4 * S
      PROVE  /\ entry(i).kind = "head" /\ entry(i).head \in Heads /\ entry(i).aspect \in Aspects
             /\ entry(i) = HeadEntry(entry(i).head, entry(i).aspect)
  <2> DEFINE k == i - 4 * S - 1
  <2>1. k \in Nat /\ k < H * 11
    BY <1>1, <1>2, <1>6
  <2>2. k \div 11 + 1 \in 1..H /\ (k % 11) + 1 \in 1..11
    BY <1>1, <2>1
  <2>3. entry(i) = HeadEntry(k \div 11 + 1, Aspect[(k % 11) + 1])
    BY <1>2, <1>6, AspectsTyped
  <2> HIDE DEF k, entry
  <2> QED BY <2>2, <2>3, AspectsTyped DEF HeadEntry, Heads
<1>7. ASSUME NEW h \in Heads, NEW a \in Aspects
      PROVE  \E i \in 1..L : i > 4 * S /\ entry(i) = HeadEntry(h, a)
  <2>1. PICK j \in 1..11 : Aspect[j] = a
    BY AspectsListed
  <2> DEFINE k == (h - 1) * 11 + (j - 1)
             i == 4 * S + 1 + k
  <2>2. h \in Nat /\ 1 <= h /\ h <= H
    BY <1>1 DEF Heads
  <2>3. k \in Nat /\ k \div 11 = h - 1 /\ k % 11 = j - 1 /\ k < H * 11
    BY <1>1, <2>2
  <2> HIDE DEF k
  <2>4. i \in 1..L /\ i > 4 * S /\ i - 4 * S - 1 = k
    <3>1. i = 4 * S + 1 + k
      OBVIOUS
    <3> HIDE DEF i, L, entry
    <3> QED BY <1>1, <1>2, <2>3, <3>1
  <2>5. entry(i) = HeadEntry(k \div 11 + 1, Aspect[(k % 11) + 1])
    BY <1>2, <2>4, AspectsTyped
  <2>6. k \div 11 + 1 = h /\ (k % 11) + 1 = j
    BY <2>2, <2>3
  <2> HIDE DEF i, entry
  <2> QED BY <2>1, <2>4, <2>5, <2>6
<1>8. entry(1) = switched(1)
  BY <1>2, <1>5
<1> HIDE DEF L, entry, switched
<1>9. Len(Registry) = L /\ \A i \in 1..L : Registry[i] = entry(i)
  BY <1>2, <1>3
<1>10. Registry[1] = CommandEntry(1, FALSE)
  BY <1>2, <1>4, <1>8, <1>9
<1> QED BY <1>2, <1>5, <1>6, <1>7, <1>9, <1>10

-----------------------------------------------------------------------------
(* The events that wait *)

LEMMA DueAbout ==
  ASSUME NEW cfg, NEW queue \in Seq(Events), NEW id \in Events, NEW h, NEW d, NEW b \in Aspects,
         EventOf(cfg, h, b) = id
  PROVE  Due(cfg, Append(queue, id), h, d, b)
<1> DEFINE more == Append(queue, id)
           n == Len(queue) + 1
<1>1. n \in DOMAIN more /\ more[n] = id /\ \A j \in DOMAIN more : ~(j > n)
  OBVIOUS
<1> HIDE DEF more, n
<1> QED BY <1>1 DEF Due, more

LEMMA DueAside ==
  ASSUME NEW cfg, NEW queue \in Seq(Events), NEW id \in Events, NEW h, NEW d, NEW b,
         ~About(cfg, h, id), Due(cfg, queue, h, d, b)
  PROVE  Due(cfg, Append(queue, id), h, d, b)
<1> DEFINE more == Append(queue, id)
<1>1. /\ DOMAIN queue \subseteq DOMAIN more /\ \A i \in DOMAIN queue : more[i] = queue[i]
      /\ \A i \in DOMAIN more : i \in DOMAIN queue \/ more[i] = id
  OBVIOUS
<1> HIDE DEF more
<1>2. Due(cfg, more, h, d, b)
  BY <1>1 DEF Due
<1> QED BY <1>2 DEF more

\* The first event that waits takes effect
LEMMA DueFirst ==
  ASSUME NEW cfg, OneAspect(cfg), NEW queue \in Seq(Events), queue # <<>>, NEW h \in Heads, NEW d,
         NEW b, NEW e \in Aspects, Due(cfg, queue, h, d, b),
         IF About(cfg, h, Head(queue)) THEN EventOf(cfg, h, e) = Head(queue) ELSE e = d
  PROVE  Due(cfg, Tail(queue), h, e, b)
<1> DEFINE rest == Tail(queue)
<1>1. /\ Head(queue) = queue[1] /\ queue[1] \in Events /\ 1 \in DOMAIN queue
      /\ \A i \in DOMAIN rest : i + 1 \in DOMAIN queue /\ rest[i] = queue[i + 1] /\ i \in Nat
      /\ \A i \in DOMAIN queue : i \in Nat /\ (i = 1 \/ i - 1 \in DOMAIN rest)
      /\ \A i \in DOMAIN queue : i > 1 => rest[i - 1] = queue[i]
  OBVIOUS
<1>2. queue[1] # NoEvent
  BY <1>1, LayoutAssumption
<1> HIDE DEF rest
<1>3. CASE b = d /\ \A i \in DOMAIN queue : ~About(cfg, h, queue[i])
  <2>1. e = d /\ \A i \in DOMAIN rest : ~About(cfg, h, rest[i])
    BY <1>1, <1>3
  <2> QED BY <1>3, <2>1 DEF Due, rest
<1>4. ASSUME b \in Aspects, NEW i \in DOMAIN queue, EventOf(cfg, h, b) = queue[i],
             \A j \in DOMAIN queue : j > i => ~About(cfg, h, queue[j])
      PROVE  Due(cfg, rest, h, e, b)
  <2>1. CASE i = 1
    <3>1. EventOf(cfg, h, b) = queue[1] /\ About(cfg, h, queue[1])
      BY <1>4, <2>1 DEF About
    <3>2. EventOf(cfg, h, e) = queue[1]
      BY <1>1, <3>1
    <3>3. b = e
      BY <1>2, <1>4, <3>1, <3>2 DEF OneAspect
    <3>4. \A j \in DOMAIN rest : ~About(cfg, h, rest[j])
      <4> TAKE j \in DOMAIN rest
      <4>1. j + 1 \in DOMAIN queue /\ rest[j] = queue[j + 1] /\ j \in Nat /\ j >= 1
        BY <1>1 DEF rest
      <4>2. j + 1 > i
        BY <2>1, <4>1
      <4> QED BY <1>4, <4>1, <4>2
    <3> QED BY <3>3, <3>4 DEF Due
  <2>2. CASE i # 1
    <3>1. i - 1 \in DOMAIN rest /\ i > 1 /\ rest[i - 1] = queue[i]
      BY <1>1, <2>2
    <3>2. \A j \in DOMAIN rest : j > i - 1 => ~About(cfg, h, rest[j])
      <4> SUFFICES ASSUME NEW j \in DOMAIN rest, j > i - 1 PROVE ~About(cfg, h, rest[j])
        OBVIOUS
      <4>1. j + 1 \in DOMAIN queue /\ rest[j] = queue[j + 1] /\ j \in Nat /\ i \in Nat
        BY <1>1
      <4>2. j + 1 > i
        BY <4>1
      <4> QED BY <1>4, <4>1, <4>2
    <3> QED BY <1>4, <3>1, <3>2 DEF Due
  <2> QED BY <2>1, <2>2
<1> QED BY <1>3, <1>4 DEF Due, rest

-----------------------------------------------------------------------------
(* What the host makes of the messages *)

\* What it knows after each of them
Hearing(cfg, heads, said, n, g) ==
  g = [i \in 0..n |-> IF i = 0 THEN heads ELSE Believe(cfg, g[i - 1], said[i])]

LEMMA HearingExists ==
  ASSUME NEW cfg, NEW heads, NEW said, NEW n \in Nat
  PROVE  \E g : Hearing(cfg, heads, said, n, g)
<1> DEFINE without == {k \in Nat : ~\E g : Hearing(cfg, heads, said, k, g)}
<1> SUFFICES ASSUME without # {} PROVE FALSE
  OBVIOUS
<1>1. PICK k \in without : \A j \in without : ~(j < k)
  <2> HIDE DEF without
  <2>1. without \subseteq Nat
    BY DEF without
  <2> QED BY <2>1, LeastOfNats
<1>2. k # 0
  <2>1. Hearing(cfg, heads, said, 0, [i \in 0..0 |-> heads])
    BY DEF Hearing
  <2> QED BY <2>1
<1>3. k - 1 \in Nat /\ k - 1 < k
  BY <1>2
<1>4. PICK g : Hearing(cfg, heads, said, k - 1, g)
  BY <1>1, <1>3
<1> DEFINE next(x, i) == Believe(cfg, x, said[i])
           h == [i \in 0..k |-> IF i = k THEN next(g[k - 1], k) ELSE g[i]]
<1> HIDE DEF next
<1>5. \A i \in 0..k - 1 : h[i] = g[i]
  BY <1>3
<1>6. h[k] = next(h[k - 1], k)
  BY <1>3, <1>5
<1>7. \A i \in 0..k - 1 : g[i] = IF i = 0 THEN heads ELSE next(g[i - 1], i)
  BY <1>4 DEF Hearing, next
<1>8. h = [i \in 0..k |-> IF i = 0 THEN heads ELSE next(h[i - 1], i)]
  <2>1. h = [i \in 0..k |-> h[i]]
    OBVIOUS
  <2>2. \A i \in 0..k : h[i] = IF i = 0 THEN heads ELSE next(h[i - 1], i)
    <3> SUFFICES ASSUME NEW i \in 0..k PROVE h[i] = IF i = 0 THEN heads ELSE next(h[i - 1], i)
      OBVIOUS
    <3> HIDE DEF h
    <3>1. CASE i = k
      BY <1>2, <1>6, <3>1
    <3>2. CASE i # k
      <4>1. i \in 0..k-1 /\ (i # 0 => i - 1 \in 0..k - 1)
        BY <1>3, <3>2
      <4> QED BY <1>5, <1>7, <4>1
    <3> QED BY <3>1, <3>2
  <2> HIDE DEF h
  <2> QED BY <2>1, <2>2
<1>9. Hearing(cfg, heads, said, k, h)
  <2> HIDE DEF h
  <2> QED BY <1>8 DEF Hearing, next
<1> QED BY <1>1, <1>9

\* The same, to the end
Heard(cfg, heads, said, g) ==
  /\ Hears(cfg, heads, said) = g[Len(said)] /\ g[0] = heads
  /\ \A i \in 1..Len(said) : g[i] = Believe(cfg, g[i - 1], said[i])

LEMMA HearsIs ==
  ASSUME NEW cfg, NEW heads, NEW said \in Seq(Message)
  PROVE  \E g : Heard(cfg, heads, said, g)
<1> DEFINE g == CHOOSE f : Hearing(cfg, heads, said, Len(said), f)
<1>1. Hearing(cfg, heads, said, Len(said), g)
  <2>1. Len(said) \in Nat
    OBVIOUS
  <2>2. \E f : Hearing(cfg, heads, said, Len(said), f)
    BY <2>1, HearingExists
  <2> QED BY <2>2
<1>2. Hears(cfg, heads, said) = g[Len(said)]
  BY DEF Hears, Hearing
<1> HIDE DEF g
<1>3. g[0] = heads /\ \A i \in 1..Len(said) : g[i] = Believe(cfg, g[i - 1], said[i])
  <2>1. Len(said) \in Nat
    OBVIOUS
  <2>2. \A i \in 0..Len(said) : g[i] = IF i = 0 THEN heads ELSE Believe(cfg, g[i - 1], said[i])
    BY <1>1 DEF Hearing
  <2> HIDE <1>1
  <2>3. 0 \in 0..Len(said) /\ \A i \in 1..Len(said) : i \in 0..Len(said) /\ i # 0
    BY <2>1
  <2> QED BY <2>2, <2>3
<1> QED BY <1>2, <1>3 DEF Heard

\* What is said later does not change what was heard before
Overheard(cfg, heads, said, more, g) ==
  /\ Hears(cfg, heads, said) = g[Len(said)] /\ Hears(cfg, heads, more) = g[Len(more)]
  /\ \A i \in 1..Len(more) : g[i] = Believe(cfg, g[i - 1], more[i])

LEMMA HearsMore ==
  ASSUME NEW cfg, NEW heads, NEW said \in Seq(Message), NEW more \in Seq(Message),
         Extends(said, more)
  PROVE  \E g : Overheard(cfg, heads, said, more, g)
<1>1. PICK f : Heard(cfg, heads, said, f)
  BY HearsIs
<1>2. PICK g : Heard(cfg, heads, more, g)
  BY HearsIs
<1>3. Len(said) \in Nat /\ Len(more) \in Nat /\ Len(said) <= Len(more)
      /\ \A i \in 1..Len(said) : more[i] = said[i]
  BY DEF Extends
<1> DEFINE other == {i \in 0..Len(said) : f[i] # g[i]}
<1>4. ASSUME other # {} PROVE FALSE
  <2>1. PICK k \in other : \A j \in other : ~(j < k)
    <3>1. other \subseteq Nat
      BY <1>3
    <3> HIDE DEF other
    <3> QED BY <1>4, <3>1, LeastOfNats
  <2>2. k \in 1..Len(said) /\ k \in 1..Len(more) /\ k - 1 \in 0..Len(said) /\ k - 1 < k
    BY <1>1, <1>2, <1>3, <2>1 DEF Heard
  <2>3. f[k - 1] = g[k - 1]
    BY <2>1, <2>2
  <2>4. f[k] = g[k]
    BY <1>1, <1>2, <1>3, <2>2, <2>3 DEF Heard
  <2> QED BY <2>1, <2>4
<1>5. f[Len(said)] = g[Len(said)]
  BY <1>3, <1>4
<1> QED BY <1>1, <1>2, <1>5 DEF Heard, Overheard

LEMMA HearsAppend ==
  ASSUME NEW cfg, NEW heads, NEW said \in Seq(Message), NEW msg \in Message
  PROVE  Hears(cfg, heads, Append(said, msg)) = Believe(cfg, Hears(cfg, heads, said), msg)
<1> DEFINE more == Append(said, msg)
<1>1. more \in Seq(Message) /\ Extends(said, more)
      /\ Len(more) = Len(said) + 1 /\ Len(said) \in Nat /\ more[Len(more)] = msg
  BY DEF Extends
<1> HIDE DEF more
<1>2. PICK g : Overheard(cfg, heads, said, more, g)
  BY <1>1, HearsMore
<1>3. Len(more) \in 1..Len(more) /\ Len(more) - 1 = Len(said)
  BY <1>1
<1> QED BY <1>1, <1>2, <1>3 DEF more, Overheard

\* A report tells which aspect a head shows
LEMMA BelieveReport ==
  ASSUME NEW cfg, NEW heads, NEW h \in Heads, NEW id
  PROVE  LET b == Believe(cfg, heads, <<Report, id>>)[h]
         IN  IF About(cfg, h, id) THEN b \in Aspects /\ EventOf(cfg, h, b) = id ELSE b = heads[h]
<1> DEFINE is == {a \in Aspects : EventOf(cfg, h, a) = id}
           b == Believe(cfg, heads, <<Report, id>>)[h]
<1>1. b = IF is = {} THEN heads[h] ELSE CHOOSE a \in is : TRUE
  BY DEF Believe
<1>2. is # {} <=> About(cfg, h, id)
  BY DEF About
<1>3. is # {} => (CHOOSE a \in is : TRUE) \in is
  OBVIOUS
<1> QED BY <1>1, <1>2, <1>3

-----------------------------------------------------------------------------
(* What a part of a turn does to what the host knows *)

Follows(cfg, heads, m, k) ==
  /\ k.enabled = m.enabled
  /\ Sound(m) => Sound(k)
  /\ m.bus # <<>> => k.bus # <<>>
  /\ k.local = m.local \/ k.bus # <<>>
  /\ \A h \in Heads, d \in Aspects : Informed(cfg, heads, m, h, d) => Informed(cfg, heads, k, h, d)

LEMMA FollowsAside ==
  ASSUME NEW cfg, NEW heads, NEW m, NEW k, k.enabled = m.enabled, k.bus = m.bus,
         k.local = m.local, k.lost = m.lost, k.pos = m.pos
  PROVE  Follows(cfg, heads, m, k)
BY DEF Follows, Sound, Informed, Unasked

LEMMA FollowsTransitive ==
  ASSUME NEW cfg, NEW heads, NEW m, NEW k, NEW l,
         Follows(cfg, heads, m, k), Follows(cfg, heads, k, l)
  PROVE  Follows(cfg, heads, m, l)
BY DEF Follows

\* The node's own consumers get what it told the host, but for what is lost
LEMMA EventSendFollows ==
  ASSUME NEW cfg, NEW heads, NEW m \in NodeType, NEW id \in Ids
  PROVE  LET k == EventSend(m, id)
         IN  Follows(cfg, heads, m, k) /\ k.aspect = m.aspect
<1> DEFINE k == EventSend(m, id)
<1>1. CASE ~m.up \/ id = NoEvent
  <2>1. k = m
    BY <1>1 DEF EventSend
  <2> QED BY <2>1, FollowsAside
<1>2. CASE ~(~m.up \/ id = NoEvent)
  <2> DEFINE said == Append(m.bus, <<Report, id>>)
  <2>1. id \in Events /\ <<Report, id>> \in Message /\ m.bus \in Seq(Message)
        /\ m.local \in Seq(Events)
    BY <1>2 DEF Ids, Message, NodeType
  <2>2. k.bus = said /\ k.aspect = m.aspect /\ k.enabled = m.enabled /\ k.pos = m.pos
    BY <1>2 DEF EventSend, SendGlobal, NodeType
  <2>3. \/ k.local = Append(m.local, id) /\ k.lost = m.lost
        \/ k.local = m.local /\ k.lost = m.lost \cup {id}
    <3>1. CASE Len(m.local) < LocalQueueLen
      BY <1>2, <3>1 DEF EventSend, SendGlobal, NodeType
    <3>2. CASE ~(Len(m.local) < LocalQueueLen)
      BY <1>2, <3>2 DEF EventSend, SendGlobal, NodeType
    <3> QED BY <3>1, <3>2
  <2>4. said # <<>> /\ (Sound(m) => Sound(k))
    <3>1. Len(said) = Len(m.bus) + 1 /\ Len(m.bus) \in Nat
      BY <2>1
    <3>2. \A i \in DOMAIN said :
            said[i] = <<Report, id>> \/ (i \in DOMAIN m.bus /\ said[i] = m.bus[i])
      BY <2>1
    <3> HIDE DEF said, k
    <3> QED BY <1>2, <2>2, <3>1, <3>2 DEF Sound
  <2>5. Hears(cfg, heads, said) = Believe(cfg, Hears(cfg, heads, m.bus), <<Report, id>>)
    BY <2>1, HearsAppend
  <2> HIDE DEF k, said
  <2>6. ASSUME NEW h \in Heads, NEW d \in Aspects, Informed(cfg, heads, m, h, d)
        PROVE  Informed(cfg, heads, k, h, d)
    <3> DEFINE b == Hears(cfg, heads, m.bus)[h]
               c == Hears(cfg, heads, k.bus)[h]
    <3>1. IF About(cfg, h, id) THEN c \in Aspects /\ EventOf(cfg, h, c) = id ELSE c = b
      BY <2>2, <2>5, BelieveReport
    <3>2. m.lost \subseteq k.lost
      BY <2>3
    <3> HIDE DEF b, c
    <3>3. CASE About(cfg, h, id)
      <4>1. CASE k.local = Append(m.local, id)
        <5>1. Due(cfg, k.local, h, d, c)
          BY <2>1, <3>1, <3>3, <4>1, DueAbout
        <5> QED BY <5>1 DEF Informed, c
      <4>2. CASE id \in k.lost
        BY <3>3, <4>2 DEF Informed
      <4> QED BY <2>3, <4>1, <4>2
    <3>4. CASE ~About(cfg, h, id)
      <4>1. c = b
        BY <3>1, <3>4
      <4>2. CASE \E x \in m.lost : About(cfg, h, x)
        BY <3>2, <4>2 DEF Informed
      <4>3. CASE b = "unknown"
        BY <4>1, <4>3 DEF Informed, c
      <4>4. CASE Due(cfg, m.local, h, d, b)
        <5>1. Due(cfg, k.local, h, d, b)
          BY <2>1, <2>3, <3>4, <4>4, DueAside
        <5> QED BY <4>1, <5>1 DEF Informed, c
      <4>5. CASE Unasked(m, h, b)
        <5>1. Unasked(k, h, c)
          BY <2>2, <4>1, <4>5 DEF Unasked
        <5> QED BY <5>1 DEF Informed, c
      <4> QED BY <2>6, <4>2, <4>3, <4>4, <4>5 DEF Informed, b
    <3> QED BY <3>3, <3>4
  <2>7. k.bus # <<>>
    BY <2>2, <2>4
  <2> QED BY <2>2, <2>4, <2>6, <2>7 DEF Follows, k
<1> QED BY <1>1, <1>2

LEMMA MoveFollows ==
  ASSUME NEW cfg, NEW heads, NEW m \in NodeType, NEW i \in 1..S, NEW c \in BOOLEAN
  PROVE  Follows(cfg, heads, m, Move(m, i, c)) /\ Move(m, i, c).aspect = m.aspect
<1> DEFINE l == [m EXCEPT !.closed[i] = c]
           k == Move(m, i, c)
<1>1. l \in NodeType /\ l.local = m.local /\ l.bus = m.bus /\ l.enabled = m.enabled
      /\ l.lost = m.lost /\ l.pos = m.pos /\ l.aspect = m.aspect
  BY DEF NodeType
<1>2. Feedback[i][c] \in Ids
  BY LayoutAssumption DEF Ids
<1>3. k = EventSend(l, Feedback[i][c])
  BY DEF Move
<1> HIDE DEF l, k
<1>4. Follows(cfg, heads, m, l)
  BY <1>1, FollowsAside
<1>5. Follows(cfg, heads, l, k) /\ k.aspect = l.aspect
  BY <1>1, <1>2, <1>3, EventSendFollows
<1>6. Follows(cfg, heads, m, k)
  BY <1>4, <1>5, FollowsTransitive
<1> QED BY <1>1, <1>5, <1>6 DEF k

LEMMA OnAspectFollows ==
  ASSUME NEW cfg, NEW heads, NEW m \in NodeType, NEW h \in Heads, NEW a \in Aspects
  PROVE  LET k == OnAspect(m, cfg, h, a)
         IN  Follows(cfg, heads, m, k) /\ k.aspect = [m.aspect EXCEPT ![h] = a]
<1> DEFINE k == OnAspect(m, cfg, h, a)
<1>1. /\ k.enabled = m.enabled /\ k.bus = m.bus /\ k.local = m.local /\ k.lost = m.lost
      /\ k.pos = m.pos /\ k.aspect = [m.aspect EXCEPT ![h] = a]
  BY DEF OnAspect, ShowHead, UpdateFlashTimer, NodeType
<1> HIDE DEF k
<1>2. Follows(cfg, heads, m, k)
  BY <1>1, FollowsAside
<1> QED BY <1>1, <1>2 DEF k

LEMMA OnEventFollows ==
  ASSUME NEW cfg, NEW heads, NEW m \in NodeType, NEW r \in EntryType, r.kind # "feedback"
  PROVE  LET k == OnEvent(cfg, m, r)
         IN  /\ Follows(cfg, heads, m, k)
             /\ k.aspect = IF r.kind = "head" THEN [m.aspect EXCEPT ![r.head] = r.aspect]
                           ELSE m.aspect
<1>1. CASE r.kind = "command"
  <2>1. r.switch \in 1..S /\ r.closed \in BOOLEAN /\ r.kind # "head"
    BY <1>1 DEF EntryType
  <2> QED BY <1>1, <2>1, MoveFollows DEF OnEvent
<1>2. CASE r.kind # "command"
  <2>1. r.head \in Heads /\ r.aspect \in Aspects /\ r.kind = "head"
    BY <1>2 DEF EntryType
  <2> QED BY <1>2, <2>1, OnAspectFollows DEF OnEvent
<1> QED BY <1>1, <1>2

\* An event that is consumed sets the heads it is about
LEMMA ConsumeFollows ==
  ASSUME NEW cfg \in Config, NEW heads, NEW m \in NodeType, NEW id
  PROVE  LET k == Consume(cfg, m, id)
         IN  /\ Follows(cfg, heads, m, k)
             /\ \A h \in Heads : IF About(cfg, h, id) THEN EventOf(cfg, h, k.aspect[h]) = id
                                 ELSE k.aspect[h] = m.aspect[h]
<1> DEFINE L == Len(Registry)
           names(j, h) == Registry[j].kind = "head" /\ Registry[j].head = h
                          /\ IdOf(cfg, Registry[j]) = id
<1>1. L \in Nat /\ \A i \in 1..L : Registry[i] \in EntryType
  BY RegistryTyped
<1>2. PICK g : Steps(cfg, m, id, g, L) /\ Consume(cfg, m, id) = g[L]
  BY <1>1, ConsumeSteps
<1> HIDE DEF L
<1> DEFINE set(i) == \A h \in Heads :
             IF \E j \in 1..i : names(j, h) THEN EventOf(cfg, h, g[i].aspect[h]) = id
             ELSE g[i].aspect[h] = m.aspect[h]
           good(i) == g[i] \in NodeType /\ Follows(cfg, heads, m, g[i]) /\ set(i)
           bad == {i \in 0..L : ~good(i)}
<1> HIDE DEF names
<1>3. ASSUME bad # {} PROVE FALSE
  <2>1. PICK k \in bad : \A j \in bad : ~(j < k)
    <3> HIDE DEF good
    <3>1. bad \subseteq Nat
      OBVIOUS
    <3> HIDE DEF bad
    <3> QED BY <1>3, <3>1, LeastOfNats
  <2>2. k \in 0..L /\ ~good(k)
    BY <2>1
  <2>3. k # 0
    <3>1. g[0] = m
      BY <1>1, <1>2 DEF Steps
    <3>2. Follows(cfg, heads, m, m)
      BY FollowsAside
    <3>3. good(0)
      BY <3>1, <3>2
    <3> QED BY <2>2, <3>3
  <2>4. k - 1 \in 0..L /\ k - 1 < k /\ k \in 1..L /\ 1..k = (1..k - 1) \cup {k}
    BY <1>1, <2>2, <2>3
  <2>5. good(k - 1)
    BY <2>1, <2>4
  <2>6. g[k] = IF Registry[k].kind # "feedback" /\ IdOf(cfg, Registry[k]) = id
               THEN OnEvent(cfg, g[k - 1], Registry[k]) ELSE g[k - 1]
    BY <1>2, <2>2, <2>3 DEF Steps
  <2> DEFINE x == g[k - 1]
             y == g[k]
             r == Registry[k]
  <2>7. x \in NodeType /\ Follows(cfg, heads, m, x) /\ set(k - 1)
    BY <2>5
  <2>8. CASE r.kind # "feedback" /\ IdOf(cfg, r) = id
    <3>1. y = OnEvent(cfg, x, r) /\ r \in EntryType
      BY <1>1, <2>4, <2>6, <2>8
    <3> HIDE DEF x, y, r
    <3>2. Moved(cfg, x, y)
      BY <2>7, <2>8, <3>1, OnEventMoves
    <3>3. /\ Follows(cfg, heads, x, y)
          /\ y.aspect = IF r.kind = "head" THEN [x.aspect EXCEPT ![r.head] = r.aspect] ELSE x.aspect
      BY <2>7, <2>8, <3>1, OnEventFollows
    <3>4. y \in NodeType /\ Follows(cfg, heads, m, y)
      BY <2>7, <3>2, <3>3, FollowsTransitive DEF Moved
    <3>5. ASSUME NEW h \in Heads
          PROVE  IF \E j \in 1..k : names(j, h) THEN EventOf(cfg, h, y.aspect[h]) = id
                 ELSE y.aspect[h] = m.aspect[h]
      <4>1. IF \E j \in 1..k - 1 : names(j, h) THEN EventOf(cfg, h, x.aspect[h]) = id
            ELSE x.aspect[h] = m.aspect[h]
        BY <2>7 DEF x
      <4>2. CASE r.kind = "head" /\ r.head = h
        <5>1. names(k, h)
          BY <2>8, <4>2 DEF names, r
        <5>2. y.aspect[h] = r.aspect
          BY <2>7, <3>3, <4>2 DEF NodeType
        <5>3. EventOf(cfg, h, r.aspect) = id
          BY <2>8, <4>2 DEF IdOf
        <5> QED BY <2>4, <5>1, <5>2, <5>3
      <4>3. CASE ~(r.kind = "head" /\ r.head = h)
        <5>1. ~names(k, h)
          BY <4>3 DEF names, r
        <5>2. y.aspect[h] = x.aspect[h]
          BY <2>7, <3>3, <4>3 DEF NodeType
        <5> QED BY <2>4, <4>1, <5>1, <5>2
      <4> QED BY <4>2, <4>3
    <3>6. good(k)
      BY <3>4, <3>5 DEF y
    <3> QED BY <2>2, <3>6
  <2>9. CASE ~(r.kind # "feedback" /\ IdOf(cfg, r) = id)
    <3>1. y = x
      BY <2>6, <2>9
    <3> HIDE DEF x, y, r
    <3>2. \A h \in Heads : ~names(k, h)
      BY <2>9 DEF names, r
    <3>3. ASSUME NEW h \in Heads
          PROVE  IF \E j \in 1..k : names(j, h) THEN EventOf(cfg, h, y.aspect[h]) = id
                 ELSE y.aspect[h] = m.aspect[h]
      <4>1. IF \E j \in 1..k - 1 : names(j, h) THEN EventOf(cfg, h, x.aspect[h]) = id
            ELSE x.aspect[h] = m.aspect[h]
        BY <2>7 DEF x
      <4> QED BY <2>4, <3>1, <3>2, <4>1
    <3>4. good(k)
      BY <2>7, <3>1, <3>3 DEF y
    <3> QED BY <2>2, <3>4
  <2> QED BY <2>8, <2>9
<1>4. good(L)
  <2>1. L \in 0..L
    BY <1>1
  <2> HIDE DEF good
  <2> QED BY <1>3, <2>1
<1>5. ASSUME NEW h \in Heads PROVE About(cfg, h, id) <=> \E j \in 1..L : names(j, h)
  <2>1. ASSUME NEW a \in Aspects, EventOf(cfg, h, a) = id PROVE \E j \in 1..L : names(j, h)
    <3>1. PICK j \in 1..L : Registry[j] = HeadEntry(h, a)
      BY HeadsRegistered DEF L
    <3>2. names(j, h)
      BY <2>1, <3>1 DEF names, HeadEntry, IdOf
    <3> QED BY <3>2
  <2>2. ASSUME NEW j \in 1..L, names(j, h) PROVE About(cfg, h, id)
    <3>1. Registry[j].aspect \in Aspects /\ EventOf(cfg, h, Registry[j].aspect) = id
      BY <1>1, <2>2 DEF names, IdOf, EntryType
    <3> QED BY <3>1 DEF About
  <2> QED BY <2>1, <2>2 DEF About
<1> DEFINE k == Consume(cfg, m, id)
<1>6. Follows(cfg, heads, m, k)
  BY <1>2, <1>4
<1>7. ASSUME NEW h \in Heads
      PROVE  IF About(cfg, h, id) THEN EventOf(cfg, h, k.aspect[h]) = id
             ELSE k.aspect[h] = m.aspect[h]
  BY <1>2, <1>4, <1>5
<1> QED BY <1>6, <1>7

\* The node's own events reach its heads in the order in which the host heard them
LEMMA DrainFollows ==
  ASSUME NEW cfg \in Config, OneAspect(cfg), NEW heads, NEW m \in NodeType, Sound(m)
  PROVE  LET k == Drain(cfg, m)
         IN  /\ k.enabled = m.enabled /\ Sound(k) /\ (m.bus # <<>> => k.bus # <<>>)
             /\ k.local = <<>> \/ k.bus # <<>>
             /\ \A h \in Heads : Informed(cfg, heads, m, h, m.aspect[h])
                                   => Informed(cfg, heads, k, h, k.aspect[h])
<1> DEFINE L == Len(m.local)
<1>1. L \in Nat
  BY DEF NodeType
<1>2. PICK g : /\ Turns(cfg, m, g, L) /\ Drain(cfg, m) = g[L]
               /\ \A i \in 0..L : Moved(cfg, m, g[i]) /\ L - i <= Len(g[i].local)
  BY DrainTurns
<1> HIDE DEF L
<1> DEFINE good(i) ==
             /\ g[i].enabled = m.enabled /\ Sound(g[i]) /\ (m.bus # <<>> => g[i].bus # <<>>)
             /\ Len(g[i].local) = L - i \/ g[i].bus # <<>>
             /\ \A h \in Heads : Informed(cfg, heads, m, h, m.aspect[h])
                                   => Informed(cfg, heads, g[i], h, g[i].aspect[h])
           bad == {i \in 0..L : ~good(i)}
<1>3. ASSUME bad # {} PROVE FALSE
  <2>1. PICK k \in bad : \A j \in bad : ~(j < k)
    <3> HIDE DEF good
    <3>1. bad \subseteq Nat
      OBVIOUS
    <3> HIDE DEF bad
    <3> QED BY <1>3, <3>1, LeastOfNats
  <2>2. k \in 0..L /\ ~good(k)
    BY <2>1
  <2>3. k # 0
    <3>1. g[0] = m
      BY <1>1, <1>2 DEF Turns
    <3>2. Len(m.local) = L - 0
      BY <1>1 DEF L
    <3>3. good(0)
      BY <3>1, <3>2
    <3> QED BY <2>2, <3>3
  <2>4. k - 1 \in 0..L /\ k - 1 < k /\ k \in 1..L
    BY <1>1, <2>2, <2>3
  <2>5. good(k - 1)
    BY <2>1, <2>4
  <2> DEFINE x == g[k - 1]
             y == [x EXCEPT !.local = Tail(x.local)]
             z == g[k]
  <2>6. z = Consume(cfg, y, Head(x.local))
    BY <1>2, <2>2, <2>3 DEF Turns
  <2>7. x \in NodeType /\ z \in NodeType /\ L - (k - 1) <= Len(x.local)
    BY <1>2, <2>2, <2>4 DEF Moved
  <2>8. /\ x.enabled = m.enabled /\ Sound(x) /\ (m.bus # <<>> => x.bus # <<>>)
        /\ Len(x.local) = L - (k - 1) \/ x.bus # <<>>
        /\ \A h \in Heads : Informed(cfg, heads, m, h, m.aspect[h])
                              => Informed(cfg, heads, x, h, x.aspect[h])
    BY <2>5
  <2> HIDE DEF x, z
  <2>9. x.local \in Seq(Events) /\ x.local # <<>> /\ Len(x.local) \in Nat
    <3>1. x.local \in Seq(Events)
      BY <2>7 DEF NodeType
    <3> QED BY <1>1, <2>4, <2>7, <3>1
  <2>10. Tail(x.local) \in Seq(Events) /\ Len(Tail(x.local)) = Len(x.local) - 1
    BY <2>9
  <2>11. y \in NodeType /\ y.local = Tail(x.local) /\ y.enabled = x.enabled /\ y.bus = x.bus
         /\ y.lost = x.lost /\ y.pos = x.pos /\ y.aspect = x.aspect
    BY <2>7, <2>10 DEF NodeType
  <2> HIDE DEF y
  <2>12. /\ Follows(cfg, heads, y, z)
         /\ \A h \in Heads : IF About(cfg, h, Head(x.local))
                             THEN EventOf(cfg, h, z.aspect[h]) = Head(x.local)
                             ELSE z.aspect[h] = y.aspect[h]
    BY <2>6, <2>11, ConsumeFollows
  <2>13. z.enabled = m.enabled /\ Sound(z) /\ (m.bus # <<>> => z.bus # <<>>)
    BY <2>8, <2>11, <2>12 DEF Follows, Sound
  <2>14. Len(z.local) = L - k \/ z.bus # <<>>
    <3>1. (z.local = y.local \/ z.bus # <<>>) /\ (x.bus # <<>> => z.bus # <<>>)
      BY <2>11, <2>12 DEF Follows
    <3>2. Len(y.local) = Len(x.local) - 1 /\ k \in Nat
      BY <1>1, <2>2, <2>10, <2>11
    <3>3. Len(x.local) = L - (k - 1) => Len(y.local) = L - k
      BY <1>1, <2>9, <3>2
    <3> QED BY <2>8, <3>1, <3>3
  <2>15. ASSUME NEW h \in Heads, Informed(cfg, heads, m, h, m.aspect[h])
         PROVE  Informed(cfg, heads, z, h, z.aspect[h])
    <3>1. Informed(cfg, heads, x, h, x.aspect[h])
      BY <2>8, <2>15
    <3>2. z.aspect[h] \in Aspects
      BY <2>7 DEF NodeType
    <3>3. Due(cfg, x.local, h, x.aspect[h], Hears(cfg, heads, x.bus)[h])
            => Due(cfg, y.local, h, z.aspect[h], Hears(cfg, heads, x.bus)[h])
      BY <2>9, <2>11, <2>12, <3>2, DueFirst
    <3>4. Informed(cfg, heads, y, h, z.aspect[h])
      BY <2>11, <3>1, <3>3 DEF Informed, Unasked
    <3> QED BY <2>12, <3>2, <3>4 DEF Follows
  <2>16. good(k)
    BY <2>13, <2>14, <2>15 DEF z
  <2> QED BY <2>2, <2>16
<1>4. good(L)
  <2>1. L \in 0..L
    BY <1>1
  <2> HIDE DEF good
  <2> QED BY <1>3, <2>1
<1> DEFINE k == Drain(cfg, m)
<1>5. k \in NodeType /\ k = g[L]
  BY <1>2, DrainMoves DEF Moved
<1> HIDE DEF k
<1>6. k.local = <<>> \/ k.bus # <<>>
  <2>1. Len(k.local) = 0 => k.local = <<>>
    BY <1>5 DEF NodeType
  <2> QED BY <1>1, <1>4, <1>5, <2>1
<1> QED BY <1>4, <1>5, <1>6 DEF k

-----------------------------------------------------------------------------
(* What the host makes of an answer *)

\* It names only aspects that some event stands for
LEMMA BelieveNamed ==
  ASSUME NEW cfg, NEW heads, Named(cfg, heads), NEW msg, msg[2] # NoEvent
  PROVE  Named(cfg, Believe(cfg, heads, msg))
<1> DEFINE is(h) == {a \in Aspects : EventOf(cfg, h, a) = msg[2]}
           b(h) == IF is(h) = {} THEN heads[h]
                   ELSE IF msg[1] \in {Report, IdentifiedMti(FALSE, "valid")}
                   THEN CHOOSE a \in is(h) : TRUE
                   ELSE IF msg[1] = IdentifiedMti(FALSE, "invalid") /\ heads[h] \in is(h)
                   THEN "unknown" ELSE heads[h]
<1>1. Believe(cfg, heads, msg) = [h \in Heads |-> b(h)]
  BY DEF Believe
<1>2. ASSUME NEW h \in Heads
      PROVE  b(h) \in Aspects \cup {"unknown"}
             /\ (b(h) # "unknown" => EventOf(cfg, h, b(h)) # NoEvent)
  <2>1. is(h) # {} => (CHOOSE a \in is(h) : TRUE) \in is(h)
    OBVIOUS
  <2>2. heads[h] \in Aspects \cup {"unknown"}
        /\ (heads[h] # "unknown" => EventOf(cfg, h, heads[h]) # NoEvent)
    BY DEF Named
  <2> QED BY <2>1, <2>2
<1> HIDE DEF b
<1> QED BY <1>1, <1>2 DEF Named

LEMMA HearsNamed ==
  ASSUME NEW cfg, NEW heads, Named(cfg, heads), NEW m \in NodeType, Sound(m)
  PROVE  Named(cfg, Hears(cfg, heads, m.bus))
<1> DEFINE L == Len(m.bus)
<1>1. L \in Nat /\ m.bus \in Seq(Message)
  BY DEF NodeType
<1> PICK g : Heard(cfg, heads, m.bus, g)
  BY <1>1, HearsIs
<1>2. /\ Hears(cfg, heads, m.bus) = g[L] /\ g[0] = heads
      /\ \A i \in 1..L : g[i] = Believe(cfg, g[i - 1], m.bus[i])
  BY DEF Heard
<1>3. \A i \in 1..L : m.bus[i][2] # NoEvent
  BY <1>1 DEF Sound
<1> HIDE DEF L
<1> DEFINE bad == {i \in 0..L : ~Named(cfg, g[i])}
<1>4. ASSUME bad # {} PROVE FALSE
  <2>1. PICK k \in bad : \A j \in bad : ~(j < k)
    <3>1. bad \subseteq Nat
      OBVIOUS
    <3> HIDE DEF bad
    <3> QED BY <1>4, <3>1, LeastOfNats
  <2>2. k \in 1..L /\ k - 1 \in 0..L /\ k - 1 < k
    BY <1>1, <1>2, <2>1
  <2>3. Named(cfg, g[k - 1])
    BY <2>1, <2>2
  <2>4. Named(cfg, g[k])
    BY <1>2, <1>3, <2>2, <2>3, BelieveNamed
  <2> QED BY <2>1, <2>4
<1>5. L \in 0..L
  BY <1>1
<1> QED BY <1>2, <1>4, <1>5

\* What the host holds of head h, before and after the answer for entry r
Corrected(cfg, x, h, r, old, new) ==
  \/ new = old /\ (old \in Aspects => r # HeadEntry(h, old))
  \/ new = "unknown"
  \/ new = x.aspect[h]
  \/ r.kind \notin {"head", "feedback"} /\ new \in Aspects /\ EventOf(cfg, h, new) = IdOf(cfg, r)

\* The answer for an entry tells the truth of the head it is about.  That for a switch may
\* be taken for that of a head
LEMMA BelieveIdentified ==
  ASSUME NEW cfg \in Config, OneAspect(cfg), NEW heads, NEW x, NEW h \in Heads,
         NEW i \in 1..Len(Registry), IdOf(cfg, Registry[i]) # NoEvent
  PROVE  Corrected(cfg, x, h, Registry[i], heads[h],
                   Believe(cfg, heads, Identified(Entries(cfg, x)[i]))[h])
<1> DEFINE msg == Identified(Entries(cfg, x)[i])
           r == Registry[i]
           id == IdOf(cfg, r)
           is == {a \in Aspects : EventOf(cfg, h, a) = id}
           b == Believe(cfg, heads, msg)[h]
<1>1. msg = <<<<Side(r), StateOf(x, r)>>, id>>
  BY IdentifiedIs
<1>2. r \in EntryType
  BY RegistryTyped
<1>3. msg[1] = <<Side(r), StateOf(x, r)>> /\ msg[2] = id
  BY <1>1
<1>4. b = IF is = {} THEN heads[h]
          ELSE IF msg[1] \in {Report, IdentifiedMti(FALSE, "valid")} THEN CHOOSE a \in is : TRUE
          ELSE IF msg[1] = IdentifiedMti(FALSE, "invalid") /\ heads[h] \in is THEN "unknown"
          ELSE heads[h]
  BY <1>3 DEF Believe
<1> HIDE DEF msg, b
<1>5. is # {} => (CHOOSE a \in is : TRUE) \in is
  OBVIOUS
<1>6. heads[h] \in Aspects /\ r = HeadEntry(h, heads[h]) => heads[h] \in is /\ r.kind = "head"
  BY DEF HeadEntry, IdOf
<1>7. msg[1] # Report
  BY <1>3 DEF Report
<1>8. /\ msg[1] = IdentifiedMti(FALSE, "valid") <=> Side(r) = "consumer" /\ StateOf(x, r) = "valid"
      /\ msg[1] = IdentifiedMti(FALSE, "invalid")
           <=> Side(r) = "consumer" /\ StateOf(x, r) = "invalid"
  BY <1>3 DEF IdentifiedMti
<1>9. StateOf(x, r) \in {"valid", "invalid"}
  BY DEF StateOf
<1>10. Side(r) = "consumer" <=> r.kind # "feedback"
  BY DEF Side
<1>11. CASE r.kind = "feedback"
  <2>1. r # HeadEntry(h, heads[h])
    BY <1>11 DEF HeadEntry
  <2> QED BY <1>4, <1>7, <1>8, <1>10, <1>11, <2>1 DEF b, msg, Corrected
<1>12. CASE is = {}
  BY <1>4, <1>6, <1>12 DEF b, msg, Corrected
<1>13. CASE is # {} /\ r.kind # "feedback" /\ StateOf(x, r) = "invalid"
  BY <1>4, <1>6, <1>7, <1>8, <1>9, <1>10, <1>13 DEF b, msg, Corrected
<1>14. CASE is # {} /\ r.kind # "feedback" /\ StateOf(x, r) = "valid"
  <2>1. b \in Aspects /\ EventOf(cfg, h, b) = id
    BY <1>4, <1>5, <1>8, <1>10, <1>14
  <2>2. CASE r.kind # "head"
    BY <1>14, <2>1, <2>2 DEF b, msg, Corrected
  <2>3. CASE r.kind = "head"
    <3>1. r.head \in Heads /\ r.aspect \in Aspects /\ id = EventOf(cfg, r.head, r.aspect)
      BY <1>2, <2>3 DEF EntryType, IdOf
    <3>2. r.head = h /\ r.aspect = b
      BY <2>1, <3>1 DEF OneAspect
    <3>3. x.aspect[h] = b
      BY <1>14, <2>3, <3>2 DEF StateOf
    <3> QED BY <3>3 DEF b, msg, Corrected
  <2> QED BY <2>2, <2>3
<1> QED BY <1>9, <1>11, <1>12, <1>13, <1>14

\* An answer to an Identify is on the bus
Replied(m) == \E i \in DOMAIN m.bus : m.bus[i][1] # Report

\* No event about head h waits
Silent(cfg, queue, h) == \A i \in DOMAIN queue : ~About(cfg, h, queue[i])

\* The answer for an aspect of head h is among those for a set of entries or comes later,
\* if the Identify in progress has yet to give it, or if its event also is that of a command
\* which is answered for
Follow(cfg, m, h, set, later) ==
  \A a \in Aspects :
    \/ Unasked(m, h, a) /\ EventOf(cfg, h, a) # NoEvent
    \/ \E i \in set : /\ Registry[i].kind \notin {"head", "feedback"}
                       /\ EventOf(cfg, h, a) = IdOf(cfg, Registry[i])
    => \E j \in set \cup later : Registry[j] = HeadEntry(h, a)

\* The host is right to hold b of head h, or a later answer puts it right
Right(cfg, m, h, later, b) ==
  \/ \E id \in m.lost : About(cfg, h, id)
  \/ b = "unknown"
  \/ Due(cfg, m.local, h, m.aspect[h], b)
  \/ \E j \in later : Registry[j] = HeadEntry(h, b)

\* The answers for a set of entries tell the host the truth of every head whose aspect it
\* holds is among them, or among those that come `later`; unless events about it still wait
LEMMA AnswersInform ==
  ASSUME NEW cfg \in Config, OneAspect(cfg), NEW heads, Named(cfg, heads),
         NEW m \in NodeType, Sound(m), NEW x, x.aspect = m.aspect,
         NEW set \in SUBSET (1..Len(Registry)), NEW later \in SUBSET (1..Len(Registry)),
         NEW sent \in Seq(Message), Identifying(cfg, m, x, set, sent), NEW h \in Heads,
         \A i \in set : IdOf(cfg, Registry[i]) # NoEvent,
         Follow(cfg, m, h, set, later), set = {} \/ Silent(cfg, m.local, h),
         Informed(cfg, heads, m, h, m.aspect[h])
  PROVE  Right(cfg, m, h, later, Hears(cfg, heads, sent)[h])
<1> DEFINE L == Len(m.bus)
           C == Cardinality(set)
           held(c, k) == \/ \E id \in m.lost : About(cfg, h, id)
                         \/ c = "unknown"
                         \/ Due(cfg, m.local, h, m.aspect[h], c)
                         \/ \E j \in set : Rank(set, j) > k /\ Registry[j] = HeadEntry(h, c)
                         \/ \E j \in later : Registry[j] = HeadEntry(h, c)
<1>1. L \in Nat /\ C \in Nat /\ Len(Registry) \in Nat /\ m.bus \in Seq(Message)
      /\ \A j \in set : j \in Nat /\ j > 0 /\ Rank(set, j) \in Nat /\ Rank(set, j) <= C
  <2>1. L \in Nat /\ m.bus \in Seq(Message)
    BY DEF NodeType
  <2>2. Len(Registry) \in Nat
    BY RegistryTyped
  <2>3. C \in Nat /\ \A j \in Nat : Rank(set, j) \in Nat /\ Rank(set, j) <= C
    BY <2>2, RankTyped
  <2>4. \A j \in set : j \in Nat /\ j > 0
    BY <2>2
  <2> QED BY <2>1, <2>2, <2>3, <2>4
<1>2. Extends(m.bus, sent) /\ Len(sent) = L + C
  BY DEF Identifying
<1>10. \A n \in 1..C : \E i \in set :
         Rank(set, i) = n /\ sent[L + n] = Identified(Entries(cfg, x)[i])
  BY DEF Identifying
<1> PICK g : Overheard(cfg, heads, m.bus, sent, g)
  BY <1>1, <1>2, HearsMore
<1>3. /\ Hears(cfg, heads, m.bus) = g[L] /\ Hears(cfg, heads, sent) = g[Len(sent)]
      /\ \A i \in 1..Len(sent) : g[i] = Believe(cfg, g[i - 1], sent[i])
  BY DEF Overheard
<1>4. Named(cfg, g[L])
  BY <1>3, HearsNamed
<1> HIDE DEF L, C
<1>5. \A j \in set : Rank(set, j) > 0
  <2> TAKE j \in set
  <2>1. Rank(set, 0) = 0 /\ 0 < j
    BY <1>1, RankTyped
  <2>2. Rank(set, 0) + 1 <= Rank(set, j)
    BY <1>1, <2>1, RankGrows
  <2> QED BY <1>1, <2>1, <2>2
<1>6. held(g[L][h], 0)
  <2> DEFINE b == g[L][h]
  <2>1. \/ \E id \in m.lost : About(cfg, h, id)
        \/ b = "unknown"
        \/ Due(cfg, m.local, h, m.aspect[h], b)
        \/ Unasked(m, h, b)
    BY <1>3 DEF Informed
  <2>2. CASE b # "unknown" /\ Unasked(m, h, b)
    <3>1. b \in Aspects /\ EventOf(cfg, h, b) # NoEvent
      BY <1>4, <2>2 DEF Named
    <3>2. \E j \in set \cup later : Registry[j] = HeadEntry(h, b)
      BY <2>2, <3>1 DEF Follow
    <3> QED BY <1>5, <3>2
  <2> QED BY <2>1, <2>2
<1> DEFINE bad == {k \in 0..C : ~held(g[L + k][h], k)}
<1>7. ASSUME bad # {} PROVE FALSE
  <2>1. PICK n \in bad : \A j \in bad : ~(j < n)
    <3> HIDE DEF held
    <3>1. bad \subseteq Nat
      OBVIOUS
    <3> HIDE DEF bad
    <3> QED BY <1>7, <3>1, LeastOfNats
  <2>2. n \in 0..C /\ ~held(g[L + n][h], n)
    BY <2>1
  <2>3. n # 0
    <3>1. L + 0 = L
      BY <1>1
    <3> HIDE DEF held
    <3> QED BY <1>6, <2>2, <3>1
  <2>4. n - 1 \in 0..C /\ n - 1 < n /\ n \in 1..C /\ L + n \in 1..Len(sent)
    BY <1>1, <1>2, <2>2, <2>3
  <2> HIDE DEF bad
  <2> DEFINE old == g[L + (n - 1)]
             b == g[L + n][h]
  <2>5. held(old[h], n - 1)
    <3> HIDE DEF held
    <3> QED BY <2>1, <2>4 DEF bad
  <2>6. PICK i \in set : Rank(set, i) = n /\ sent[L + n] = Identified(Entries(cfg, x)[i])
    BY <1>10, <2>4
  <2>7. g[L + n] = Believe(cfg, old, Identified(Entries(cfg, x)[i]))
    <3>1. g[L + n] = Believe(cfg, g[(L + n) - 1], sent[L + n])
      BY <1>3, <2>4
    <3>2. (L + n) - 1 = L + (n - 1)
      BY <1>1, <2>4
    <3> QED BY <2>6, <3>1, <3>2
  <2> HIDE DEF old, b
  <2>8. \/ b = old[h] /\ (old[h] \in Aspects => Registry[i] # HeadEntry(h, old[h]))
        \/ b = "unknown"
        \/ b = x.aspect[h]
        \/ Registry[i].kind # "head" /\ b \in Aspects /\ EventOf(cfg, h, b) = IdOf(cfg, Registry[i])
           /\ Registry[i].kind # "feedback"
    <3>1. i \in 1..Len(Registry) /\ IdOf(cfg, Registry[i]) # NoEvent
      OBVIOUS
    <3>2. Corrected(cfg, x, h, Registry[i], old[h],
                    Believe(cfg, old, Identified(Entries(cfg, x)[i]))[h])
      BY <3>1, BelieveIdentified
    <3>3. Corrected(cfg, x, h, Registry[i], old[h], b)
      BY <2>7, <3>2 DEF b
    <3> QED BY <3>3 DEF Corrected
  <2>9. CASE b = old[h] /\ (old[h] \in Aspects => Registry[i] # HeadEntry(h, old[h]))
    <3>1. ASSUME NEW j \in set, Rank(set, j) > n - 1, Registry[j] = HeadEntry(h, old[h])
          PROVE  Rank(set, j) > n
      <4>1. old[h] \in Aspects
        <5>1. Registry[j] \in EntryType
          BY RegistryTyped
        <5> QED BY <3>1, <5>1 DEF EntryType, HeadEntry
      <4>2. j # i
        BY <2>9, <3>1, <4>1
      <4>3. Rank(set, j) # n
        BY <1>1, <2>6, <4>2, RankOfOne
      <4> QED BY <1>1, <2>4, <3>1, <4>3
    <3>2. held(b, n)
      BY <2>5, <2>9, <3>1
    <3> QED BY <2>2, <3>2 DEF b
  <2>10. CASE b = "unknown"
    BY <2>2, <2>10 DEF b
  <2>11. CASE b = x.aspect[h]
    <3>1. Due(cfg, m.local, h, m.aspect[h], b)
      BY <2>6, <2>11 DEF Due, Silent
    <3> QED BY <2>2, <3>1 DEF b
  <2>12. CASE Registry[i].kind # "head" /\ b \in Aspects
              /\ EventOf(cfg, h, b) = IdOf(cfg, Registry[i]) /\ Registry[i].kind # "feedback"
    <3>1. PICK j \in set \cup later : Registry[j] = HeadEntry(h, b)
      BY <2>12 DEF Follow
    <3>2. CASE j \in later
      BY <2>2, <3>1, <3>2 DEF b
    <3>3. CASE j \in set
      <4>1. j \in 1..Len(Registry) /\ i \in 1..Len(Registry) /\ i \in Nat /\ j \in Nat
        BY <1>1, <3>3
      <4>2. Registry[j].kind = "head"
        BY <3>1 DEF HeadEntry
      <4>3. ~(j <= 4 * S) /\ ~(i > 4 * S) /\ 4 * S \in Nat
        BY <2>12, <4>1, <4>2, HeadsRegistered
      <4> DEFINE Q == 4 * S
      <4> HIDE DEF Q
      <4>4. ~(j <= Q) /\ ~(i > Q) /\ Q \in Nat
        BY <4>3 DEF Q
      <4>5. i < j
        BY <4>1, <4>4
      <4>6. Rank(set, i) + 1 <= Rank(set, j)
        BY <1>1, <3>3, <4>1, <4>5, RankGrows
      <4>7. Rank(set, j) > n
        BY <1>1, <2>4, <2>6, <3>3, <4>6
      <4> QED BY <2>2, <3>1, <3>3, <4>7 DEF b
    <3> QED BY <3>2, <3>3
  <2> QED BY <2>8, <2>9, <2>10, <2>11, <2>12
<1>8. held(g[L + C][h], C)
  <2>1. C \in 0..C
    BY <1>1
  <2> HIDE DEF held
  <2> QED BY <1>7, <2>1
<1>9. \A j \in set : ~(Rank(set, j) > C)
  BY <1>1
<1> QED BY <1>2, <1>3, <1>8, <1>9 DEF Right

LEMMA AnswersSound ==
  ASSUME NEW cfg \in Config, NEW m \in NodeType, NEW x,
         NEW set \in SUBSET (1..Len(Registry)), \A i \in set : IdOf(cfg, Registry[i]) # NoEvent,
         NEW sent \in Seq(Message), Identifying(cfg, m, x, set, sent)
  PROVE  /\ Sound(m) => \A p \in DOMAIN sent : sent[p][2] # NoEvent
         /\ set = {} \/ \E p \in DOMAIN sent : sent[p][1] # Report
<1> DEFINE L == Len(m.bus)
           C == Cardinality(set)
<1>1. L \in Nat /\ C \in Nat /\ Len(Registry) \in Nat
  BY RegistryTyped, RankTyped DEF NodeType
<1>2. /\ \A p \in 1..L : sent[p] = m.bus[p]
      /\ Len(sent) = L + C
  BY DEF Identifying, Extends
<1>3. ASSUME NEW n \in 1..C
      PROVE  sent[L + n][1] # Report /\ sent[L + n][2] # NoEvent
  <2>1. PICK i \in set : sent[L + n] = Identified(Entries(cfg, x)[i])
    BY DEF Identifying
  <2>2. i \in 1..Len(Registry) /\ IdOf(cfg, Registry[i]) # NoEvent
    OBVIOUS
  <2> DEFINE msg == Identified(Entries(cfg, x)[i])
  <2>3. /\ msg[1] # Report
        /\ msg = <<<<Side(Registry[i]), StateOf(x, Registry[i])>>, IdOf(cfg, Registry[i])>>
    BY <2>2, IdentifiedIs
  <2> HIDE DEF msg
  <2>4. msg[1] # Report /\ msg[2] # NoEvent
    BY <2>2, <2>3
  <2> QED BY <2>1, <2>4 DEF msg
<1>4. ASSUME Sound(m), NEW p \in DOMAIN sent PROVE sent[p][2] # NoEvent
  <2>1. p \in Nat /\ 1 <= p /\ p <= L + C
    BY <1>1, <1>2
  <2>2. CASE p <= L
    <3>1. p \in DOMAIN m.bus /\ sent[p] = m.bus[p]
      BY <1>2, <2>1, <2>2 DEF NodeType
    <3> QED BY <1>4, <3>1 DEF Sound
  <2>3. CASE ~(p <= L)
    <3> DEFINE n == p - L
    <3>1. n \in 1..C /\ L + n = p
      BY <1>1, <2>1, <2>3
    <3> HIDE DEF n, L, C
    <3> QED BY <1>3, <3>1
  <2> QED BY <2>2, <2>3
<1>5. ASSUME NEW i \in set PROVE \E p \in DOMAIN sent : sent[p][1] # Report
  <2>1. i \in Nat /\ 0 < i
    BY <1>1
  <2>2. Rank(set, i) \in Nat /\ Rank(set, i) <= C /\ Rank(set, 0) = 0
    BY <1>1, <2>1, RankTyped
  <2>3. Rank(set, 0) + 1 <= Rank(set, i)
    BY <1>1, <2>1, RankGrows
  <2>4. 1 \in 1..C /\ L + 1 \in 1..Len(sent)
    BY <1>1, <1>2, <2>2, <2>3
  <2> QED BY <1>3, <2>4
<1> QED BY <1>4, <1>5

\* What an answer does to what the host knows
Answers(cfg, heads, m, k) ==
  /\ k.enabled = m.enabled /\ k.aspect = m.aspect /\ k.local = m.local
  /\ Sound(m) => Sound(k)
  /\ Extends(m.bus, k.bus)
  /\ \A h \in Heads :
       /\ Sound(m)
       /\ Replied(k) => Silent(cfg, m.local, h)
       /\ Informed(cfg, heads, m, h, m.aspect[h])
       => Informed(cfg, heads, k, h, k.aspect[h])

\* A batch
LEMMA BatchAnswers ==
  ASSUME NEW cfg \in Config, OneAspect(cfg), NEW heads, Named(cfg, heads),
         NEW m \in NodeType, NEW x, x.aspect = m.aspect
  PROVE  Answers(cfg, heads, m, Batch(m, Entries(cfg, x)))
<1> DEFINE entries == Entries(cfg, x)
           last == BatchEnd(m, entries)
           set == {i \in Unanswered(m, entries) : i <= last}
           later == last + 1..Len(Registry)
           k == Batch(m, entries)
<1>1. Len(Registry) \in Nat /\ m.pos \in 0..Len(Registry) /\ Len(entries) = Len(Registry)
      /\ \A i \in 1..Len(Registry) : entries[i].id = IdOf(cfg, Registry[i])
  BY RegistryTyped, EntriesTyped DEF NodeType
<1>2. last \in 0..Len(Registry) /\ m.pos <= last
  BY BatchEndTyped
<1>3. set \in SUBSET (1..Len(Registry)) /\ later \in SUBSET (1..Len(Registry))
  BY <1>1, <1>2 DEF Unanswered
<1>4. k = [SendIdentified(m, entries, set) EXCEPT
             !.pos = last, !.identifying = last < Len(entries), !.rested = FALSE]
  BY DEF Batch
<1>5. \A i \in 1..Len(Registry) :
        i > m.pos /\ IdOf(cfg, Registry[i]) # NoEvent => i \in set \cup later
  <2> SUFFICES ASSUME NEW i \in 1..Len(Registry), i > m.pos, IdOf(cfg, Registry[i]) # NoEvent
               PROVE  i \in set \cup later
    OBVIOUS
  <2>1. i \in Unanswered(m, entries)
    BY <1>1 DEF Unanswered
  <2>2. i <= last \/ i \in last + 1..Len(Registry)
    BY <1>1, <1>2
  <2> HIDE DEF last, entries
  <2> QED BY <2>1, <2>2
<1>6. \A i \in set : IdOf(cfg, Registry[i]) # NoEvent /\ i > m.pos
  BY <1>1 DEF Unanswered
<1> HIDE DEF last, set
<1>7. PICK sent \in Seq(Message) :
        SendIdentified(m, entries, set) = [m EXCEPT !.bus = sent]
        /\ Identifying(cfg, m, x, set, sent)
  BY <1>3, SendIdentifiedIs
<1>8. /\ k.enabled = m.enabled /\ k.aspect = m.aspect /\ k.local = m.local /\ k.lost = m.lost
      /\ k.bus = sent /\ k.pos = last
  BY <1>4, <1>7 DEF NodeType
<1> HIDE DEF k
<1>9. (Sound(m) => Sound(k)) /\ (set = {} \/ Replied(k)) /\ Extends(m.bus, k.bus)
  <2>1. /\ Sound(m) => \A p \in DOMAIN sent : sent[p][2] # NoEvent
        /\ set = {} \/ \E p \in DOMAIN sent : sent[p][1] # Report
    BY <1>3, <1>6, <1>7, AnswersSound
  <2> QED BY <1>7, <1>8, <2>1 DEF Sound, Replied, Identifying
<1>10. ASSUME NEW h \in Heads, Sound(m), Replied(k) => Silent(cfg, m.local, h),
              Informed(cfg, heads, m, h, m.aspect[h])
       PROVE  Informed(cfg, heads, k, h, k.aspect[h])
  <2>1. ASSUME NEW i \in set, NEW a \in Aspects, Registry[i].kind \notin {"head", "feedback"},
               EventOf(cfg, h, a) = IdOf(cfg, Registry[i])
        PROVE  \E j \in set \cup later : Registry[j] = HeadEntry(h, a)
    <3> DEFINE Q == 4 * S
    <3>1. PICK j \in 1..Len(Registry) : j > Q /\ Registry[j] = HeadEntry(h, a)
      BY HeadsRegistered
    <3>2. i \in 1..Len(Registry) /\ ~(i > Q) /\ Q \in Nat
      BY <1>3, <2>1, HeadsRegistered
    <3> HIDE DEF Q
    <3>3. j > m.pos
      BY <1>1, <1>6, <3>1, <3>2
    <3>4. IdOf(cfg, Registry[j]) = EventOf(cfg, h, a)
      BY <3>1 DEF IdOf, HeadEntry
    <3>5. IdOf(cfg, Registry[j]) # NoEvent
      BY <1>6, <2>1, <3>4
    <3> QED BY <1>5, <3>1, <3>3, <3>5
  <2>2. ASSUME NEW a \in Aspects, Unasked(m, h, a), EventOf(cfg, h, a) # NoEvent
        PROVE  \E j \in set \cup later : Registry[j] = HeadEntry(h, a)
    <3>1. PICK j \in m.pos + 1..Len(Registry) : Registry[j] = HeadEntry(h, a)
      BY <2>2 DEF Unasked
    <3>2. j \in 1..Len(Registry) /\ j > m.pos
      BY <1>1
    <3>3. IdOf(cfg, Registry[j]) # NoEvent
      BY <2>2, <3>1 DEF IdOf, HeadEntry
    <3> QED BY <1>5, <3>1, <3>2, <3>3
  <2> DEFINE b == Hears(cfg, heads, sent)[h]
  <2>3. Right(cfg, m, h, later, b)
    <3>1. set = {} \/ Silent(cfg, m.local, h)
      BY <1>9, <1>10
    <3>2. \A i \in set : IdOf(cfg, Registry[i]) # NoEvent
      BY <1>6
    <3>3. Follow(cfg, m, h, set, later)
      BY <2>1, <2>2 DEF Follow
    <3> HIDE DEF later
    <3> QED BY <1>3, <1>7, <1>10, <3>1, <3>2, <3>3, AnswersInform
  <2> QED BY <1>8, <2>3 DEF Informed, Unasked, Right
<1> QED BY <1>8, <1>9, <1>10 DEF Answers, k

\* An answer about one event
LEMMA MatchingAnswers ==
  ASSUME NEW cfg \in Config, OneAspect(cfg), NEW heads, Named(cfg, heads),
         NEW m \in NodeType, NEW id \in Events, NEW producers \in BOOLEAN
  PROVE  Answers(cfg, heads, m, IdentifyMatching(cfg, m, id, producers))
<1> DEFINE entries == Entries(cfg, m)
           set == {i \in DOMAIN entries : entries[i].producer = producers /\ entries[i].id = id}
           later == m.pos + 1..Len(Registry)
           k == IdentifyMatching(cfg, m, id, producers)
<1>1. Len(Registry) \in Nat /\ m.pos \in 0..Len(Registry) /\ DOMAIN entries = 1..Len(Registry)
      /\ \A i \in 1..Len(Registry) : /\ entries[i].id = IdOf(cfg, Registry[i])
                                     /\ entries[i].producer = (Registry[i].kind = "feedback")
  BY RegistryTyped, EntriesTyped DEF NodeType
<1>2. k = SendIdentified(m, entries, set)
  BY DEF IdentifyMatching
<1>3. set \in SUBSET (1..Len(Registry)) /\ later \in SUBSET (1..Len(Registry))
  BY <1>1
<1>4. \A i \in 1..Len(Registry) :
        i \in set <=> (Registry[i].kind = "feedback") = producers /\ IdOf(cfg, Registry[i]) = id
  BY <1>1
<1>5. id # NoEvent
  BY LayoutAssumption
<1> HIDE DEF set
<1>6. PICK sent \in Seq(Message) :
        SendIdentified(m, entries, set) = [m EXCEPT !.bus = sent]
        /\ Identifying(cfg, m, m, set, sent)
  BY <1>3, SendIdentifiedIs
<1>7. /\ k.enabled = m.enabled /\ k.aspect = m.aspect /\ k.local = m.local /\ k.lost = m.lost
      /\ k.bus = sent /\ k.pos = m.pos
  BY <1>2, <1>6 DEF NodeType
<1> HIDE DEF k, entries
<1>8. \A i \in set : IdOf(cfg, Registry[i]) # NoEvent
  BY <1>3, <1>4, <1>5
<1>9. (Sound(m) => Sound(k)) /\ (set = {} \/ Replied(k)) /\ Extends(m.bus, k.bus)
  <2>1. /\ Sound(m) => \A p \in DOMAIN sent : sent[p][2] # NoEvent
        /\ set = {} \/ \E p \in DOMAIN sent : sent[p][1] # Report
    BY <1>3, <1>6, <1>8, AnswersSound
  <2> QED BY <1>6, <1>7, <2>1 DEF Sound, Replied, Identifying
<1>10. ASSUME NEW h \in Heads, Sound(m), Replied(k) => Silent(cfg, m.local, h),
              Informed(cfg, heads, m, h, m.aspect[h])
       PROVE  Informed(cfg, heads, k, h, k.aspect[h])
  <2>1. ASSUME NEW i \in set, NEW a \in Aspects, Registry[i].kind \notin {"head", "feedback"},
               EventOf(cfg, h, a) = IdOf(cfg, Registry[i])
        PROVE  \E j \in set \cup later : Registry[j] = HeadEntry(h, a)
    <3>1. PICK j \in 1..Len(Registry) : Registry[j] = HeadEntry(h, a)
      BY HeadsRegistered
    <3>2. i \in 1..Len(Registry) /\ (Registry[i].kind = "feedback") = FALSE
      BY <1>3, <2>1
    <3>3. (Registry[j].kind = "feedback") = FALSE /\ IdOf(cfg, Registry[j]) = EventOf(cfg, h, a)
      BY <3>1 DEF IdOf, HeadEntry
    <3>4. j \in set
      BY <1>4, <2>1, <3>2, <3>3
    <3> QED BY <3>1, <3>4
  <2>2. ASSUME NEW a \in Aspects, Unasked(m, h, a), EventOf(cfg, h, a) # NoEvent
        PROVE  \E j \in set \cup later : Registry[j] = HeadEntry(h, a)
    BY <2>2 DEF Unasked
  <2> DEFINE b == Hears(cfg, heads, sent)[h]
  <2>3. Right(cfg, m, h, later, b)
    <3>1. set = {} \/ Silent(cfg, m.local, h)
      BY <1>9, <1>10
    <3>2. Follow(cfg, m, h, set, later)
      BY <2>1, <2>2 DEF Follow
    <3> HIDE DEF later
    <3> QED BY <1>3, <1>6, <1>8, <1>10, <3>1, <3>2, AnswersInform
  <2> QED BY <1>7, <2>3 DEF Informed, Unasked, Right
<1> QED BY <1>7, <1>9, <1>10 DEF Answers, k

-----------------------------------------------------------------------------
(* What a turn does to what the host knows *)

LEMMA HearsNothing ==
  ASSUME NEW cfg, NEW heads
  PROVE  Hears(cfg, heads, <<>>) = heads
<1>1. ASSUME NEW said \in Seq(Message), Len(said) = 0 PROVE Hears(cfg, heads, said) = heads
  <2>1. PICK g : Heard(cfg, heads, said, g)
    BY <1>1, HearsIs
  <2> QED BY <1>1, <2>1 DEF Heard
<1>2. <<>> \in Seq(Message) /\ Len(<<>>) = 0
  OBVIOUS
<1> QED BY <1>1, <1>2

\* What the host holds of head h as a turn begins: nothing, or what the turn will ask for
\* or answer, or what its message, or else the waiting events, will set the head to
Ready(cfg, heads, m, msg, h) ==
  /\ msg.type = "write" /\ heads[h] # "unknown" => cfg[h].enabled = m.enabled[h]
  /\ \/ Asks(m, msg)
     \/ heads[h] = "unknown"
     \/ Unasked(m, h, heads[h])
     \/ IF msg.type = "report" /\ About(cfg, h, msg.id)
        THEN m.local = <<>> /\ heads[h] \in Aspects /\ EventOf(cfg, h, heads[h]) = msg.id
        ELSE Due(cfg, m.local, h, m.aspect[h], heads[h])

\* The host knows what the message did
Handled(cfg, heads, m, msg, k) ==
  /\ k.enabled = IF msg.type = "write" /\ m.up THEN [h \in Heads |-> cfg[h].enabled]
                 ELSE m.enabled
  /\ Sound(k)
  /\ k.local = m.local \/ k.bus # <<>>
  /\ ~m.up /\ msg.type # "claim" => k.local = m.local /\ k.bus = <<>>
  /\ m.up \/ msg.type = "claim" =>
       \A h \in Heads : Ready(cfg, heads, m, msg, h) /\ (Replied(k) => Silent(cfg, m.local, h))
                          => Informed(cfg, heads, k, h, k.aspect[h])

LEMMA FollowsHandled ==
  ASSUME NEW cfg \in Config, OneAspect(cfg), NEW heads, NEW m \in NodeType, m.bus = <<>>,
         NEW msg, msg.type # "write" \/ ~m.up, ~Asks(m, msg),
         NEW k \in NodeType, Follows(cfg, heads, m, k),
         \A h \in Heads : IF msg.type = "report" /\ About(cfg, h, msg.id)
                          THEN m.up => EventOf(cfg, h, k.aspect[h]) = msg.id
                          ELSE k.aspect[h] = m.aspect[h],
         msg.type = "report" => msg.id # NoEvent,
         ~m.up => k.local = m.local /\ k.bus = m.bus
  PROVE  Handled(cfg, heads, m, msg, k)
<1>1. Sound(m) /\ Hears(cfg, heads, m.bus) = heads
  BY HearsNothing DEF Sound
<1>2. ASSUME m.up \/ msg.type = "claim", NEW h \in Heads, Ready(cfg, heads, m, msg, h)
      PROVE  Informed(cfg, heads, k, h, k.aspect[h])
  <2>1. m.up /\ k.aspect[h] \in Aspects
    BY <1>2 DEF Asks, NodeType
  <2>2. CASE heads[h] = "unknown" \/ Unasked(m, h, heads[h])
    <3>1. Informed(cfg, heads, m, h, k.aspect[h])
      BY <1>1, <2>2 DEF Informed
    <3> QED BY <2>1, <3>1 DEF Follows
  <2>3. CASE msg.type = "report" /\ About(cfg, h, msg.id)
             /\ m.local = <<>> /\ heads[h] \in Aspects /\ EventOf(cfg, h, heads[h]) = msg.id
    <3>1. EventOf(cfg, h, k.aspect[h]) = msg.id /\ msg.id # NoEvent
      BY <2>1, <2>3
    <3>2. k.aspect[h] = heads[h]
      BY <2>1, <2>3, <3>1 DEF OneAspect
    <3>3. Due(cfg, m.local, h, k.aspect[h], heads[h])
      BY <2>3, <3>2 DEF Due
    <3>4. Informed(cfg, heads, m, h, k.aspect[h])
      BY <1>1, <3>3 DEF Informed
    <3> QED BY <2>1, <3>4 DEF Follows
  <2>4. CASE ~(msg.type = "report" /\ About(cfg, h, msg.id))
             /\ Due(cfg, m.local, h, m.aspect[h], heads[h])
    <3>1. k.aspect[h] = m.aspect[h]
      BY <2>4
    <3>2. Informed(cfg, heads, m, h, k.aspect[h])
      BY <1>1, <2>4, <3>1 DEF Informed
    <3> QED BY <2>1, <3>2 DEF Follows
  <2> QED BY <1>2, <2>2, <2>3, <2>4 DEF Ready
<1>3. Sound(k) /\ k.enabled = m.enabled /\ (k.local = m.local \/ k.bus # <<>>)
  BY <1>1 DEF Follows
<1> QED BY <1>2, <1>3 DEF Handled

LEMMA SettledFollows ==
  ASSUME NEW cfg, NEW heads, NEW m \in NodeType, NEW low \in BOOLEAN
  PROVE  LET k == Settled(m, low)
         IN  /\ Follows(cfg, heads, m, k) /\ k.aspect = m.aspect
             /\ ~m.up => k.local = m.local /\ k.bus = m.bus
<1> DEFINE b == [m EXCEPT !.pressed = low]
           k == Settled(m, low)
<1>1. b \in NodeType /\ b.up = m.up /\ b.local = m.local /\ b.bus = m.bus /\ b.aspect = m.aspect
      /\ b.enabled = m.enabled /\ b.lost = m.lost /\ b.pos = m.pos /\ b.closed = m.closed
  BY DEF NodeType
<1>2. Follows(cfg, heads, m, b) /\ Follows(cfg, heads, m, m)
  BY <1>1, FollowsAside
<1>3. k = m \/ k = b \/ (low /\ k = Move(b, 1, ~m.closed[1]))
  BY DEF Settled
<1>4. 1 \in 1..S /\ (~m.closed[1]) \in BOOLEAN
  BY LayoutAssumption
<1> HIDE DEF b, k
<1>5. CASE k = m
  BY <1>2, <1>5 DEF k
<1>6. CASE k = b
  BY <1>1, <1>2, <1>6 DEF k
<1>7. CASE k = Move(b, 1, ~m.closed[1])
  <2>1. Follows(cfg, heads, b, k) /\ k.aspect = b.aspect
    BY <1>1, <1>4, <1>7, MoveFollows
  <2>2. Follows(cfg, heads, m, k)
    BY <1>2, <2>1, FollowsTransitive
  <2>3. ~m.up => k.local = m.local /\ k.bus = m.bus
    <3> DEFINE l == [b EXCEPT !.closed[1] = ~m.closed[1]]
    <3>1. l.up = b.up /\ l.local = b.local /\ l.bus = b.bus
      BY <1>1 DEF NodeType
    <3>2. k = EventSend(l, Feedback[1][~m.closed[1]])
      BY <1>7 DEF Move
    <3> HIDE DEF l
    <3>3. ~l.up => k = l
      BY <3>2 DEF EventSend
    <3> QED BY <1>1, <3>1, <3>3
  <2> QED BY <1>1, <2>1, <2>2, <2>3 DEF k
<1> QED BY <1>3, <1>5, <1>6, <1>7

\* An Identify answers for whatever the host may hold
LEMMA BatchHandled ==
  ASSUME NEW cfg \in Config, OneAspect(cfg), NEW heads, Named(cfg, heads),
         NEW m \in NodeType, m.bus = <<>>, NEW msg \in TurnType, Asks(m, msg),
         NEW b \in NodeType, b.pos = 0, b.bus = m.bus, b.local = m.local, b.aspect = m.aspect,
         b.enabled = m.enabled
  PROVE  Handled(cfg, heads, m, msg, Batch(b, Entries(cfg, m)))
<1> DEFINE k == Batch(b, Entries(cfg, m))
<1>1. Answers(cfg, heads, b, k)
  BY BatchAnswers
<1>2. Sound(b) /\ Hears(cfg, heads, b.bus) = heads
  BY HearsNothing DEF Sound
<1> HIDE DEF k
<1>3. k.enabled = m.enabled /\ Sound(k) /\ k.local = m.local /\ k.aspect = b.aspect
  BY <1>1, <1>2 DEF Answers
<1>4. ASSUME NEW h \in Heads, Replied(k) => Silent(cfg, m.local, h)
      PROVE  Informed(cfg, heads, k, h, k.aspect[h])
  <2>1. heads[h] = "unknown" \/ heads[h] \in Aspects
    BY DEF Named
  <2>2. ASSUME heads[h] \in Aspects PROVE Unasked(b, h, heads[h])
    <3>1. PICK i \in 1..Len(Registry) : Registry[i] = HeadEntry(h, heads[h])
      BY <2>2, HeadsRegistered
    <3>2. i \in b.pos + 1..Len(Registry)
      BY HeadsRegistered
    <3> QED BY <3>1, <3>2 DEF Unasked
  <2>3. Informed(cfg, heads, b, h, b.aspect[h])
    BY <1>2, <2>1, <2>2 DEF Informed
  <2> QED BY <1>1, <1>2, <1>4, <2>3 DEF Answers
<1>5. (msg.type = "claim" \/ m.up) /\ ~(msg.type = "write")
  BY DEF Asks
<1> QED BY <1>3, <1>4, <1>5 DEF Handled, k

LEMMA FlashTickFollows ==
  ASSUME NEW cfg, NEW heads, NEW m \in NodeType
  PROVE  LET k == FlashTick(m, cfg)
         IN  /\ Follows(cfg, heads, m, k) /\ k.aspect = m.aspect
             /\ k.local = m.local /\ k.bus = m.bus
<1> DEFINE k == FlashTick(m, cfg)
<1>1. /\ k.enabled = m.enabled /\ k.bus = m.bus /\ k.local = m.local /\ k.lost = m.lost
      /\ k.pos = m.pos /\ k.aspect = m.aspect
  BY DEF FlashTick, ShowHeads, NodeType
<1> HIDE DEF k
<1>2. Follows(cfg, heads, m, k)
  BY <1>1, FollowsAside
<1> QED BY <1>1, <1>2 DEF k

LEMMA ApplyConfigSets ==
  ASSUME NEW cfg, NEW m \in NodeType
  PROVE  LET k == ApplyConfig(m, cfg)
         IN  /\ k.enabled = [h \in Heads |-> cfg[h].enabled]
             /\ k.bus = m.bus /\ k.local = m.local /\ k.lost = m.lost /\ k.pos = m.pos
             /\ \A h \in Heads : cfg[h].enabled = m.enabled[h] => k.aspect[h] = m.aspect[h]
BY DEF ApplyConfig, UpdateFlashTimer, ShowHeads, NodeType

\* A configuration leaves the heads alone that it neither enables nor disables
LEMMA WriteHandled ==
  ASSUME NEW cfg \in Config, NEW heads, NEW m \in NodeType, m.bus = <<>>,
         NEW msg, msg.type = "write", m.up
  PROVE  Handled(cfg, heads, m, msg, ApplyConfig(m, cfg))
<1> DEFINE k == ApplyConfig(m, cfg)
<1>1. /\ k.enabled = [h \in Heads |-> cfg[h].enabled]
      /\ k.bus = m.bus /\ k.local = m.local /\ k.lost = m.lost /\ k.pos = m.pos
      /\ \A h \in Heads : cfg[h].enabled = m.enabled[h] => k.aspect[h] = m.aspect[h]
  BY ApplyConfigSets
<1> HIDE DEF k
<1>2. Sound(k) /\ Hears(cfg, heads, k.bus) = heads
  BY <1>1, HearsNothing DEF Sound
<1>3. ASSUME NEW h \in Heads, Ready(cfg, heads, m, msg, h)
      PROVE  Informed(cfg, heads, k, h, k.aspect[h])
  <2>1. CASE heads[h] = "unknown"
    BY <1>2, <2>1 DEF Informed
  <2>2. CASE heads[h] # "unknown"
    <3>1. k.aspect[h] = m.aspect[h]
      BY <1>1, <1>3, <2>2 DEF Ready
    <3>2. Unasked(m, h, heads[h]) \/ Due(cfg, m.local, h, m.aspect[h], heads[h])
      BY <1>3, <2>2 DEF Ready, Asks
    <3>3. Unasked(k, h, heads[h]) \/ Due(cfg, k.local, h, k.aspect[h], heads[h])
      BY <1>1, <3>1, <3>2 DEF Unasked
    <3> QED BY <1>2, <3>3 DEF Informed
  <2> QED BY <2>1, <2>2
<1> QED BY <1>1, <1>2, <1>3 DEF Handled, k

LEMMA HandleHandled ==
  ASSUME NEW cfg \in Config, OneAspect(cfg), NEW heads, Named(cfg, heads),
         NEW m \in NodeType, m.bus = <<>>, NEW msg \in TurnType
  PROVE  Handled(cfg, heads, m, msg, Handle(cfg, m, msg))
<1> DEFINE k == Handle(cfg, m, msg)
           goal == Handled(cfg, heads, m, msg, k)
<1>1. k \in NodeType
  BY HandleMoves DEF Moved
<1>2. msg.type = "report" => msg.id \in Events /\ msg.id # NoEvent
  BY LayoutAssumption DEF TurnType, InboxType
<1> HIDE DEF goal
<1>3. ASSUME msg.type = "tick" PROVE goal
  <2>1. k = FlashTick(m, cfg) /\ ~Asks(m, msg) /\ msg.type # "report" /\ msg.type # "write"
    BY <1>3 DEF Handle, Asks
  <2> HIDE DEF k
  <2>2. Follows(cfg, heads, m, k) /\ k.aspect = m.aspect /\ k.local = m.local /\ k.bus = m.bus
    BY <2>1, FlashTickFollows
  <2> QED BY <1>1, <2>1, <2>2, FollowsHandled DEF goal
<1>4. ASSUME msg.type = "settled" PROVE goal
  <2>1. k = Settled(m, msg.low) /\ ~Asks(m, msg) /\ msg.type # "report" /\ msg.type # "write"
    BY <1>4 DEF Handle, Asks
  <2>2. msg.low \in BOOLEAN
    BY <1>4 DEF TurnType, InboxType
  <2> HIDE DEF k
  <2>3. Follows(cfg, heads, m, k) /\ k.aspect = m.aspect
        /\ (~m.up => k.local = m.local /\ k.bus = m.bus)
    BY <2>1, <2>2, SettledFollows
  <2> QED BY <1>1, <2>1, <2>3, FollowsHandled DEF goal
<1>5. ASSUME Asks(m, msg) PROVE goal
  <2> DEFINE l == IF msg.type = "claim" THEN [m EXCEPT !.up = TRUE] ELSE m
             b == [l EXCEPT !.pos = 0]
  <2>1. k = IdentifyAll(l, Entries(cfg, m))
    BY <1>5 DEF Handle, Asks
  <2>2. l \in NodeType /\ l.bus = m.bus /\ l.local = m.local /\ l.aspect = m.aspect
        /\ l.enabled = m.enabled
    <3>1. CASE msg.type = "claim"
      BY <3>1 DEF NodeType
    <3>2. CASE msg.type # "claim"
      BY <3>2
    <3> QED BY <3>1, <3>2
  <2> HIDE DEF l
  <2>3. 0 \in 0..Len(Registry)
    BY RegistryTyped
  <2>4. b \in NodeType /\ b.pos = 0 /\ b.bus = m.bus /\ b.local = m.local
        /\ b.aspect = m.aspect /\ b.enabled = m.enabled
    BY <2>2, <2>3 DEF NodeType
  <2>5. k = Batch(b, Entries(cfg, m))
    BY <2>1 DEF IdentifyAll
  <2> HIDE DEF b, k
  <2>6. Handled(cfg, heads, m, msg, Batch(b, Entries(cfg, m)))
    BY <1>5, <2>4, BatchHandled
  <2> QED BY <2>5, <2>6 DEF goal
<1>6. ASSUME msg.type = "write", m.up PROVE goal
  <2>1. k = ApplyConfig(m, cfg)
    BY <1>6 DEF Handle
  <2> HIDE DEF k
  <2> QED BY <1>6, <2>1, WriteHandled DEF goal
<1>7. ASSUME msg.type = "report", m.up PROVE goal
  <2>1. k = Consume(cfg, m, msg.id) /\ ~Asks(m, msg) /\ msg.type # "write"
    BY <1>7 DEF Handle, Asks
  <2> HIDE DEF k
  <2>2. /\ Follows(cfg, heads, m, k)
        /\ \A h \in Heads : IF About(cfg, h, msg.id) THEN EventOf(cfg, h, k.aspect[h]) = msg.id
                            ELSE k.aspect[h] = m.aspect[h]
    BY <2>1, ConsumeFollows
  <2> QED BY <1>1, <1>2, <1>7, <2>1, <2>2, FollowsHandled DEF goal
<1>8. ASSUME msg.type = "matching", m.up PROVE goal
  <2>1. k = IdentifyMatching(cfg, m, msg.id, msg.producers) /\ ~Asks(m, msg)
        /\ msg.type # "write" /\ msg.type # "report"
    BY <1>8 DEF Handle, Asks
  <2>2. msg.id \in Events /\ msg.producers \in BOOLEAN
    BY <1>8 DEF TurnType, InboxType
  <2> HIDE DEF k
  <2>3. Answers(cfg, heads, m, k)
    BY <2>1, <2>2, MatchingAnswers
  <2>4. Sound(m) /\ Hears(cfg, heads, m.bus) = heads
    BY HearsNothing DEF Sound
  <2>5. k.enabled = m.enabled /\ Sound(k) /\ k.local = m.local
    BY <2>3, <2>4 DEF Answers
  <2>6. ASSUME NEW h \in Heads, Ready(cfg, heads, m, msg, h), Replied(k) => Silent(cfg, m.local, h)
        PROVE  Informed(cfg, heads, k, h, k.aspect[h])
    <3>1. Informed(cfg, heads, m, h, m.aspect[h])
      BY <2>1, <2>4, <2>6 DEF Ready, Informed
    <3> QED BY <2>3, <2>4, <2>6, <3>1 DEF Answers
  <2> QED BY <1>8, <2>1, <2>5, <2>6 DEF goal, Handled
<1>9. ASSUME msg.type = "none"
               \/ (msg.type \in {"write", "report", "identify", "matching"} /\ ~m.up)
      PROVE  goal
  <2>1. k = m /\ ~Asks(m, msg) /\ (msg.type # "write" \/ ~m.up)
    BY <1>9 DEF Handle, Asks
  <2>2. Follows(cfg, heads, m, m)
    BY FollowsAside
  <2>3. msg.type = "report" => ~m.up
    BY <1>9
  <2>4. Handled(cfg, heads, m, msg, m)
    BY <1>2, <2>1, <2>2, <2>3, FollowsHandled
  <2> QED BY <2>1, <2>4 DEF goal
<1>10. msg.type \in {"tick", "settled", "claim", "identify", "write", "report", "matching", "none"}
  BY DEF TurnType, InboxType
<1> HIDE DEF k
<1>11. goal
  BY <1>3, <1>4, <1>5, <1>6, <1>7, <1>8, <1>9, <1>10 DEF Asks
<1> QED BY <1>11 DEF goal, k

\* An Identify that begins passes an entry
LEMMA BatchAdvances ==
  ASSUME NEW cfg \in Config, NEW m \in NodeType, NEW x
  PROVE  Batch(m, Entries(cfg, x)).pos \in Nat \ {0}
<1> DEFINE entries == Entries(cfg, x)
           open == Unanswered(m, entries)
           last == BatchEnd(m, entries)
           sent == SendIdentified(m, entries, {i \in Unanswered(m, entries) : i <= last})
<1>1. /\ Len(Registry) \in Nat /\ Len(Registry) # 0 /\ m.pos \in 0..Len(Registry)
      /\ Len(entries) = Len(Registry)
  BY HeadsRegistered, EntriesTyped DEF NodeType
<1>2. open \in SUBSET (1..Len(Registry))
  BY <1>1 DEF Unanswered
<1>3. last = IF Cardinality(open) < IdentifyBatch THEN Len(entries)
             ELSE CHOOSE i \in open : Cardinality({j \in open : j <= i}) = IdentifyBatch
  BY DEF BatchEnd
<1>4. sent \in NodeType
  <2> DEFINE set == {i \in Unanswered(m, entries) : i <= last}
  <2>1. set \in SUBSET (1..Len(Registry))
    BY <1>2
  <2> HIDE DEF set
  <2>2. PICK said \in Seq(Message) : SendIdentified(m, entries, set) = [m EXCEPT !.bus = said]
    <3>1. PICK said \in Seq(Message) :
            /\ SendIdentified(m, entries, set) = [m EXCEPT !.bus = said]
            /\ Identifying(cfg, m, x, set, said)
      BY <2>1, SendIdentifiedIs
    <3> QED BY <3>1
  <2>3. [m EXCEPT !.bus = said] \in NodeType
    BY DEF NodeType
  <2> QED BY <2>2, <2>3 DEF set
<1>5. Batch(m, entries) = [sent EXCEPT !.pos = last, !.identifying = last < Len(entries),
                                       !.rested = FALSE]
  BY DEF Batch
<1> HIDE DEF sent
<1>6. Batch(m, entries).pos = last
  BY <1>4, <1>5 DEF NodeType
<1> HIDE DEF open, last, entries
<1>7. Cardinality(open) \in Nat
  BY <1>1, <1>2, RankTyped
<1>8. CASE Cardinality(open) < IdentifyBatch
  <2>1. last \in Nat \ {0}
    BY <1>1, <1>3, <1>8
  <2> QED BY <1>6, <2>1 DEF entries
<1>9. CASE ~(Cardinality(open) < IdentifyBatch)
  <2>1. IdentifyBatch \in 1..Cardinality(open)
    BY <1>7, <1>9, EventAssumption
  <2>2. \E i \in open : Cardinality({j \in open : j <= i}) = IdentifyBatch
    BY <1>1, <1>2, <2>1, RankTaken DEF Rank
  <2>3. last \in open
    BY <1>3, <1>9, <2>2
  <2>4. last \in Nat \ {0}
    BY <1>1, <1>2, <2>3
  <2> QED BY <1>6, <2>4 DEF entries
<1> QED BY <1>8, <1>9

LEMMA RepliesStay ==
  ASSUME NEW k \in NodeType, NEW m \in NodeType, Extends(k.bus, m.bus)
  PROVE  (Replied(k) => Replied(m)) /\ (k.bus # <<>> => m.bus # <<>>)
         /\ (Replied(m) => m.bus # <<>>)
<1>1. k.bus \in Seq(Message) /\ m.bus \in Seq(Message)
  BY DEF NodeType
<1>2. Len(k.bus) <= Len(m.bus) /\ \A i \in 1..Len(k.bus) : m.bus[i] = k.bus[i]
  BY DEF Extends
<1>3. \A i \in DOMAIN k.bus : i \in DOMAIN m.bus /\ m.bus[i] = k.bus[i]
  BY <1>1, <1>2
<1>4. Replied(k) => Replied(m)
  BY <1>3 DEF Replied
<1>5. Replied(m) => m.bus # <<>>
  BY <1>1 DEF Replied
<1>6. k.bus # <<>> => m.bus # <<>>
  BY <1>1, <1>2
<1> QED BY <1>4, <1>5, <1>6

\* An Identify that is asked for is answered at once
LEMMA AskedReplies ==
  ASSUME NEW cfg \in Config, NEW m \in NodeType, NEW msg \in TurnType, Asks(m, msg)
  PROVE  Replied(Handle(cfg, m, msg))
<1> DEFINE l == IF msg.type = "claim" THEN [m EXCEPT !.up = TRUE] ELSE m
           b == [l EXCEPT !.pos = 0]
           k == Batch(b, Entries(cfg, m))
<1>1. Handle(cfg, m, msg) = IdentifyAll(l, Entries(cfg, m))
  BY DEF Handle, Asks
<1>2. l \in NodeType
  BY DEF NodeType
<1> HIDE DEF l
<1>3. 0 \in 0..Len(Registry)
  BY RegistryTyped
<1>4. b \in NodeType /\ b.pos = 0
  BY <1>2, <1>3 DEF NodeType
<1>5. Handle(cfg, m, msg) = k
  BY <1>1 DEF IdentifyAll
<1> HIDE DEF b
<1>6. Told(cfg, b.pos, k) /\ k.pos \in Nat \ {0}
  BY <1>4, BatchMoves, BatchAdvances DEF Moved
<1> HIDE DEF k
<1>7. 1 \in b.pos + 1..k.pos
  BY <1>4, <1>6
<1>8. IdOf(cfg, Registry[1]) # NoEvent
  <2>1. Registry[1] = CommandEntry(1, FALSE)
    BY HeadsRegistered
  <2>2. IdOf(cfg, Registry[1]) = Command[1][FALSE]
    BY <2>1 DEF IdOf, CommandEntry
  <2>3. Command[1][FALSE] \in Events
    <3>1. Command \in [1..S -> [BOOLEAN -> Events]] /\ 1 \in 1..S
      BY LayoutAssumption
    <3> QED BY <3>1
  <2> QED BY <2>2, <2>3, LayoutAssumption
<1> QED BY <1>5, <1>6, <1>7, <1>8 DEF Told, Replied

\* The timers, once a message has been handled
LEMMA RunTimersInform ==
  ASSUME NEW cfg \in Config, OneAspect(cfg), NEW heads, Named(cfg, heads),
         NEW k \in NodeType, Sound(k), k.up
  PROVE  LET m == RunTimers(cfg, k)
         IN  /\ m.enabled = k.enabled /\ Sound(m) /\ (m.local = <<>> \/ m.bus # <<>>)
             /\ \A h \in Heads :
                  Informed(cfg, heads, k, h, k.aspect[h]) /\ (Replied(m) => Silent(cfg, m.local, h))
                    => Informed(cfg, heads, m, h, m.aspect[h])
<1> DEFINE d == Drain(cfg, k)
           m == RunTimers(cfg, k)
<1>1. /\ d.enabled = k.enabled /\ Sound(d) /\ (d.local = <<>> \/ d.bus # <<>>)
      /\ \A h \in Heads : Informed(cfg, heads, k, h, k.aspect[h])
                            => Informed(cfg, heads, d, h, d.aspect[h])
  BY DrainFollows
<1>2. d \in NodeType
  BY DrainMoves DEF Moved
<1>3. m = IF d.identifying /\ d.rested THEN Batch(d, Entries(cfg, d)) ELSE d
  BY DEF RunTimers, NextBatch
<1> HIDE DEF d, m
<1>4. CASE m = d
  BY <1>1, <1>4 DEF m
<1>5. CASE m = Batch(d, Entries(cfg, d))
  <2>1. Answers(cfg, heads, d, m)
    BY <1>2, <1>5, BatchAnswers
  <2>2. m \in NodeType
    BY <1>2, <1>5, BatchMoves DEF Moved
  <2>3. m.enabled = d.enabled /\ Sound(m) /\ m.local = d.local /\ Extends(d.bus, m.bus)
    BY <1>1, <2>1 DEF Answers
  <2>4. d.bus # <<>> => m.bus # <<>>
    BY <1>2, <2>2, <2>3, RepliesStay
  <2>5. ASSUME NEW h \in Heads, Informed(cfg, heads, k, h, k.aspect[h]),
               Replied(m) => Silent(cfg, m.local, h)
        PROVE  Informed(cfg, heads, m, h, m.aspect[h])
    <3>1. Informed(cfg, heads, d, h, d.aspect[h])
      BY <1>1, <2>5
    <3> QED BY <1>1, <2>1, <2>3, <2>5, <3>1 DEF Answers
  <2> QED BY <1>1, <2>3, <2>4, <2>5 DEF m
<1> QED BY <1>3, <1>4, <1>5

-----------------------------------------------------------------------------
(* The invariant of what the host knows *)

Reports(cfg, h, msg) == msg.type = "report" /\ About(cfg, h, msg.id)

\* No report about head h waits in the queue
Unreported(cfg, queue, h) == \A i \in DOMAIN queue : ~Reports(cfg, h, queue[i])

\* b is the aspect the last report about head h in the queue will set, or with none the
\* node's own events
Comes(cfg, m, queue, h, b) ==
  \/ Unreported(cfg, queue, h) /\ Due(cfg, m.local, h, m.aspect[h], b)
  \/ /\ b \in Aspects
     /\ \E i \in DOMAIN queue :
          /\ queue[i].type = "report" /\ EventOf(cfg, h, b) = queue[i].id
          /\ \A j \in DOMAIN queue : j > i => ~Reports(cfg, h, queue[j])

\* What the host may hold of a head none of whose events crossed another
Knows(cfg, heads, m, queue, h) ==
  heads[h] = "unknown" \/ Comes(cfg, m, queue, h, heads[h]) \/ Unasked(m, h, heads[h])

\* The configurations are those it began with or was sent
Configured ==
  /\ \A h \in Heads : config[h] \in {InitConfig[h]} \cup Configs[h]
  /\ \A i \in DOMAIN inbox : inbox[i].type = "write" => inbox[i].config \in Configs[inbox[i].head]

HostInv ==
  /\ Configured
  /\ Named(config, host)
  /\ \A h \in Heads : node.enabled[h] = config[h].enabled
  /\ ~node.up => node.local = <<>>
  /\ node.local # <<>> => \A h \in Heads \ crossed : Unreported(config, inbox, h)
  /\ node.up => \A h \in Heads \ crossed : Knows(config, host, node, inbox, h)

\* What the host holds of the heads a turn does not configure anew
Held(cfg) == [h \in Heads |-> IF cfg[h] = config[h] THEN host[h] ELSE "unknown"]

LEMMA SameEvents ==
  ASSUME NEW cfg, NEW old, NEW h, cfg[h] = old[h]
  PROVE  /\ \A a : EventOf(cfg, h, a) = EventOf(old, h, a)
         /\ \A id : About(cfg, h, id) <=> About(old, h, id)
         /\ \A queue, d, b : Due(cfg, queue, h, d, b) <=> Due(old, queue, h, d, b)
         /\ \A queue : Unreported(cfg, queue, h) <=> Unreported(old, queue, h)
         /\ \A m, queue, b : Comes(cfg, m, queue, h, b) <=> Comes(old, m, queue, h, b)
<1>1. \A a : EventOf(cfg, h, a) = EventOf(old, h, a)
  BY DEF EventOf
<1>2. \A id : About(cfg, h, id) <=> About(old, h, id)
  BY <1>1 DEF About
<1>3. \A queue, d, b : Due(cfg, queue, h, d, b) <=> Due(old, queue, h, d, b)
  BY <1>1, <1>2 DEF Due
<1>4. \A queue : Unreported(cfg, queue, h) <=> Unreported(old, queue, h)
  BY <1>2 DEF Unreported, Reports
<1>5. \A m, queue, b : Comes(cfg, m, queue, h, b) <=> Comes(old, m, queue, h, b)
  BY <1>1, <1>2, <1>3, <1>4 DEF Comes, Reports
<1> QED BY <1>1, <1>2, <1>3, <1>4, <1>5

LEMMA HeldNamed ==
  ASSUME Named(config, host), NEW cfg
  PROVE  Named(cfg, Held(cfg))
<1>1. host \in [Heads -> Aspects \cup {"unknown"}]
  BY DEF Named
<1>2. Held(cfg) \in [Heads -> Aspects \cup {"unknown"}]
  BY <1>1 DEF Held
<1>3. ASSUME NEW h \in Heads, Held(cfg)[h] # "unknown"
      PROVE  EventOf(cfg, h, Held(cfg)[h]) # NoEvent
  <2>1. cfg[h] = config[h] /\ Held(cfg)[h] = host[h]
    BY <1>3 DEF Held
  <2>2. EventOf(config, h, host[h]) # NoEvent
    BY <1>3, <2>1 DEF Named
  <2> QED BY <2>1, <2>2, SameEvents
<1> QED BY <1>2, <1>3 DEF Named

LEMMA ConcernedIs ==
  ASSUME NEW cfg, NEW ids, NEW h \in Heads
  PROVE  h \in Concerned(cfg, ids) <=> \E id \in ids : About(cfg, h, id)
BY DEF Concerned, About

LEMMA ComingIs ==
  ASSUME NEW queue
  PROVE  \A i \in DOMAIN queue : queue[i].type = "report" => queue[i].id \in Coming(queue)
BY DEF Coming, ToSet

\* What it means that no event about a head crossed another in a turn
LEMMA TurnCrosses ==
  ASSUME NEW msg, NEW cfg, NEW m, After(msg, cfg, m), NEW h \in Heads, h \notin crossed'
  PROVE  /\ ~Asks(node, msg) => h \notin crossed
         /\ \A id \in m.lost : ~About(cfg, h, id)
         /\ Replied(m) => Silent(cfg, node.local, h) /\ Silent(cfg, m.local, h)
         /\ m.bus # <<>> => Unreported(cfg, inbox', h)
<1> DEFINE replies == {i \in DOMAIN m.bus : m.bus[i][1] # Report}
           ids == m.lost
                    \cup (IF replies # {} THEN ToSet(node.local) \cup ToSet(m.local) ELSE {})
                    \cup (IF node.up THEN {} ELSE Coming(<<msg>>))
                    \cup (IF m.bus # <<>> THEN Coming(inbox') ELSE {})
<1>1. crossed' = (IF Asks(node, msg) THEN {} ELSE crossed) \cup Concerned(cfg, ids)
  BY Zenon DEF After, Asks
<1>2. \A id \in ids : ~About(cfg, h, id)
  <2>1. h \notin Concerned(cfg, ids)
    BY <1>1
  <2> HIDE DEF ids
  <2> QED BY <2>1, ConcernedIs
<1>3. ASSUME Replied(m) PROVE Silent(cfg, node.local, h) /\ Silent(cfg, m.local, h)
  <2>1. replies # {}
    BY <1>3 DEF Replied
  <2>2. ToSet(node.local) \subseteq ids /\ ToSet(m.local) \subseteq ids
    <3> HIDE DEF replies
    <3> QED BY <2>1
  <2> HIDE DEF ids, replies
  <2> QED BY <1>2, <2>2 DEF Silent, ToSet
<1>4. ASSUME m.bus # <<>> PROVE Unreported(cfg, inbox', h)
  <2>1. Coming(inbox') \subseteq ids
    <3> HIDE DEF replies
    <3> QED BY <1>4
  <2> HIDE DEF ids, replies
  <2>2. \A i \in DOMAIN inbox' : inbox'[i].type = "report" => inbox'[i].id \in Coming(inbox')
    BY ComingIs
  <2> QED BY <1>2, <2>1, <2>2 DEF Unreported, Reports
<1>5. \A id \in m.lost : ~About(cfg, h, id)
  BY <1>2
<1>6. ~Asks(node, msg) => h \notin crossed
  BY <1>1
<1> QED BY <1>3, <1>4, <1>5, <1>6

\* The message of a turn is the first in the queue, or none
Turned(msg) ==
  \/ inbox # <<>> /\ msg = Head(inbox) /\ inbox' = Tail(inbox)
  \/ msg.type \in {"none", "claim"} /\ inbox' = inbox

LEMMA TurnedQueue ==
  ASSUME inbox \in Seq(InboxType), NEW msg, Turned(msg)
  PROVE  /\ inbox' \in Seq(InboxType)
         /\ \A i \in DOMAIN inbox : i \in Nat /\ i >= 1
         /\ \A i \in DOMAIN inbox' : i \in Nat /\ i >= 1
         /\ \E n \in {0, 1} :
              /\ \A i \in DOMAIN inbox' : i + n \in DOMAIN inbox /\ inbox'[i] = inbox[i + n]
              /\ \A i \in DOMAIN inbox : i > n => i - n \in DOMAIN inbox'
              /\ n = 1 => 1 \in DOMAIN inbox /\ msg = inbox[1]
              /\ n = 0 => msg.type \in {"none", "claim"}
<1>1. \A i \in DOMAIN inbox : i \in Nat /\ i >= 1
  OBVIOUS
<1>2. CASE inbox # <<>> /\ msg = Head(inbox) /\ inbox' = Tail(inbox)
  <2> DEFINE rest == Tail(inbox)
  <2>1. /\ rest \in Seq(InboxType) /\ 1 \in DOMAIN inbox /\ Head(inbox) = inbox[1]
        /\ \A i \in DOMAIN rest : i \in Nat /\ i >= 1 /\ i + 1 \in DOMAIN inbox
                                   /\ rest[i] = inbox[i + 1]
        /\ \A i \in DOMAIN inbox : i > 1 => i - 1 \in DOMAIN rest
    BY <1>2
  <2> HIDE DEF rest
  <2>2. inbox' = rest
    BY <1>2 DEF rest
  <2> QED BY <1>1, <1>2, <2>1, <2>2
<1>3. CASE msg.type \in {"none", "claim"} /\ inbox' = inbox
  <2>1. \A i \in DOMAIN inbox : i + 0 = i /\ i - 0 = i
    BY <1>1
  <2> QED BY <1>1, <1>3, <2>1
<1> QED BY <1>2, <1>3 DEF Turned

LEMMA ReadyTurn ==
  ASSUME LayoutTyped, HostInv, NEW msg \in TurnType, Turned(msg), NEW h \in Heads,
         Asks(node, msg) \/ (node.up /\ h \notin crossed), NEW cfg, Unreported(cfg, inbox', h)
  PROVE  Ready(cfg, Held(cfg), node, msg, h)
<1> DEFINE b == Held(cfg)[h]
<1>1. b # "unknown" => cfg[h] = config[h] /\ b = host[h]
  BY DEF Held
<1> HIDE DEF b
<1>2. b # "unknown" => cfg[h].enabled = node.enabled[h]
  BY <1>1 DEF HostInv
<1>3. ASSUME ~Asks(node, msg), b # "unknown", ~Unasked(node, h, b)
      PROVE  IF msg.type = "report" /\ About(cfg, h, msg.id)
             THEN node.local = <<>> /\ b \in Aspects /\ EventOf(cfg, h, b) = msg.id
             ELSE Due(cfg, node.local, h, node.aspect[h], b)
  <2>1. cfg[h] = config[h] /\ b = host[h]
    BY <1>1, <1>3
  <2>2. Comes(config, node, inbox, h, b)
    BY <1>3, <2>1 DEF HostInv, Knows
  <2>3. PICK n \in {0, 1} :
          /\ \A i \in DOMAIN inbox' : i + n \in DOMAIN inbox /\ inbox'[i] = inbox[i + n]
          /\ \A i \in DOMAIN inbox : i > n => i - n \in DOMAIN inbox'
          /\ n = 1 => 1 \in DOMAIN inbox /\ msg = inbox[1]
          /\ n = 0 => msg.type \in {"none", "claim"}
    BY TurnedQueue DEF LayoutTyped
  <2>4. \A i \in DOMAIN inbox : i \in Nat /\ i >= 1
    BY TurnedQueue DEF LayoutTyped
  <2>5. CASE Unreported(config, inbox, h) /\ Due(config, node.local, h, node.aspect[h], b)
    <3>1. ~(msg.type = "report" /\ About(cfg, h, msg.id))
      <4>1. CASE n = 0
        BY <2>3, <4>1
      <4>2. CASE n = 1
        <5>1. ~Reports(config, h, msg)
          BY <2>3, <2>5, <4>2 DEF Unreported
        <5> QED BY <2>1, <5>1, SameEvents DEF Reports
      <4> QED BY <4>1, <4>2
    <3>2. Due(cfg, node.local, h, node.aspect[h], b)
      BY <2>1, <2>5, SameEvents
    <3> QED BY <3>1, <3>2
  <2>6. ASSUME b \in Aspects, NEW i \in DOMAIN inbox, inbox[i].type = "report",
               EventOf(config, h, b) = inbox[i].id
        PROVE  msg.type = "report" /\ About(cfg, h, msg.id)
               /\ node.local = <<>> /\ b \in Aspects /\ EventOf(cfg, h, b) = msg.id
    <3>1. Reports(config, h, inbox[i])
      BY <2>6 DEF Reports, About
    <3>2. ~(i > n)
      <4> SUFFICES ASSUME i > n PROVE FALSE
        OBVIOUS
      <4>1. i - n \in DOMAIN inbox' /\ (i - n) + n = i
        BY <2>3, <2>4
      <4>2. inbox'[i - n] = inbox[i]
        BY <2>3, <4>1
      <4>3. ~Reports(cfg, h, inbox[i])
        BY <4>1, <4>2 DEF Unreported
      <4> QED BY <2>1, <3>1, <4>3, SameEvents DEF Reports
    <3>3. i = 1 /\ n = 1 /\ msg = inbox[i]
      BY <2>3, <2>4, <3>2
    <3>4. node.local = <<>>
      <4>1. ~Unreported(config, inbox, h)
        BY <3>1 DEF Unreported
      <4> QED BY <1>3, <4>1 DEF HostInv
    <3>5. About(cfg, h, msg.id) /\ EventOf(cfg, h, b) = msg.id
      BY <2>1, <2>6, <3>1, <3>3, SameEvents DEF Reports
    <3> QED BY <2>6, <3>3, <3>4, <3>5
  <2> QED BY <2>2, <2>5, <2>6 DEF Comes
<1> QED BY <1>2, <1>3 DEF Ready, b

\* The report that counts still waits, behind the message of the turn
LEMMA BehindTurn ==
  ASSUME LayoutTyped, NEW msg, Turned(msg), NEW h, NEW b, NEW m,
         ~Unreported(config, inbox', h), Comes(config, node, inbox, h, b)
  PROVE  Comes(config, m, inbox', h, b)
<1>1. PICK n \in {0, 1} :
        /\ \A i \in DOMAIN inbox' : i + n \in DOMAIN inbox /\ inbox'[i] = inbox[i + n]
        /\ \A i \in DOMAIN inbox : i > n => i - n \in DOMAIN inbox'
        /\ n = 1 => 1 \in DOMAIN inbox /\ msg = inbox[1]
        /\ n = 0 => msg.type \in {"none", "claim"}
  BY TurnedQueue DEF LayoutTyped
<1>2. /\ \A i \in DOMAIN inbox : i \in Nat /\ i >= 1
      /\ \A i \in DOMAIN inbox' : i \in Nat /\ i >= 1
  BY TurnedQueue DEF LayoutTyped
<1>3. PICK q \in DOMAIN inbox' : Reports(config, h, inbox'[q])
  BY DEF Unreported
<1>4. q + n \in DOMAIN inbox /\ Reports(config, h, inbox[q + n])
  BY <1>1, <1>3
<1>5. PICK i \in DOMAIN inbox :
        /\ b \in Aspects /\ inbox[i].type = "report" /\ EventOf(config, h, b) = inbox[i].id
        /\ \A j \in DOMAIN inbox : j > i => ~Reports(config, h, inbox[j])
  BY <1>4 DEF Comes, Unreported
<1>6. ~(q + n > i)
  BY <1>4, <1>5
<1>7. i > n
  BY <1>2, <1>6
<1>8. i - n \in DOMAIN inbox' /\ (i - n) + n = i
  BY <1>1, <1>2, <1>7
<1>9. inbox'[i - n] = inbox[i]
  BY <1>1, <1>8
<1>10. ASSUME NEW j \in DOMAIN inbox', j > i - n PROVE ~Reports(config, h, inbox'[j])
  <2>1. j + n \in DOMAIN inbox /\ inbox'[j] = inbox[j + n]
    BY <1>1
  <2>2. j + n > i
    BY <1>2, <1>10
  <2> QED BY <1>5, <2>1, <2>2
<1> QED BY <1>5, <1>8, <1>9, <1>10 DEF Comes

LEMMA TurnConfigured ==
  ASSUME LayoutTyped, HostInv, DistinctEvents, NEW msg \in TurnType, Turned(msg),
         config' = TurnConfig(msg)
  PROVE  Configured' /\ OneAspect(TurnConfig(msg))
<1> DEFINE cfg == TurnConfig(msg)
<1>1. cfg \in Config
  BY TurnConfigTyped DEF LayoutTyped
<1>2. PICK n \in {0, 1} :
        /\ \A i \in DOMAIN inbox' : i + n \in DOMAIN inbox /\ inbox'[i] = inbox[i + n]
        /\ \A i \in DOMAIN inbox : i > n => i - n \in DOMAIN inbox'
        /\ n = 1 => 1 \in DOMAIN inbox /\ msg = inbox[1]
        /\ n = 0 => msg.type \in {"none", "claim"}
  BY TurnedQueue DEF LayoutTyped
<1>3. msg.type = "write" => msg.head \in Heads /\ msg.config \in Configs[msg.head]
  BY <1>2 DEF HostInv, Configured, TurnType, InboxType
<1>4. ASSUME NEW h \in Heads PROVE cfg[h] \in {InitConfig[h]} \cup Configs[h]
  <2>1. config[h] \in {InitConfig[h]} \cup Configs[h] /\ config \in Config
    BY DEF HostInv, Configured, LayoutTyped
  <2>2. cfg[h] = config[h] \/ (msg.type = "write" /\ h = msg.head /\ cfg[h] = msg.config)
    BY <2>1 DEF TurnConfig, Config
  <2> QED BY <1>3, <2>1, <2>2
<1>5. OneAspect(cfg)
  <2> DEFINE all == UNION {{InitConfig[h]} \cup Configs[h] : h \in Heads}
  <2>1. cfg \in [Heads -> all]
    <3>1. \A h \in Heads : cfg[h] \in all
      BY <1>4
    <3>2. cfg = [h \in Heads |-> cfg[h]]
      BY <1>1 DEF Config
    <3> HIDE DEF cfg, all
    <3> QED BY <3>1, <3>2
  <2> HIDE DEF cfg
  <2> QED BY <1>4, <2>1 DEF DistinctEvents
<1>6. \A i \in DOMAIN inbox' :
        inbox'[i].type = "write" => inbox'[i].config \in Configs[inbox'[i].head]
  BY <1>2 DEF HostInv, Configured
<1> HIDE DEF cfg
<1> QED BY <1>4, <1>5, <1>6 DEF Configured, cfg

LEMMA TurnKnows ==
  ASSUME LayoutInv, HostInv, DistinctEvents, NEW msg \in TurnType, Turned(msg),
         msg.type = "claim" => ~node.up, Run(msg)
  PROVE  HostInv'
<1> DEFINE cfg == TurnConfig(msg)
           k == Handle(cfg, node, msg)
           m == RunTimers(cfg, k)
           heads == Held(cfg)
<1>1. /\ node \in NodeType /\ node.bus = <<>> /\ config \in Config /\ cfg \in Config
      /\ LayoutTyped /\ InStep(config, node) /\ Complete(node)
  BY TurnConfigTyped DEF LayoutInv, LayoutTyped, AnswerInv
<1>2. After(msg, cfg, m)
  BY DEF Run, TurnConfig
<1>3. config' = cfg /\ node' = [m EXCEPT !.bus = <<>>, !.lost = {}]
      /\ host' = Hears(cfg, heads, m.bus)
  BY <1>2 DEF After, Held
<1>4. Configured' /\ OneAspect(cfg)
  BY <1>1, <1>3, TurnConfigured
<1>5. Named(cfg, heads)
  BY HeldNamed DEF HostInv
<1>6. Handled(cfg, heads, node, msg, k)
  BY <1>1, <1>4, <1>5, HandleHandled
<1>7. k \in NodeType /\ k.up = (IF msg.type = "claim" THEN TRUE ELSE node.up)
  <2>1. Moved(cfg, Begun(node, msg), k)
        /\ Begun(node, msg).up = (IF msg.type = "claim" THEN TRUE ELSE node.up)
    BY <1>1, HandleMoves, BegunTyped
  <2> QED BY <2>1 DEF Moved
<1>8. m \in NodeType /\ m.up = k.up /\ Extends(k.bus, m.bus)
  BY <1>1, <1>7, RunTimersMoves DEF Moved
<1>9. Told(cfg, IF Asks(node, msg) THEN 0 ELSE node.pos, m)
  BY <1>1, TurnMoves
<1>10. cfg = config \/ (msg.type = "write" /\ node.up)
  BY DEF TurnConfig
<1>11. Asks(node, msg) => Replied(k)
  BY <1>1, AskedReplies
<1>12. k.up => /\ m.enabled = k.enabled /\ Sound(m) /\ (m.local = <<>> \/ m.bus # <<>>)
               /\ \A h \in Heads : Informed(cfg, heads, k, h, k.aspect[h])
                                   /\ (Replied(m) => Silent(cfg, m.local, h))
                                     => Informed(cfg, heads, m, h, m.aspect[h])
  <2>1. Sound(k)
    BY <1>6 DEF Handled
  <2> HIDE DEF heads, k, cfg
  <2> QED BY <1>1, <1>4, <1>5, <1>7, <2>1, RunTimersInform
<1>13. ~k.up => m = k
  BY DEF RunTimers
<1> HIDE DEF cfg, k, m, heads
<1>14. /\ Replied(k) => Replied(m)
       /\ k.bus # <<>> => m.bus # <<>>
       /\ Replied(m) => m.bus # <<>>
  BY <1>7, <1>8, RepliesStay
<1>15. Sound(m) /\ m.enabled = k.enabled
  BY <1>6, <1>12, <1>13 DEF Handled
<1>16. m.local = <<>> \/ m.bus # <<>>
  <2>1. ~k.up => k.local = node.local /\ node.local = <<>>
    BY <1>6, <1>7 DEF Handled, HostInv
  <2> QED BY <1>12, <1>13, <2>1
<1>17. /\ node'.up = m.up /\ node'.local = m.local /\ node'.aspect = m.aspect
       /\ node'.enabled = m.enabled /\ node'.pos = m.pos
  BY <1>3, <1>8 DEF NodeType
<1>18. Named(config, host)'
  BY <1>3, <1>5, <1>8, <1>15, HearsNamed
<1>19. ASSUME NEW h \in Heads PROVE node'.enabled[h] = config'[h].enabled
  <2>1. k.enabled = IF msg.type = "write" /\ node.up THEN [g \in Heads |-> cfg[g].enabled]
                    ELSE node.enabled
    BY <1>6 DEF Handled
  <2> QED BY <1>3, <1>10, <1>15, <1>17, <2>1 DEF HostInv
<1>20. ~node'.up => node'.local = <<>>
  <2>1. ~k.up => m.bus = <<>>
    BY <1>6, <1>7, <1>13 DEF Handled
  <2> QED BY <1>8, <1>16, <1>17, <2>1
<1>21. ASSUME NEW h \in Heads \ crossed'
       PROVE  /\ ~Asks(node, msg) => h \notin crossed
              /\ \A id \in m.lost : ~About(cfg, h, id)
              /\ Replied(m) => Silent(cfg, node.local, h) /\ Silent(cfg, m.local, h)
              /\ m.bus # <<>> => Unreported(cfg, inbox', h)
  BY <1>2, TurnCrosses
<1>22. node'.local # <<>> => \A h \in Heads \ crossed' : Unreported(config', inbox', h)
  BY <1>3, <1>16, <1>17, <1>21
<1>23. ASSUME node'.up, NEW h \in Heads \ crossed'
       PROVE  Knows(config', host', node', inbox', h)
  <2> DEFINE b == host'[h]
  <2>1. k.up /\ (node.up \/ Asks(node, msg)) /\ (node.up \/ msg.type = "claim")
    BY <1>7, <1>8, <1>17, <1>23 DEF Asks
  <2>2. CASE Unreported(cfg, inbox', h)
    <3>1. Ready(cfg, heads, node, msg, h)
      BY <1>1, <1>21, <2>1, <2>2, ReadyTurn DEF heads
    <3>2. Informed(cfg, heads, k, h, k.aspect[h])
      BY <1>6, <1>14, <1>21, <2>1, <3>1 DEF Handled
    <3>3. Informed(cfg, heads, m, h, m.aspect[h])
      BY <1>12, <1>21, <2>1, <3>2
    <3>4. b = "unknown" \/ Due(cfg, m.local, h, m.aspect[h], b) \/ Unasked(m, h, b)
      BY <1>3, <1>21, <3>3 DEF Informed
    <3> HIDE DEF b
    <3>5. b = "unknown" \/ Due(cfg, node'.local, h, node'.aspect[h], b) \/ Unasked(node', h, b)
      BY <1>17, <3>4 DEF Unasked
    <3> QED BY <1>3, <2>2, <3>5 DEF Knows, Comes, b
  <2>3. CASE ~Unreported(cfg, inbox', h)
    <3>1. m.bus = <<>> /\ ~Replied(m) /\ ~Asks(node, msg) /\ h \notin crossed /\ node.up
      BY <1>11, <1>14, <1>21, <2>1, <2>3
    <3>2. b = heads[h]
      BY <1>3, <3>1, HearsNothing
    <3>3. heads[h] = IF cfg[h] = config[h] THEN host[h] ELSE "unknown"
      BY DEF heads, Held
    <3> HIDE DEF b
    <3>4. CASE b = "unknown"
      BY <3>4 DEF Knows, b
    <3>5. CASE b # "unknown"
      <4>1. cfg[h] = config[h] /\ b = host[h]
        BY <3>2, <3>3, <3>5
      <4>2. Comes(config, node, inbox, h, b) \/ Unasked(node, h, b)
        BY <3>1, <3>5, <4>1 DEF HostInv, Knows
      <4>3. CASE Comes(config, node, inbox, h, b)
        <5>1. ~Unreported(config, inbox', h)
          BY <2>3, <4>1, SameEvents
        <5>2. Comes(config, node', inbox', h, b)
          BY <1>1, <4>3, <5>1, BehindTurn
        <5>3. Comes(cfg, node', inbox', h, b)
          BY <4>1, <5>2, SameEvents
        <5> QED BY <1>3, <5>3 DEF Knows, b
      <4>4. CASE Unasked(node, h, b)
        <5>1. PICK i \in node.pos + 1..Len(Registry) : Registry[i] = HeadEntry(h, b)
          BY <4>4 DEF Unasked
        <5>2. node.pos \in Nat /\ m.pos \in Nat /\ Len(Registry) \in Nat
          BY <1>1, <1>8, RegistryTyped DEF NodeType
        <5>3. EventOf(cfg, h, b) # NoEvent
          BY <1>5, <3>2, <3>5 DEF Named
        <5>4. IdOf(cfg, Registry[i]) = EventOf(cfg, h, b)
          BY <5>1 DEF IdOf, HeadEntry
        <5>5. i \notin node.pos + 1..m.pos
          <6>1. ~\E j \in DOMAIN m.bus : m.bus[j][1] # Report
            BY <3>1 DEF Replied
          <6>2. Told(cfg, node.pos, m)
            BY <1>9, <3>1
          <6> QED BY <5>3, <5>4, <6>1, <6>2 DEF Told
        <5>6. i \in m.pos + 1..Len(Registry)
          BY <5>2, <5>5
        <5>7. Unasked(node', h, b)
          BY <1>17, <5>1, <5>6 DEF Unasked
        <5> QED BY <5>7 DEF Knows, b
      <4> QED BY <4>2, <4>3, <4>4
    <3> QED BY <3>4, <3>5
  <2> QED BY <2>2, <2>3
<1> QED BY <1>4, <1>18, <1>19, <1>20, <1>22, <1>23 DEF HostInv

\* A message that is not a report about head h changes nothing about what the reports said
LEMMA ComesAppend ==
  ASSUME NEW cfg, NEW queue \in Seq(InboxType), NEW x \in InboxType, NEW h, ~Reports(cfg, h, x)
  PROVE  /\ Unreported(cfg, queue, h) => Unreported(cfg, Append(queue, x), h)
         /\ \A m, b : Comes(cfg, m, queue, h, b) => Comes(cfg, m, Append(queue, x), h, b)
<1> DEFINE more == Append(queue, x)
<1>1. /\ DOMAIN queue \subseteq DOMAIN more /\ \A i \in DOMAIN queue : more[i] = queue[i]
      /\ \A i \in DOMAIN more : i \in DOMAIN queue \/ more[i] = x
  OBVIOUS
<1> HIDE DEF more
<1>2. Unreported(cfg, queue, h) => Unreported(cfg, more, h)
  BY <1>1 DEF Unreported
<1>3. ASSUME NEW m, NEW b, Comes(cfg, m, queue, h, b) PROVE Comes(cfg, m, more, h, b)
  <2>1. CASE Unreported(cfg, queue, h) /\ Due(cfg, m.local, h, m.aspect[h], b)
    BY <1>2, <2>1 DEF Comes
  <2>2. ASSUME b \in Aspects, NEW i \in DOMAIN queue, queue[i].type = "report",
               EventOf(cfg, h, b) = queue[i].id,
               \A j \in DOMAIN queue : j > i => ~Reports(cfg, h, queue[j])
        PROVE  Comes(cfg, m, more, h, b)
    <3>1. \A j \in DOMAIN more : j > i => ~Reports(cfg, h, more[j])
      BY <1>1, <2>2
    <3> QED BY <1>1, <2>2, <3>1 DEF Comes
  <2> QED BY <1>3, <2>1, <2>2 DEF Comes
<1> QED BY <1>2, <1>3 DEF more

\* What neither turns the task nor reports an event
LEMMA QuietStep ==
  ASSUME LayoutTyped, HostInv, UNCHANGED <<config, bus>>,
         node'.up = node.up, node'.local = node.local, node'.aspect = node.aspect,
         node'.enabled = node.enabled, node'.pos = node.pos, NEW x \in InboxType,
         x.type # "report", x.type = "write" => x.config \in Configs[x.head],
         inbox' = inbox \/ inbox' = Append(inbox, x)
  PROVE  HostInv'
<1>1. host' = host /\ crossed' = crossed /\ config' = config /\ inbox \in Seq(InboxType)
  BY DEF bus, LayoutTyped
<1>2. ASSUME NEW h
      PROVE  /\ Unreported(config, inbox, h) => Unreported(config, inbox', h)
             /\ \A m, b : Comes(config, m, inbox, h, b) => Comes(config, m, inbox', h, b)
  <2>1. ~Reports(config, h, x)
    BY DEF Reports
  <2> QED BY <1>1, <2>1, ComesAppend
<1>3. Configured'
  <2>1. \A i \in DOMAIN inbox' : (i \in DOMAIN inbox /\ inbox'[i] = inbox[i]) \/ inbox'[i] = x
    <3>1. CASE inbox' = inbox
      BY <3>1
    <3>2. CASE inbox' = Append(inbox, x)
      BY <1>1, <3>2
    <3> QED BY <3>1, <3>2
  <2> QED BY <1>1, <2>1 DEF HostInv, Configured
<1>4. node'.local # <<>> => \A h \in Heads \ crossed' : Unreported(config', inbox', h)
  BY <1>1, <1>2 DEF HostInv
<1>5. ASSUME node'.up, NEW h \in Heads \ crossed'
      PROVE  Knows(config', host', node', inbox', h)
  <2>1. Knows(config, host, node, inbox, h)
    BY <1>1, <1>5 DEF HostInv
  <2>2. Comes(config, node, inbox, h, host[h]) => Comes(config, node, inbox', h, host[h])
    BY <1>2
  <2>3. Comes(config, node, inbox', h, host[h]) => Comes(config, node', inbox', h, host[h])
    BY DEF Comes
  <2>4. Unasked(node, h, host[h]) => Unasked(node', h, host[h])
    BY DEF Unasked
  <2> QED BY <1>1, <2>1, <2>2, <2>3, <2>4 DEF Knows
<1> QED BY <1>1, <1>3, <1>4, <1>5 DEF HostInv

\* The host knows what it says
LEMMA ReportStep ==
  ASSUME LayoutTyped, HostInv, NEW id \in HostEvents, HostReports(id)
  PROVE  HostInv'
<1> DEFINE x == [type |-> "report", id |-> id]
<1>1. /\ UNCHANGED <<node, config>> /\ inbox \in Seq(InboxType)
      /\ inbox' = (IF Full THEN inbox ELSE Append(inbox, x))
      /\ host' = Believe(config, host, <<Report, id>>)
      /\ crossed' = (IF Full \/ node.local # <<>> THEN crossed \cup Concerned(config, {id})
                     ELSE crossed)
  BY DEF HostReports, Frame, LayoutTyped
<1>2. x \in InboxType /\ x.type = "report" /\ x.id = id /\ id \in Events /\ id # NoEvent
  BY LayoutAssumption DEF InboxType
<1> HIDE DEF x
<1>3. Named(config, host)'
  <2> DEFINE msg == <<Report, id>>
  <2>1. msg[2] # NoEvent
    BY <1>2
  <2> HIDE DEF msg
  <2>2. Named(config, Believe(config, host, msg))
    BY <2>1, BelieveNamed DEF HostInv
  <2> QED BY <1>1, <2>2 DEF msg
<1>4. Configured'
  <2>1. \A i \in DOMAIN inbox' : (i \in DOMAIN inbox /\ inbox'[i] = inbox[i]) \/ inbox'[i] = x
    <3>1. CASE inbox' = inbox
      BY <3>1
    <3>2. CASE inbox' = Append(inbox, x)
      BY <1>1, <3>2
    <3> QED BY <1>1, <3>1, <3>2
  <2> QED BY <1>1, <1>2, <2>1 DEF HostInv, Configured
<1>5. ASSUME NEW h \in Heads \ crossed'
      PROVE  h \in Heads \ crossed /\ (About(config, h, id) => ~Full /\ node.local = <<>>)
  <2>1. About(config, h, id) => h \in Concerned(config, {id})
    BY ConcernedIs
  <2> QED BY <1>1, <2>1
<1>6. ASSUME NEW h, ~About(config, h, id)
      PROVE  /\ Unreported(config, inbox, h) => Unreported(config, inbox', h)
             /\ \A m, b : Comes(config, m, inbox, h, b) => Comes(config, m, inbox', h, b)
  <2>1. ~Reports(config, h, x)
    BY <1>2, <1>6 DEF Reports
  <2>2. CASE inbox' = inbox
    BY <2>2
  <2>3. CASE inbox' = Append(inbox, x)
    BY <1>1, <1>2, <2>1, <2>3, ComesAppend
  <2> QED BY <1>1, <2>2, <2>3
<1>7. node'.local # <<>> => \A h \in Heads \ crossed' : Unreported(config', inbox', h)
  BY <1>1, <1>5, <1>6 DEF HostInv
<1>8. ASSUME node'.up, NEW h \in Heads \ crossed'
      PROVE  Knows(config', host', node', inbox', h)
  <2>1. IF About(config, h, id) THEN host'[h] \in Aspects /\ EventOf(config, h, host'[h]) = id
        ELSE host'[h] = host[h]
    BY <1>1, BelieveReport
  <2>2. CASE About(config, h, id)
    <3>1. inbox' = Append(inbox, x)
      BY <1>1, <1>5, <2>2
    <3>2. Len(inbox) + 1 \in DOMAIN inbox' /\ inbox'[Len(inbox) + 1] = x
          /\ \A j \in DOMAIN inbox' : ~(j > Len(inbox) + 1)
      BY <1>1, <3>1
    <3>3. Comes(config, node', inbox', h, host'[h])
      BY <1>2, <2>1, <2>2, <3>2 DEF Comes
    <3> QED BY <1>1, <3>3 DEF Knows
  <2>3. CASE ~About(config, h, id)
    <3>1. Knows(config, host, node, inbox, h)
      BY <1>1, <1>5, <1>8 DEF HostInv
    <3>2. Comes(config, node, inbox, h, host[h]) => Comes(config, node, inbox', h, host[h])
      BY <1>6, <2>3
    <3> QED BY <1>1, <2>1, <2>3, <3>1, <3>2 DEF Knows
  <2> QED BY <2>2, <2>3
<1> QED BY <1>1, <1>3, <1>4, <1>7, <1>8 DEF HostInv

LEMMA InitHost == Init => HostInv
<1> SUFFICES ASSUME Init PROVE HostInv
  OBVIOUS
<1> DEFINE blank ==
      [up |-> FALSE, local |-> <<>>, pos |-> 0, identifying |-> FALSE, rested |-> FALSE,
       bus |-> <<>>, lost |-> {},
       closed |-> [i \in 1..S |-> TRUE], pressed |-> FALSE,
       aspect |-> [h \in Heads |-> "dark"], enabled |-> [h \in Heads |-> FALSE],
       flash |-> FALSE, lit |-> FALSE, pixel |-> [h \in Heads |-> "none"]]
<1>1. config = InitConfig /\ inbox = <<>> /\ crossed = {} /\ host = [h \in Heads |-> "unknown"]
      /\ node = ApplyConfig(blank, config) /\ config \in Config
  BY LayoutAssumption DEF Init, NewNode, Config, Ids
<1>2. blank \in NodeType
  <2>1. "dark" \in Aspects /\ "none" \in Lamps
    BY AspectsTyped DEF Lamps
  <2>2. 0 \in 0..Len(Registry)
    BY RegistryTyped
  <2> QED BY <2>1, <2>2 DEF NodeType
<1>3. blank.up = FALSE /\ blank.local = <<>>
  OBVIOUS
<1> HIDE DEF blank
<1>4. node.up = FALSE /\ node.local = <<>> /\ node.enabled = [h \in Heads |-> config[h].enabled]
  BY <1>1, <1>2, <1>3, ApplyConfigShows, ApplyConfigSets
<1>5. Configured
  BY <1>1 DEF Configured
<1>6. Named(config, host)
  BY <1>1 DEF Named
<1> QED BY <1>1, <1>4, <1>5, <1>6 DEF HostInv

LEMMA NextHost ==
  ASSUME DistinctEvents, LayoutInv, HostInv, [Next]_vars
  PROVE  HostInv'
<1>1. LayoutTyped /\ inbox \in Seq(InboxType) /\ node \in NodeType
  BY DEF LayoutInv, LayoutTyped
<1>2. [type |-> "tick"] \in InboxType /\ [type |-> "tick"].type = "tick"
  BY DEF InboxType
<1>3. CASE Take
  <2> DEFINE msg == Head(inbox)
  <2>1. msg \in InboxType /\ Turned(msg) /\ Run(msg)
    BY <1>1, <1>3 DEF Take, Turned
  <2>2. msg \in TurnType /\ msg.type # "claim"
    BY <2>1 DEF TurnType, InboxType
  <2> HIDE DEF msg
  <2> QED BY <2>1, <2>2, TurnKnows
<1>4. CASE Wake
  <2> DEFINE msg == [type |-> "none"]
  <2>1. msg \in TurnType /\ msg.type = "none" /\ Run(msg) /\ inbox' = inbox
    BY <1>4 DEF Wake, TurnType
  <2> HIDE DEF msg
  <2> QED BY <2>1, TurnKnows DEF Turned
<1>5. CASE Claim
  <2> DEFINE msg == [type |-> "claim"]
  <2>1. msg \in TurnType /\ msg.type = "claim" /\ Run(msg) /\ inbox' = inbox /\ ~node.up
    BY <1>5 DEF Claim, TurnType
  <2> HIDE DEF msg
  <2> QED BY <2>1, TurnKnows DEF Turned
<1>6. CASE Rest
  <2>1. /\ node'.up = node.up /\ node'.local = node.local /\ node'.aspect = node.aspect
        /\ node'.enabled = node.enabled /\ node'.pos = node.pos
        /\ UNCHANGED <<config, bus>> /\ inbox' = inbox
    BY <1>1, <1>6 DEF Rest, NodeType
  <2> QED BY <1>1, <1>2, <2>1, QuietStep
<1>7. CASE FlashTimer \/ InputsStart \/ Change \/ Debounce
  <2>1. UNCHANGED <<node, config, bus>>
    BY <1>7 DEF FlashTimer, InputsStart, Change, Debounce
  <2> DEFINE level == [type |-> "settled", low |-> pin]
  <2>2. inbox' = inbox \/ inbox' = Append(inbox, [type |-> "tick"])
        \/ inbox' = Append(inbox, level)
    BY <1>7 DEF FlashTimer, InputsStart, Change, Debounce, RearmFirst, PostLevel
  <2>3. level \in InboxType /\ level.type = "settled"
    BY <1>1 DEF InboxType, LayoutTyped
  <2> HIDE DEF level
  <2> QED BY <1>1, <1>2, <2>1, <2>2, <2>3, QuietStep
<1>8. CASE \E id \in HostEvents : HostReports(id)
  BY <1>1, <1>8, ReportStep
<1>9. ASSUME NEW msg \in HostRequests, HostAsks(msg) PROVE HostInv'
  <2>1. msg \in InboxType /\ msg.type \in {"identify", "matching"}
    BY LayoutAssumption DEF InboxType
  <2>2. UNCHANGED <<node, config, bus>> /\ (inbox' = inbox \/ inbox' = Append(inbox, msg))
    BY <1>9 DEF HostAsks, Frame
  <2> QED BY <1>1, <2>1, <2>2, QuietStep
<1>10. ASSUME NEW h \in Heads, NEW c \in Configs[h], HostWrites(h, c) PROVE HostInv'
  <2> DEFINE x == [type |-> "write", head |-> h, config |-> c]
  <2>1. x \in InboxType /\ x.type = "write" /\ x.config \in Configs[x.head]
    BY LayoutAssumption DEF InboxType, Ids
  <2>2. UNCHANGED <<node, config, bus>> /\ (inbox' = inbox \/ inbox' = Append(inbox, x))
    BY <1>10 DEF HostWrites, Frame
  <2> HIDE DEF x
  <2> QED BY <1>1, <2>1, <2>2, QuietStep
<1>11. CASE UNCHANGED vars
  <2>1. UNCHANGED <<node, config, bus>> /\ inbox' = inbox
    BY <1>11 DEF vars
  <2> QED BY <1>1, <1>2, <2>1, QuietStep
<1> QED BY <1>3, <1>4, <1>5, <1>6, <1>7, <1>8, <1>9, <1>10, <1>11 DEF Next

\* Whenever nothing is on its way, the host is right about every head it believes to know
\* (events.c:24, 121), but for one of whose events it was told that they crossed, were
\* overtaken or were lost: for any number of heads, any lengths of the queues and of a
\* batch, and whatever the host sends, asks and writes, as long as no event stands for two
\* aspects.
THEOREM HostIsRight == DistinctEvents /\ Spec => []HostKnows
<1>1. DistinctEvents /\ LayoutInv /\ HostInv => HostKnows
  <2> SUFFICES ASSUME LayoutInv, HostInv, inbox = <<>>, node.up, node.local = <<>>,
                      ~node.identifying, NEW h \in Heads \ crossed
               PROVE  host[h] \in {"unknown", node.aspect[h]}
    BY DEF HostKnows
  <2>1. node.pos = Len(Registry) /\ Len(Registry) \in Nat
    BY RegistryTyped DEF LayoutInv, AnswerInv, Complete
  <2>2. ~Unasked(node, h, host[h])
    BY <2>1 DEF Unasked
  <2>3. Knows(config, host, node, inbox, h)
    BY DEF HostInv
  <2> QED BY <2>2, <2>3 DEF Knows, Comes, Due
<1>2. Init => HostInv
  BY InitHost
<1>3. DistinctEvents /\ LayoutInv /\ HostInv /\ [Next]_vars => HostInv'
  BY NextHost
<1>4. DistinctEvents /\ [Next]_vars => DistinctEvents'
  BY DEF DistinctEvents, OneAspect, EventOf, CanShow
<1> QED BY <1>1, <1>2, <1>3, <1>4, LayoutInvariant, PTL DEF Spec
=============================================================================
