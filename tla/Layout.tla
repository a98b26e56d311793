------------------------------- MODULE Layout -------------------------------
(***************************************************************************)
(* A node at work on a layout: a fascia input (src/app/inputs.c), switch   *)
(* machines that move at once (throw_time 0), signal heads wired to their  *)
(* feedback (module SignalHeads), and the event exchange that connects     *)
(* them (module EventExchange), in the LCC task (src/lcc_task.c) with its  *)
(* queue; and a host on the bus that sends events, asks what is what, and  *)
(* keeps in mind which aspect each head shows.                             *)
(*                                                                         *)
(* The task takes one message at a time and then runs the timers, so the   *)
(* node's own events reach its consumers between two messages.  What the   *)
(* node sends is on the bus at once; what the host sends waits in the      *)
(* queue, which may be too full for it.                                    *)
(***************************************************************************)
EXTENDS SignalHeads

CONSTANTS
  Events,        \* the event IDs
  S,             \* number of switches
  Command,       \* Command[i][c]: the event that closes (c) or throws switch i
  Feedback,      \* Feedback[i][c]: the event that says it is closed or thrown
  HostEvents,    \* the events the host sends
  HostRequests,  \* its Identify requests
  InitConfig,    \* InitConfig[h]: the configuration of head h at first
  Configs,       \* Configs[h]: the configurations the host writes for head h
  InboxLen,      \* QUEUE_LEN
  MaxEvents,     \* bound: events the host sends
  MaxRequests,   \* bound: how many of these
  MaxWrites,     \* bound: its configuration writes
  MaxChanges     \* bound: changes of the input

ASSUME LayoutAssumption ==
  /\ NoEvent \notin Events
  /\ S \in Nat \ {0}
  /\ {Command, Feedback} \subseteq [1..S -> [BOOLEAN -> Events]]
  /\ HostEvents \subseteq Events
  /\ HostRequests \subseteq [type : {"identify"}] \cup
                            [type : {"matching"}, id : Events, producers : BOOLEAN]
  /\ InitConfig \in [Heads -> HeadConfig(Events \cup {NoEvent})]
  /\ \A h \in Heads : Configs[h] \subseteq HeadConfig(Events \cup {NoEvent})
  /\ InboxLen \in Nat \ {0}
  /\ {MaxEvents, MaxRequests, MaxWrites, MaxChanges} \subseteq Nat

VARIABLES
  node,      \* what EventExchange and SignalHeads say of it, and the fields
             \*   closed[i]   switch i is closed, else thrown
             \*   pressed     the input, as last settled
  config,    \* config[h]: the configuration of head h
  inbox,     \* the queue of the LCC task
  pin,       \* the input is low, which is pressed
  started,   \* inputs_start has run
  edges,     \* its interrupt is enabled
  timer,     \* its debounce timer runs
  reading,   \* debounce_cb has re-armed the interrupt and not read the level yet
  unseen,    \* history: a change before inputs_start was not seen, or a level not taken
  host,      \* host[h]: the aspect the host believes head h shows, or "unknown"
  answered,  \* the events answered for since the last Identify request
  crossed,   \* history: the heads for which an event of the node crossed one of the
             \* host's or a batch, or was lost, since the last Identify request
  stirred,   \* history: the configuration changed since the last Identify request
  counts     \* what has happened so far

input == <<pin, started, edges, timer, reading, unseen>>
bus == <<host, answered, crossed, stirred>>
vars == <<node, config, inbox, input, bus, counts>>

-----------------------------------------------------------------------------
(* The registry *)

CommandEntry(i, c) == [kind |-> "command", switch |-> i, closed |-> c]
FeedbackEntry(i, c) == [kind |-> "feedback", switch |-> i, closed |-> c]
HeadEntry(h, a) == [kind |-> "head", head |-> h, aspect |-> a]

\* The order of registration: register_events for each switch, then signals_init
Registry ==
  [i \in 1..4 * S + H * Len(Aspect) |->
     IF i <= 4 * S
     THEN LET k == (i - 1) % 4
              switch == (i - 1) \div 4 + 1
          IN  IF k < 2 THEN CommandEntry(switch, k = 1) ELSE FeedbackEntry(switch, k = 3)
     ELSE LET k == i - 4 * S - 1
          IN  HeadEntry(k \div Len(Aspect) + 1, Aspect[(k % Len(Aspect)) + 1])]

IdOf(cfg, r) ==
  CASE r.kind = "command"  -> Command[r.switch][r.closed]
    [] r.kind = "feedback" -> Feedback[r.switch][r.closed]
    [] r.kind = "head"     -> EventOf(cfg, r.head, r.aspect)

\* command_state, feedback_state (a switch that moves at once) and aspect_state
StateOf(m, r) ==
  LET holds == IF r.kind = "head" THEN m.aspect[r.head] = r.aspect
               ELSE m.closed[r.switch] = r.closed
  IN  IF holds THEN "valid" ELSE "invalid"

Entries(cfg, m) ==
  [i \in DOMAIN Registry |-> [id |-> IdOf(cfg, Registry[i]),
                              producer |-> Registry[i].kind = "feedback",
                              valid |-> StateOf(m, Registry[i])]]

\* move, with throw_time 0
Move(m, i, c) == EventSend([m EXCEPT !.closed[i] = c], Feedback[i][c])

\* on_event of a consumer
OnEvent(cfg, m, r) ==
  IF r.kind = "command" THEN Move(m, r.switch, r.closed) ELSE OnAspect(m, cfg, r.head, r.aspect)

\* consume: every consumer of the event, in order
Consume(cfg, m, id) ==
  LET after[i \in 0..Len(Registry)] ==
        IF i = 0 THEN m
        ELSE IF Registry[i].kind # "feedback" /\ IdOf(cfg, Registry[i]) = id
        THEN OnEvent(cfg, after[i - 1], Registry[i])
        ELSE after[i - 1]
  IN  after[Len(Registry)]

\* identify_matching, for producers or consumers of an event
IdentifyMatching(cfg, m, id, producers) ==
  LET entries == Entries(cfg, m)
  IN  SendIdentified(m, entries,
        {i \in DOMAIN entries : entries[i].producer = producers /\ entries[i].id = id})

-----------------------------------------------------------------------------
(* The LCC task *)

Full == Len(inbox) = InboxLen
Queued(type) == \E i \in DOMAIN inbox : inbox[i].type = type

\* settled, with the press handler: turnouts_input_pressed, for switch 1
Settled(m, low) ==
  IF low = m.pressed THEN m
  ELSE LET k == [m EXCEPT !.pressed = low] IN IF low THEN Move(k, 1, ~m.closed[1]) ELSE k

\* A frame is handled only by a node with an alias, a call by any.  A claimed
\* alias begins with an Identify of its own.  A datagram that writes the
\* configuration has been taken into `cfg`.
Handle(cfg, m, msg) ==
  CASE msg.type = "tick"              -> FlashTick(m, cfg)
    [] msg.type = "settled"           -> Settled(m, msg.low)
    [] msg.type = "claim"             -> IdentifyAll([m EXCEPT !.up = TRUE], Entries(cfg, m))
    [] msg.type = "write" /\ m.up     -> ApplyConfig(m, cfg)
    [] msg.type = "report" /\ m.up    -> Consume(cfg, m, msg.id)
    [] msg.type = "identify" /\ m.up  -> IdentifyAll(m, Entries(cfg, m))
    [] msg.type = "matching" /\ m.up  -> IdentifyMatching(cfg, m, msg.id, msg.producers)
    [] OTHER                          -> m

\* Own events for the consumers, only those that wait now
Drain(cfg, m) ==
  LET after[i \in 0..Len(m.local)] ==
        IF i = 0 THEN m
        ELSE Consume(cfg, [after[i - 1] EXCEPT !.local = Tail(@)], Head(after[i - 1].local))
  IN  after[Len(m.local)]

\* The next batch of an Identify, when its time has come
NextBatch(cfg, m) == IF m.identifying /\ m.rested THEN Batch(m, Entries(cfg, m)) ELSE m

\* A bug to catch: the next batch goes out before the node has heard itself
BatchFirst(cfg, m) == IF m.up THEN Drain(cfg, NextBatch(cfg, m)) ELSE m

\* lcc_events_run_timers
RunTimers(cfg, m) == IF m.up THEN NextBatch(cfg, Drain(cfg, m)) ELSE m

\* What the host makes of a message
Believe(cfg, heads, msg) ==
  LET is == [h \in Heads |-> {a \in Aspects : EventOf(cfg, h, a) = msg[2]}]
  IN  [h \in Heads |->
         IF is[h] = {} THEN heads[h]
         ELSE IF msg[1] \in {Report, IdentifiedMti(FALSE, "valid")} THEN CHOOSE a \in is[h] : TRUE
         ELSE IF msg[1] = IdentifiedMti(FALSE, "invalid") /\ heads[h] \in is[h] THEN "unknown"
         ELSE heads[h]]

\* What it knows after these messages
Hears(cfg, heads, said) ==
  LET after[i \in 0..Len(said)] ==
        IF i = 0 THEN heads ELSE Believe(cfg, after[i - 1], said[i])
  IN  after[Len(said)]

\* The heads some of these events are about
Concerned(cfg, ids) == {h \in Heads : \E a \in Aspects, id \in ids : EventOf(cfg, h, a) = id}

\* The events reported in a queue
Coming(queue) == {msg.id : msg \in {msg \in ToSet(queue) : msg.type = "report"}}

\* What the turn of the task that ends in `m` does to the rest
After(msg, cfg, m) ==
  LET asks    == msg.type = "claim" \/ (msg.type = "identify" /\ node.up)
      replies == {i \in DOMAIN m.bus : m.bus[i][1] # Report}
      heads   == [h \in Heads |-> IF cfg[h] = config[h] THEN host[h] ELSE "unknown"]
  IN  /\ config' = cfg
      /\ node' = [m EXCEPT !.bus = <<>>, !.lost = {}]
      /\ host' = Hears(cfg, heads, m.bus)
      /\ answered' = (IF asks THEN {} ELSE answered) \cup
                     {<<m.bus[i][1][1], m.bus[i][2]>> : i \in replies}
      /\ stirred' = (cfg # config \/ (stirred /\ ~asks))
      /\ crossed' =
           (IF asks THEN {} ELSE crossed) \cup
           Concerned(cfg, m.lost
             \cup (IF replies # {} THEN ToSet(node.local) \cup ToSet(m.local) ELSE {})
             \cup (IF node.up THEN {} ELSE Coming(<<msg>>))
             \cup (IF m.bus # <<>> THEN Coming(inbox') ELSE {}))

\* One turn of the task: a message, or none, and then the timers
Run(msg) ==
  LET cfg == IF msg.type = "write" /\ node.up
             THEN [config EXCEPT ![msg.head] = msg.config] ELSE config
  IN  \E m \in {RunTimers(cfg, Handle(cfg, node, msg))} : After(msg, cfg, m)

\* It takes a message from its queue
Take ==
  /\ inbox # <<>>
  /\ inbox' = Tail(inbox)
  /\ Run(Head(inbox))
  /\ UNCHANGED <<input, counts>>

\* A timer of the library wakes it
Wake ==
  /\ inbox = <<>>
  /\ node.up /\ (node.local # <<>> \/ (node.identifying /\ node.rested))
  /\ UNCHANGED <<inbox, input, counts>>
  /\ Run([type |-> "none"])

\* CID_WAIT_MS have passed without objection: claim_alias
Claim ==
  /\ ~node.up
  /\ UNCHANGED <<inbox, input, counts>>
  /\ Run([type |-> "claim"])

\* IDENTIFY_BATCH_MS pass
Rest ==
  /\ node.identifying /\ ~node.rested
  /\ node' = [node EXCEPT !.rested = TRUE]
  /\ UNCHANGED <<config, inbox, input, bus, counts>>

-----------------------------------------------------------------------------
(* The rest of the node *)

\* flash_timer_cb; a tick that finds no room is dropped.  Bound: one in the queue
FlashTimer ==
  /\ node.flash /\ ~Full /\ ~Queued("tick")
  /\ inbox' = Append(inbox, [type |-> "tick"])
  /\ UNCHANGED <<node, config, input, bus, counts>>

\* inputs_start
InputsStart ==
  /\ ~started /\ started' = TRUE
  /\ edges' = TRUE
  /\ UNCHANGED <<node, config, inbox, pin, timer, reading, unseen, bus, counts>>

\* The level changes; edge_irq if its interrupt is enabled
Change ==
  /\ counts.changes < MaxChanges /\ counts' = [counts EXCEPT !.changes = @ + 1]
  /\ pin' = ~pin
  /\ edges' = FALSE
  /\ timer' = (timer \/ edges)
  /\ unseen' = (unseen \/ ~started)
  /\ UNCHANGED <<node, config, inbox, started, reading, bus>>

\* lcc_task_call of settled with the level now
PostLevel ==
  IF Full THEN unseen' = TRUE /\ UNCHANGED inbox
  ELSE unseen' = FALSE /\ inbox' = Append(inbox, [type |-> "settled", low |-> pin])

\* A bug to catch: the level is read before the interrupt is re-armed
ReadFirst ==
  \/ timer /\ ~reading /\ timer' = FALSE /\ reading' = TRUE /\ PostLevel /\ UNCHANGED edges
  \/ reading /\ reading' = FALSE /\ edges' = TRUE /\ UNCHANGED <<timer, inbox, unseen>>

\* debounce_cb: re-arm, then read, so that a change after the read starts anew
RearmFirst ==
  \/ timer /\ ~reading /\ timer' = FALSE /\ reading' = TRUE /\ edges' = TRUE
     /\ UNCHANGED <<inbox, unseen>>
  \/ reading /\ reading' = FALSE /\ PostLevel /\ UNCHANGED <<timer, edges>>

Debounce ==
  /\ RearmFirst
  /\ UNCHANGED <<node, config, pin, started, bus, counts>>

-----------------------------------------------------------------------------
(* The host *)

\* It sends a frame, which is dropped if it finds no room
Frame(msg) == inbox' = IF Full THEN inbox ELSE Append(inbox, msg)

HostReports(id) ==
  /\ counts.events < MaxEvents /\ counts' = [counts EXCEPT !.events = @ + 1]
  /\ Frame([type |-> "report", id |-> id])
  /\ host' = Believe(config, host, <<Report, id>>)
  /\ crossed' = (IF Full \/ node.local # <<>> THEN crossed \cup Concerned(config, {id})
                 ELSE crossed)
  /\ UNCHANGED <<node, config, input, answered, stirred>>

\* Identify Events, for all of them or for the producers or consumers of one
HostAsks(msg) ==
  /\ counts.requests < MaxRequests /\ counts' = [counts EXCEPT !.requests = @ + 1]
  /\ Frame(msg)
  /\ UNCHANGED <<node, config, input, bus>>

HostWrites(h, c) ==
  /\ counts.writes < MaxWrites /\ counts' = [counts EXCEPT !.writes = @ + 1]
  /\ Frame([type |-> "write", head |-> h, config |-> c])
  /\ UNCHANGED <<node, config, input, bus>>

-----------------------------------------------------------------------------
NewNode(cfg, low) ==
  ApplyConfig(
    [up |-> FALSE, local |-> <<>>, pos |-> 0, identifying |-> FALSE, rested |-> FALSE,
     bus |-> <<>>, lost |-> {},
     closed |-> [i \in 1..S |-> TRUE], pressed |-> low,
     aspect |-> [h \in Heads |-> "dark"], enabled |-> [h \in Heads |-> FALSE],
     flash |-> FALSE, lit |-> FALSE, pixel |-> [h \in Heads |-> "none"]], cfg)

Init ==
  /\ config = InitConfig
  /\ pin = FALSE
  /\ node = NewNode(config, pin)
  /\ inbox = <<>>
  /\ started = FALSE /\ edges = FALSE /\ timer = FALSE /\ reading = FALSE /\ unseen = FALSE
  /\ host = [h \in Heads |-> "unknown"]
  /\ answered = {}
  /\ crossed = {} /\ stirred = FALSE
  /\ counts = [events |-> 0, requests |-> 0, writes |-> 0, changes |-> 0]

Next ==
  \/ Take \/ Wake \/ Claim \/ Rest
  \/ FlashTimer \/ InputsStart \/ Change \/ Debounce
  \/ \E id \in HostEvents : HostReports(id)
  \/ \E msg \in HostRequests : HostAsks(msg)
  \/ \E h \in Heads : \E c \in Configs[h] : HostWrites(h, c)

Spec == Init /\ [][Next]_vars

-----------------------------------------------------------------------------
(* Properties *)

\* When nothing is on its way, the host is right about every head it believes to
\* know, whether from events or from the answers to an Identify, batch by batch
\* (events.c:24, 121); but for a head one of whose events crossed another, was
\* overtaken by a batch or was lost in a full queue since the host last asked.
HostKnows ==
  inbox = <<>> /\ node.up /\ node.local = <<>> /\ ~node.identifying =>
    \A h \in Heads \ crossed : host[h] \in {"unknown", node.aspect[h]}

\* No event stands for two aspects, of one head or of two, in any configuration the host
\* can write: it could not tell which of them a message is about.
OneAspect(cfg) ==
  \A h, g \in Heads, a, b \in Aspects :
    EventOf(cfg, h, a) = EventOf(cfg, g, b) /\ EventOf(cfg, h, a) # NoEvent => h = g /\ a = b

DistinctEvents ==
  \A cfg \in [Heads -> UNION {{InitConfig[h]} \cup Configs[h] : h \in Heads}] :
    (\A h \in Heads : cfg[h] \in {InitConfig[h]} \cup Configs[h]) => OneAspect(cfg)

\* Each chip shows the aspect of its head, and those that flash do so together
\* (signals.c:39), whenever the timer started or a tick was late.
HeadsInStep == \A h \in Heads : node.pixel[h] = Shown(node, h, config[h].lamps)

\* An input at rest has been taken as it is: a change after the level was read starts
\* a new cycle (inputs.c:34), unless the queue had no room for the level.
InputAgrees ==
  edges /\ ~timer /\ ~reading /\ ~Queued("settled") /\ ~unseen => node.pressed = pin

\* Between two Identifies, every event in use has been answered for since the later
\* request, or since the alias was claimed, also when the request came in the middle
\* of an answer to another (events.c:121), unless the configuration changed meanwhile.
AllAnswered ==
  node.up /\ ~node.identifying /\ ~stirred =>
    \A i \in DOMAIN Registry :
      LET e == Entries(config, node)[i]
      IN  e.id # NoEvent => <<IF e.producer THEN "producer" ELSE "consumer", e.id>> \in answered
=============================================================================
