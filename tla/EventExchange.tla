---------------------------- MODULE EventExchange ----------------------------
(***************************************************************************)
(* The events of a node, lib/lcc/src/events.c: what it sends, what its own *)
(* consumers get of that, and how it answers an Identify.                  *)
(*                                                                         *)
(* Operators on the state of the node, a record `n` with the fields        *)
(*   up           it has an alias                                          *)
(*   local        the events it sent that its own consumers have yet to get *)
(*   pos          how many entries the Identify in progress has passed     *)
(*   identifying  it has more to pass                                      *)
(*   rested       IDENTIFY_BATCH_MS have passed since the last batch       *)
(*   bus          the messages sent in this step, each <<MTI, event ID>>   *)
(*   lost         history: the events the local queue was too full for in  *)
(*                this step                                                *)
(* and whatever the application adds.  An `entry` of the registry is a     *)
(* record of its event ID, its side (`producer` or not) and its state now. *)
(***************************************************************************)
EXTENDS Naturals, Sequences, FiniteSets, SequencesExt

CONSTANTS
  LocalQueueLen,  \* LOCAL_QUEUE_LEN
  IdentifyBatch,  \* IDENTIFY_BATCH: entries answered at a time
  NoEvent         \* the event ID of all zeros

ASSUME EventAssumption ==
  LocalQueueLen \in Nat \ {0} /\ IdentifyBatch \in Nat \ {0}

\* lcc_send_global
SendGlobal(n, mti, id) == [n EXCEPT !.bus = Append(@, <<mti, id>>)]

\* The MTI of an event report
Report == <<"report">>

\* lcc_event_send: to the bus, and to the own consumers as far as there is room
EventSend(n, id) ==
  LET sent == SendGlobal(n, Report, id)
  IN  IF ~n.up \/ id = NoEvent THEN n
      ELSE IF Len(n.local) < LocalQueueLen THEN [sent EXCEPT !.local = Append(@, id)]
      ELSE [sent EXCEPT !.lost = @ \cup {id}]

\* identified_mti and send_identified; `valid` is "valid", "invalid" or "unknown"
IdentifiedMti(producer, valid) == <<IF producer THEN "producer" ELSE "consumer", valid>>

Identified(entry) == <<IdentifiedMti(entry.producer, entry.valid), entry.id>>

\* For the entries of a set, in their order
SendIdentified(n, entries, set) ==
  LET nth(k) == CHOOSE i \in set : Cardinality({j \in set : j <= i}) = k
  IN  [n EXCEPT !.bus = @ \o [k \in 1..Cardinality(set) |-> Identified(entries[nth(k)])]]

\* The entries a batch that starts after entry n.pos may answer
Unanswered(n, entries) == {i \in n.pos + 1..Len(entries) : entries[i].id # NoEvent}

\* Where it ends: at the last of IdentifyBatch answers, or the end of the registry
BatchEnd(n, entries) ==
  LET open == Unanswered(n, entries)
  IN  IF Cardinality(open) < IdentifyBatch THEN Len(entries)
      ELSE CHOOSE i \in open : Cardinality({j \in open : j <= i}) = IdentifyBatch

\* identify_batch
Batch(n, entries) ==
  LET last == BatchEnd(n, entries)
  IN  [SendIdentified(n, entries, {i \in Unanswered(n, entries) : i <= last}) EXCEPT
         !.pos = last, !.identifying = last < Len(entries), !.rested = FALSE]

\* A bug to catch: a request in the middle of another goes on where that one was
IdentifyRest(n, entries) ==
  Batch(IF n.identifying THEN n ELSE [n EXCEPT !.pos = 0], entries)

\* lcc_events_identify_all: a new request starts over
IdentifyAll(n, entries) == Batch([n EXCEPT !.pos = 0], entries)
=============================================================================
