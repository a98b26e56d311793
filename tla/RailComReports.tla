--------------------------- MODULE RailComReports ---------------------------
(***************************************************************************)
(* What the bus hears of the RailCom detector: src/app/railcom_app.c in    *)
(* the LCC task, over the calls the detector of module RailCom posts.      *)
(*                                                                         *)
(* A track reports the locomotive that enters or leaves it, by its address *)
(* and the way it faces, and that it is occupied or clear.  The same facts *)
(* answer an Identify Producer.  A call that does not fit the queue is not *)
(* repeated, and a node without an alias sends no events (events.c:220).   *)
(*                                                                         *)
(* Around it: locomotives that come and go on the tracks, answer a cutout  *)
(* or not, and a track signal that may stop.                               *)
(***************************************************************************)
EXTENDS RailCom

CONSTANTS
  Trains,      \* the locomotives: high and low half of the address, and the
               \* direction their current takes
  Rails,       \* what configuration writes say of the sensed rail
  MaxVisits,   \* bound: locomotives put on a track
  MaxLapses,   \* bound: cutouts a locomotive on the track is not heard in
  MaxWrites    \* bound: configuration writes

Orients == {"A", "B", "unknown"}

ASSUME ReportsAssumption ==
  /\ Trains \subseteq [hi : 0..255, lo : 0..255, orient : Orients]
  /\ \A l \in Trains : AssembleAddress(l.hi, l.lo) # NoAddress
  /\ Rails \subseteq {"off", "A", "B"}
  /\ {MaxVisits, MaxLapses, MaxWrites} \subseteq Nat

VARIABLES
  track,      \* track[t]: known, occupied, the locomotive, the entry report sent
  rail,       \* rail[t]: the rail the configuration says is sensed, or "off"
  up,         \* the node has an alias
  told,       \* told[t]: the last report the bus had of each locomotive
  state,      \* state[t]: "occupied", "clear" or "unknown" to the bus
  missed,     \* history: missed[t], an event was due while there was no alias
  on,         \* on[t]: the locomotive on the track, or Nothing
  ear,        \* ear[t]: how the answers from the track went
  silence,    \* silence[t]: ticks cutouts have arrived without an answer
  lost,       \* history: lost[t], the last call did not fit the queue
  visits, lapses, writes   \* what has happened so far

app == <<track, rail, up, told, state, missed>>
world == <<on, ear, silence, lost>>
counts == <<visits, lapses, writes>>
vars == <<detector, calls, app, world, counts>>

Nothing == [hi |-> 0, lo |-> 0, orient |-> "unknown"]

-----------------------------------------------------------------------------
(* Reports, in the LCC task *)

\* address_code
AddressCode(address) ==
  CASE address[1] = "short"   -> 14336 + (address[2] % 128)
    [] address[1] = "consist" -> 14592 + (address[2] % 128)
    [] OTHER                  -> address[2] % 16384

\* entry_kind: current into Rail A means the locomotive faces West
EntryKind(sensed, orient) ==
  IF orient = "unknown" \/ sensed = "off" THEN "entry"
  ELSE IF orient = sensed THEN "west" ELSE "east"

\* entry_sent when it is none: REPORT_EXIT with address 0
NoEntry == <<"exit", 0>>

\* The entry report for locomotive d with the rail sensed as configured
Entry(sensed, d) == <<EntryKind(sensed, d.orient), AddressCode(d.address)>>

\* A bug to catch: a locomotive that comes back counts as one that never left
EntryKept(t, same) == track[t].entry_sent

\* The entry report that need not go out again
EntrySent(t, same) == IF same THEN track[t].entry_sent ELSE NoEntry

\* lcc_event_send of reports, at most one for a locomotive, and of the occupancy
Send(t, reports, occupancy) ==
  IF up
  THEN /\ told' = [told EXCEPT ![t] = {r \in @ : \A new \in reports : new[2] # r[2]} \cup reports]
       /\ state' = [state EXCEPT ![t] = IF occupancy = "same" THEN @ ELSE occupancy]
       /\ UNCHANGED missed
  ELSE /\ missed' = [missed EXCEPT ![t] = @ \/ reports # {} \/ occupancy # "same"]
       /\ UNCHANGED <<told, state>>

\* data_in_lcc_task.  A locomotive that turned enters again, facing the other way.
DataInLccTask ==
  /\ calls # <<>> /\ Head(calls).type = "data"
  /\ calls' = Tail(calls)
  /\ UNCHANGED <<detector, rail, up, world, counts>>
  /\ LET t     == Head(calls).channel
         d     == Head(calls).data
         was   == track[t]
         code  == AddressCode(was.loco.address)
         same  == d.occupied /\ was.occupied /\ code = AddressCode(d.address)
         in    == Entry(rail[t], d)
         exit  == IF was.occupied /\ ~same THEN {<<"exit", code>>} ELSE {}
         entry == IF d.occupied /\ in # EntrySent(t, same) THEN {in} ELSE {}
     IN  /\ track' = [track EXCEPT ![t] =
                        [known |-> TRUE, occupied |-> d.occupied,
                         loco |-> IF d.occupied THEN d ELSE was.loco,
                         entry_sent |-> IF d.occupied THEN in ELSE was.entry_sent]]
         /\ Send(t, exit \cup entry,
                 IF was.known /\ was.occupied = d.occupied THEN "same"
                 ELSE IF d.occupied THEN "occupied" ELSE "clear")

\* signal_in_lcc_task: the tracks keep what they know
SignalInLccTask ==
  /\ calls # <<>> /\ Head(calls).type = "signal"
  /\ calls' = Tail(calls)
  /\ UNCHANGED <<detector, app, world, counts>>

\* railcom_app_config_written, after a write to the sensed rail: a locomotive
\* that is present enters again
ConfigWritten(t, sensed) ==
  /\ writes < MaxWrites /\ writes' = writes + 1
  /\ rail' = [rail EXCEPT ![t] = sensed]
  /\ LET entry == Entry(sensed, track[t].loco)
     IN  IF track[t].known /\ track[t].occupied /\ entry # track[t].entry_sent
         THEN /\ track' = [track EXCEPT ![t].entry_sent = entry]
              /\ Send(t, {entry}, "same")
         ELSE UNCHANGED <<track, told, state, missed>>
  /\ UNCHANGED <<detector, calls, up, world, visits, lapses>>

\* The node gets its alias.  To lose it later is to the reports what it is to have
\* none at the start.
AliasClaimed ==
  /\ ~up
  /\ up' = TRUE
  /\ UNCHANGED <<detector, calls, track, rail, told, state, missed, world, counts>>

\* reporter_identify: the state of a report in the answer to Identify Producer
Answer(t, kind, code) ==
  LET present == track[t].known /\ track[t].occupied
      here    == present /\ code = AddressCode(track[t].loco.address)
      facing  == EntryKind(rail[t], track[t].loco.orient)
      sure(b) == IF b THEN "valid" ELSE "invalid"
  IN  IF ~track[t].known THEN "unknown"
      ELSE CASE kind = "exit"             -> sure(~here)
             [] kind = "entry"            -> sure(here)
             [] kind \in {"west", "east"} ->
                  IF EntryKind(rail[t], "A") = "entry" \/ (here /\ facing = "entry")
                  THEN "unknown" ELSE sure(here /\ facing = kind)

\* occupancy_state of the occupied and the clear event
OccupancyState(t, occupied) ==
  IF ~track[t].known THEN "unknown"
  ELSE IF track[t].occupied = occupied THEN "valid" ELSE "invalid"

-----------------------------------------------------------------------------
(* The tracks *)

\* No answer yet
Deaf == [from |-> Nothing, half |-> 1, age |-> AddrPair + 1, quiet |-> TRUE, paired |-> TRUE]

\* A decoder alternates the halves of its address, so the next one is known
\* unless it was not heard in the last cutout
Halves(t) ==
  IF ear[t].from = on[t] /\ ~ear[t].quiet THEN {3 - ear[t].half} ELSE {1, 2}

\* Datagram `half` of train l, as code values
Datagram(l, half) ==
  LET byte == IF half = 1 THEN l.hi ELSE l.lo
  IN  [codes |-> <<4 * half + byte \div 64, byte % 64>>, orient |-> l.orient]

\* What the detector should make of train l
Named(l) == [address |-> AssembleAddress(l.hi, l.lo), orient |-> l.orient, occupied |-> TRUE]

\* Nothing the detector can use: an empty window, or bytes that collided
Unheard == [codes |-> <<Invalid, 5>>, orient |-> "unknown"]

\* Time after the last answer
EarAged(t, ticks) == [ear[t] EXCEPT !.age = Older(@, ticks, AddrPair)]

\* The next answer from the track, `paired` if it follows the other half from the same
\* locomotive at once: in time, and with no cutout between in which it was not heard
Ears(t, half, ticks) ==
  LET follows == ear[t].from = on[t] /\ ~ear[t].quiet /\ EarAged(t, ticks).age <= AddrPair
  IN  [from |-> on[t], half |-> half, age |-> 0, quiet |-> FALSE, paired |-> follows]

\* Time in which cutouts come and the track does not answer
Silent(t, ticks) ==
  IF cutoutAge = SignalTimeout THEN 0 ELSE Older(silence[t], ticks, AddrTimeout)

Losses == lost' = [t \in Blocks |-> t \in Lost \/ (lost[t] /\ ~Found(t))]

\* A cutout in which half[t] is heard from track t, or nothing when that is 0
HearCutout(ticks, half) ==
  /\ \A t \in Blocks : half[t] \in {0} \cup (IF on[t] = Nothing THEN {} ELSE Halves(t))
  /\ lapses' = lapses + Cardinality({t \in Blocks : on[t] # Nothing /\ half[t] = 0})
  /\ lapses' <= MaxLapses
  /\ Cutout(ticks, [t \in Blocks |-> IF half[t] = 0 THEN Unheard ELSE Datagram(on[t], half[t])])
  /\ ear' = [t \in Blocks |-> IF half[t] # 0 THEN Ears(t, half[t], ticks)
                              ELSE [EarAged(t, ticks) EXCEPT !.quiet = TRUE]]
  /\ silence' = [t \in Blocks |-> IF half[t] # 0 THEN 0 ELSE Silent(t, ticks)]
  /\ Losses
  /\ UNCHANGED <<app, on, visits, writes>>

\* A tick without a cutout
Idle ==
  /\ Housekeeping
  /\ silence' = [t \in Blocks |-> Silent(t, 1)]
  /\ ear' = [t \in Blocks |-> EarAged(t, 1)]
  /\ Losses
  /\ UNCHANGED <<app, on, counts>>

\* A locomotive enters an empty track, or the one on it leaves
Enter(t, l) ==
  /\ on[t] = Nothing
  /\ visits < MaxVisits /\ visits' = visits + 1
  /\ on' = [on EXCEPT ![t] = l]
  /\ UNCHANGED <<detector, calls, app, ear, silence, lost, lapses, writes>>

Leave(t) ==
  /\ on[t] # Nothing
  /\ on' = [on EXCEPT ![t] = Nothing]
  /\ ear' = [ear EXCEPT ![t].quiet = TRUE]
  /\ UNCHANGED <<detector, calls, app, silence, lost, counts>>

-----------------------------------------------------------------------------
Init ==
  /\ DetectorInit
  /\ track = [t \in Blocks |-> [known |-> FALSE, occupied |-> FALSE, loco |-> Vacant,
                                entry_sent |-> NoEntry]]
  /\ rail = [t \in Blocks |-> "off"]
  /\ up = FALSE
  /\ told = [t \in Blocks |-> {}]
  /\ state = [t \in Blocks |-> "unknown"]
  /\ missed = [t \in Blocks |-> FALSE]
  /\ on = [t \in Blocks |-> Nothing]
  /\ ear = [t \in Blocks |-> Deaf]
  /\ silence = [t \in Blocks |-> 0]
  /\ lost = [t \in Blocks |-> FALSE]
  /\ visits = 0 /\ lapses = 0 /\ writes = 0

TimePasses ==
  \/ Idle
  \/ \E half \in [Blocks -> 0..2] : HearCutout(1, half)

Next ==
  \/ \E half \in [Blocks -> 0..2] : HearCutout(0, half)
  \/ TimePasses
  \/ DataInLccTask \/ SignalInLccTask
  \/ \E t \in Blocks, sensed \in Rails : ConfigWritten(t, sensed)
  \/ AliasClaimed
  \/ \E t \in Blocks : Leave(t) \/ \E l \in Trains : Enter(t, l)

\* Time passes, both tasks run.  Nothing makes cutouts come or trains move.
Spec ==
  /\ Init /\ [][Next]_vars
  /\ WF_vars(TimePasses) /\ WF_vars(DataInLccTask \/ SignalInLccTask)

-----------------------------------------------------------------------------
(* Properties *)

Code(t) == AddressCode(track[t].loco.address)

\* What the bus was told last is what it is told when it asks again (railcom_app.c:78
\* and 87): a locomotive said to have entered, and to face that way, is there, every
\* other one has left, and the occupancy is the last one reported, whatever was
\* lost on the way from the detector.  Not so once an event was due with no alias.
ReportsAgree ==
  \A t \in Blocks : ~missed[t] =>
    /\ \A r \in told[t] : Answer(t, r[1], r[2]) = "valid"
    /\ track[t].occupied => \E r \in told[t] : r[2] = Code(t)
    /\ state[t] = "unknown" <=> ~track[t].known
    /\ state[t] # "unknown" => OccupancyState(t, state[t] = "occupied") = "valid"

\* The detector names a locomotive, and the way it faces, of which it has heard both
\* halves in a row: the one it hears, or the one before as long as it has heard a single
\* half of the next.  Never one put together from the halves of two (railcom.c:149),
\* unless each of them was heard with a single half only.
NoGhost ==
  [][\A t \in Blocks :
       Found(t) /\ block'[t].reported.occupied /\ (ear[t].paired \/ ear'[t].paired) =>
         block'[t].reported = Named(IF ear'[t].paired THEN ear'[t].from ELSE ear[t].from)]_vars

\* A block is reported vacant after a whole timeout in which cutouts came and none
\* was answered; the time without cutouts does not count (railcom.c:532).
SilentBeforeVacant ==
  [][\A t \in Blocks : Found(t) /\ ~block'[t].reported.occupied =>
       silence'[t] > AddrTimeout]_vars

\* A track that is empty is reported clear, if cutouts keep coming and the call finds
\* room in the queue, even when nothing was ever on it (railcom.c:542).
VacancyReported ==
  \A t \in Blocks :
    on[t] = Nothing ~>
      \/ on[t] # Nothing \/ cutoutAge = SignalTimeout \/ lost[t]
      \/ track[t].known /\ ~track[t].occupied
=============================================================================
