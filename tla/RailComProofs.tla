---------------------------- MODULE RailComProofs ----------------------------
(***************************************************************************)
(* Proofs about the RailCom detector and its reports, for any number of    *)
(* blocks, any locomotives and any timeouts: a block becomes vacant only   *)
(* after a whole timeout of silence, the locomotive it names is the one it *)
(* heard, and what the bus was told is what it is told when it asks.       *)
(***************************************************************************)
EXTENDS RailComReports, Integers, SequenceTheorems, FiniteSetTheorems, WellFoundedInduction, TLAPS

Data == [address : {"none", "short", "consist", "long"} \X Nat, orient : Orients,
         occupied : BOOLEAN]
Half == [byte : Nat, age : Nat]
Block == [half : [1..2 -> Half], silent : Nat, candidate : Data, count : Nat,
          reported : Data, known : BOOLEAN]

\* The part of the state the detector's clocks live in
ClocksTyped ==
  /\ block \in [Blocks -> Block]
  /\ cutoutAge \in 0..SignalTimeout
  /\ silence \in [Blocks -> Nat]
  /\ on \in [Blocks -> Trains \cup {Nothing}]

\* The signal is believed lost exactly when it is
SignalSeen == signal \in BOOLEAN /\ (signal <=> cutoutAge < SignalTimeout)

\* While it is there, no block has counted more silence than there was
CountedSilence ==
  signal => \A b \in Blocks : block[b].silent <= silence[b]

Clocks == ClocksTyped /\ SignalSeen /\ CountedSilence

-----------------------------------------------------------------------------
(* The operators of the detector *)

\* An age never runs backwards, and a longer one stays the longer (railcom.c:548)
LEMMA OlderOrdered ==
  ASSUME NEW a \in Nat, NEW b \in Nat, a <= b, NEW ticks \in Nat, NEW last \in Nat
  PROVE  /\ Older(a, ticks, last) \in Nat
         /\ Older(a, ticks, last) <= Older(b, ticks, last)
BY DEF Older

\* Whatever two halves are put together, an address comes out (railcom.c:228)
LEMMA AssembleTyped ==
  ASSUME NEW hi \in Nat, NEW lo \in Nat
  PROVE  AssembleAddress(hi, lo) \in {"none", "short", "consist", "long"} \X Nat
<1> DEFINE d == CASE hi = 0 /\ lo < 128 -> <<"short", lo>>
                  [] hi = 96            -> <<"consist", lo % 128>>
                  [] hi \in 128..191    -> <<"long", (hi % 64) * 256 + lo>>
                  [] OTHER              -> NoAddress
<1>1. NoAddress \in {"none", "short", "consist", "long"} \X Nat
  BY DEF NoAddress
<1>2. d \in {"none", "short", "consist", "long"} \X Nat
  <2>1. CASE hi = 0 /\ lo < 128
    BY <2>1
  <2>2. CASE hi = 96
    <3>1. lo % 128 \in Nat
      OBVIOUS
    <3> QED BY <2>2, <3>1
  <2>3. CASE hi \in 128..191
    <3>1. (hi % 64) * 256 + lo \in Nat
      OBVIOUS
    <3> QED BY <2>3, <3>1
  <2>4. CASE ~(hi = 0 /\ lo < 128) /\ hi # 96 /\ hi \notin 128..191
    BY <1>1, <2>4
  <2> QED BY <2>1, <2>2, <2>3, <2>4
<1>3. AssembleAddress(hi, lo) \in {NoAddress, d}
  BY DEF AssembleAddress
<1> QED BY <1>1, <1>2, <1>3

\* Time makes the ages of a block older and changes nothing else
LEMMA AgedTyped ==
  ASSUME NEW blk \in Block, NEW ticks \in Nat, AddrPair \in Nat, AddrTimeout \in Nat
  PROVE  /\ Aged(blk, ticks) \in Block
         /\ Aged(blk, ticks).silent = Older(blk.silent, ticks, AddrTimeout)
         /\ Aged(blk, ticks).reported = blk.reported
         /\ Aged(blk, ticks).known = blk.known
<1>1. [i \in 1..2 |-> HalfAged(blk.half[i], ticks)] \in [1..2 -> Half]
  BY DEF HalfAged, Gone, Block, Half
<1>2. Older(blk.silent, ticks, AddrTimeout) \in Nat
  BY DEF Older, Block
<1> QED BY <1>1, <1>2 DEF Aged, Block

\* What a second sighting makes of a block: news only of a locomotive that is there
LEMMA ConfirmTyped ==
  ASSUME NEW blk \in Block, NEW d \in Data, d.occupied
  PROVE  /\ Confirm(blk, d) \in Block
         /\ Confirm(blk, d).silent = blk.silent
         /\ \/ Confirm(blk, d).reported = blk.reported /\ Confirm(blk, d).known = blk.known
            \/ Confirm(blk, d).reported.occupied
<1> DEFINE again == d = blk.candidate /\ blk.count >= 1
<1>1. CASE again
  BY <1>1 DEF Confirm, Block
<1>2. CASE ~again
  BY <1>2 DEF Confirm, Block
<1> QED BY <1>1, <1>2

\* An address half ends the silence; anything else leaves the block as it was
LEMMA HandleTyped ==
  ASSUME NEW blk \in Block, NEW id \in 1..2, NEW data \in Nat, NEW orient \in Orients
  PROVE  LET new == HandleCh1(blk, id, data, orient)
         IN  /\ new \in Block
             /\ new.silent = 0
             /\ \/ new.reported = blk.reported /\ new.known = blk.known
                \/ new.reported.occupied
<1> DEFINE heard == [blk EXCEPT !.half[id] = [byte |-> data, age |-> 0], !.silent = 0]
           d     == [address  |-> AssembleAddress(heard.half[1].byte, heard.half[2].byte),
                     orient   |-> orient,
                     occupied |-> TRUE]
<1>1. /\ heard \in Block
      /\ heard.silent = 0 /\ heard.reported = blk.reported /\ heard.known = blk.known
  BY DEF Block, Half
<1>2. heard.half[1].byte \in Nat /\ heard.half[2].byte \in Nat
  BY <1>1 DEF Block, Half
<1>3. d \in Data /\ d.occupied
  BY <1>2, AssembleTyped DEF Data
<1>4. HandleCh1(blk, id, data, orient) \in {heard, Confirm(heard, d)}
  BY DEF HandleCh1
<1> HIDE DEF heard, d
<1> QED BY <1>1, <1>3, <1>4, ConfirmTyped

\* The datagram of a locomotive carries a half of its address
LEMMA DatagramHalf ==
  ASSUME NEW byte \in 0..255, NEW half \in 1..2
  PROVE  LET a == 4 * half + byte \div 64
             b == byte % 64
         IN  a \in Nat /\ b \in Nat /\ a < Invalid /\ b < Invalid /\ a \div 4 = half
             /\ (a % 4) * 64 + b \in Nat
<1>1. byte \div 64 \in 0..3 /\ byte % 64 \in 0..63
  OBVIOUS
<1>2. half = 1 \/ half = 2
  OBVIOUS
<1> QED BY <1>1, <1>2 DEF Invalid

\* What a block makes of a cutout in which its locomotive is heard
LEMMA HeardTyped ==
  ASSUME NEW blk \in Block, NEW l \in Trains, NEW half \in 1..2
  PROVE  LET new == DecodeBlock(blk, Datagram(l, half).codes, Datagram(l, half).orient)
         IN  /\ new \in Block
             /\ new.silent = 0
             /\ \/ new.reported = blk.reported /\ new.known = blk.known
                \/ new.reported.occupied
<1> DEFINE byte  == IF half = 1 THEN l.hi ELSE l.lo
           codes == <<4 * half + byte \div 64, byte % 64>>
<1>1. byte \in 0..255 /\ l.orient \in Orients
  BY ReportsAssumption
<1>2. Datagram(l, half) = [codes |-> codes, orient |-> l.orient]
  BY DEF Datagram
<1>3. /\ Len(codes) = 2 /\ codes[1] < Invalid /\ codes[2] < Invalid
      /\ codes[1] \in Nat /\ codes[2] \in Nat
      /\ codes[1] \div 4 = half /\ (codes[1] % 4) * 64 + codes[2] \in Nat
  <2> HIDE DEF byte
  <2> QED BY <1>1, DatagramHalf
<1>4. ~(Len(codes) # 2 \/ \E i \in DOMAIN codes : codes[i] >= Invalid)
  <2>1. DOMAIN codes = 1..2
    OBVIOUS
  <2>2. \A i \in DOMAIN codes : ~(codes[i] >= Invalid)
    BY <1>3, <2>1 DEF Invalid
  <2> QED BY <1>3, <2>2
<1>5. DecodeBlock(blk, codes, l.orient) =
        HandleCh1(blk, half, (codes[1] % 4) * 64 + codes[2], l.orient)
  BY <1>3, <1>4 DEF DecodeBlock
<1>6. Datagram(l, half).codes = codes /\ Datagram(l, half).orient = l.orient
  BY <1>2
<1> DEFINE data == (codes[1] % 4) * 64 + codes[2]
<1>7. data \in Nat
  BY <1>3
<1>8. DecodeBlock(blk, Datagram(l, half).codes, Datagram(l, half).orient) =
        HandleCh1(blk, half, data, l.orient)
  BY <1>5, <1>6
<1> HIDE DEF codes, data
<1>9. LET new == HandleCh1(blk, half, data, l.orient)
      IN  /\ new \in Block
          /\ new.silent = 0
          /\ \/ new.reported = blk.reported /\ new.known = blk.known
             \/ new.reported.occupied
  BY <1>1, <1>7, HandleTyped
<1> QED BY <1>8, <1>9

\* A cutout that brings nothing the detector can use changes nothing
LEMMA UnheardSame ==
  ASSUME NEW blk
  PROVE  DecodeBlock(blk, Unheard.codes, Unheard.orient) = blk
<1>1. Unheard.codes[1] >= Invalid /\ 1 \in DOMAIN Unheard.codes
  BY DEF Unheard, Invalid
<1> QED BY <1>1 DEF DecodeBlock

\* The last look at a block in a run of the task: it becomes vacant only with the
\* signal there before and now, after the whole timeout
LEMMA CheckedTyped ==
  ASSUME NEW blk \in Block, NEW active \in BOOLEAN, signal \in BOOLEAN, AddrTimeout \in Nat
  PROVE  LET new == Checked(blk, active)
         IN  /\ new \in Block
             /\ new.silent = IF active /\ ~signal THEN 0 ELSE blk.silent
             /\ \/ new.reported = blk.reported /\ new.known = blk.known
                \/ active /\ signal /\ blk.silent > AddrTimeout
<1> DEFINE b == Restarted(blk, active)
           v == [b EXCEPT !.known = TRUE, !.reported.occupied = FALSE,
                          !.count = 0, !.half = <<Gone, Gone>>]
<1>1. /\ b \in Block /\ b.silent = (IF active /\ ~signal THEN 0 ELSE blk.silent)
      /\ b.reported = blk.reported /\ b.known = blk.known
  BY DEF Restarted, Block
<1>2. CASE Vacated(b, active)
  <2>1. active /\ b.silent > AddrTimeout
    BY <1>2 DEF Vacated
  <2>2. signal /\ blk.silent > AddrTimeout
    BY <1>1, <2>1
  <2>3. <<Gone, Gone>> \in [1..2 -> Half]
    BY RailComAssumption DEF Gone, Half
  <2>4. v \in Block /\ v.silent = b.silent
    BY <1>1, <2>3 DEF Block, Data
  <2>5. Checked(blk, active) = v
    BY <1>2 DEF Checked
  <2> QED BY <1>1, <2>1, <2>2, <2>4, <2>5
<1>3. CASE ~Vacated(b, active)
  BY <1>1, <1>3 DEF Checked
<1> QED BY <1>2, <1>3

-----------------------------------------------------------------------------
(* The detector in a run of its task *)

\* In a run that starts with block b as `heard`, silent for no longer than the track
\* was, the block is reported vacant after a whole timeout of silence only, and
\* counts no more than it heard: so after a cutout, and after a tick without one.
LEMMA RunOfBlock ==
  ASSUME Clocks, NEW b \in Blocks, NEW heard \in Block, NEW active \in BOOLEAN,
         NEW quiet \in Nat,
         signal => heard.silent <= quiet,
         \/ heard.reported = block[b].reported /\ heard.known = block[b].known
         \/ heard.reported.occupied /\ heard.silent = 0
  PROVE  LET new == Checked(heard, active)
         IN  /\ new \in Block
             /\ active => new.silent <= quiet
             /\ \/ new.reported = block[b].reported /\ new.known = block[b].known
                \/ new.reported.occupied
                \/ quiet > AddrTimeout
<1>1. signal \in BOOLEAN /\ AddrTimeout \in Nat
  BY RailComAssumption DEF Clocks, SignalSeen
<1> DEFINE new == Checked(heard, active)
<1>2. /\ new \in Block
      /\ new.silent = IF active /\ ~signal THEN 0 ELSE heard.silent
      /\ \/ new.reported = heard.reported /\ new.known = heard.known
         \/ active /\ signal /\ heard.silent > AddrTimeout
  BY <1>1, CheckedTyped
<1>3. heard.silent \in Nat
  BY DEF Block
<1> HIDE DEF new
<1>4. active => new.silent <= quiet
  BY <1>1, <1>2, <1>3
<1>5. \/ new.reported = block[b].reported /\ new.known = block[b].known
      \/ new.reported.occupied
      \/ quiet > AddrTimeout
  <2>1. CASE new.reported = heard.reported /\ new.known = heard.known
    BY <2>1
  <2>2. CASE active /\ signal /\ heard.silent > AddrTimeout
    BY <1>1, <1>3, <2>2
  <2> QED BY <1>2, <2>1, <2>2
<1> QED BY <1>2, <1>4, <1>5 DEF new

\* What each run of the task keeps, and the promise about the blocks it vacates
Quiet ==
  \A t \in Blocks : Found(t) /\ ~block'[t].reported.occupied => silence'[t] > AddrTimeout

LEMMA SilenceTyped ==
  ASSUME Clocks, NEW t \in Blocks, NEW ticks \in 0..1
  PROVE  /\ Silent(t, ticks) \in Nat
         /\ signal => Aged(block[t], ticks).silent <= Silent(t, ticks)
         /\ Aged(block[t], ticks) \in Block
         /\ Aged(block[t], ticks).reported = block[t].reported
         /\ Aged(block[t], ticks).known = block[t].known
<1>1. /\ block[t] \in Block /\ silence[t] \in Nat /\ ticks \in Nat
      /\ AddrTimeout \in Nat /\ AddrPair \in Nat
  BY RailComAssumption DEF Clocks, ClocksTyped
<1>2. block[t].silent \in Nat
  BY <1>1 DEF Block
<1>3. signal => cutoutAge # SignalTimeout /\ block[t].silent <= silence[t]
  <2>1. signal => cutoutAge < SignalTimeout
    BY DEF Clocks, SignalSeen
  <2>2. cutoutAge \in Nat /\ SignalTimeout \in Nat
    BY RailComAssumption DEF Clocks, ClocksTyped
  <2>3. signal => block[t].silent <= silence[t]
    BY DEF Clocks, CountedSilence
  <2> QED BY <2>1, <2>2, <2>3
<1>4. Silent(t, ticks) \in Nat
  <2>1. silence[t] <= silence[t]
    BY <1>1
  <2>2. Older(silence[t], ticks, AddrTimeout) \in Nat
    BY <1>1, <2>1, OlderOrdered
  <2> QED BY <2>2 DEF Silent
<1>5. signal => Older(block[t].silent, ticks, AddrTimeout) <= Silent(t, ticks)
  BY <1>1, <1>2, <1>3, OlderOrdered DEF Silent
<1> QED BY <1>1, <1>4, <1>5, AgedTyped

LEMMA CutoutKeeps ==
  ASSUME Clocks, NEW ticks \in 0..1, NEW half \in [Blocks -> 0..2], HearCutout(ticks, half)
  PROVE  Clocks' /\ Quiet
<1> DEFINE answer(t) == IF half[t] = 0 THEN Unheard ELSE Datagram(on[t], half[t])
           heard(t)  == DecodeBlock(Aged(block[t], ticks), answer(t).codes, answer(t).orient)
           quiet(t)  == IF half[t] # 0 THEN 0 ELSE Silent(t, ticks)
<1>1. /\ cutoutAge' = 0 /\ signal' = TRUE /\ on' = on
      /\ block' = [t \in Blocks |-> Checked(heard(t), TRUE)]
      /\ silence' = [t \in Blocks |-> quiet(t)]
  BY DEF HearCutout, Cutout
<1>2. ASSUME NEW t \in Blocks
      PROVE  /\ heard(t) \in Block /\ quiet(t) \in Nat
             /\ signal => heard(t).silent <= quiet(t)
             /\ \/ heard(t).reported = block[t].reported /\ heard(t).known = block[t].known
                \/ heard(t).reported.occupied /\ heard(t).silent = 0
  <2>1. CASE half[t] = 0
    <3>1. heard(t) = Aged(block[t], ticks) /\ quiet(t) = Silent(t, ticks)
      BY <2>1, UnheardSame
    <3> QED BY <3>1, SilenceTyped
  <2>2. CASE half[t] # 0
    <3>1. half[t] \in 1..2 /\ on[t] \in Trains
      <4>1. half[t] \in {0} \cup (IF on[t] = Nothing THEN {} ELSE Halves(t))
        BY DEF HearCutout
      <4>2. half[t] \in 1..2
        BY <2>2
      <4>3. on[t] # Nothing
        BY <2>2, <4>1
      <4>4. on[t] \in Trains \cup {Nothing}
        BY DEF Clocks, ClocksTyped
      <4> QED BY <4>2, <4>3, <4>4
    <3>2. /\ Aged(block[t], ticks) \in Block
          /\ Aged(block[t], ticks).reported = block[t].reported
          /\ Aged(block[t], ticks).known = block[t].known
      BY SilenceTyped
    <3>3. /\ heard(t) = DecodeBlock(Aged(block[t], ticks), Datagram(on[t], half[t]).codes,
                                    Datagram(on[t], half[t]).orient)
          /\ quiet(t) = 0
      BY <2>2
    <3> HIDE DEF heard, quiet
    <3>4. /\ heard(t) \in Block /\ heard(t).silent = 0
          /\ \/ heard(t).reported = block[t].reported /\ heard(t).known = block[t].known
             \/ heard(t).reported.occupied
      BY <3>1, <3>2, <3>3, HeardTyped
    <3> QED BY <3>3, <3>4
  <2> QED BY <2>1, <2>2
<1> HIDE DEF heard, quiet
<1>3. ASSUME NEW t \in Blocks
      PROVE  /\ block'[t] \in Block /\ silence'[t] \in Nat
             /\ block'[t].silent <= silence'[t]
             /\ \/ block'[t].reported = block[t].reported /\ block'[t].known = block[t].known
                \/ block'[t].reported.occupied
                \/ silence'[t] > AddrTimeout
  <2>1. block'[t] = Checked(heard(t), TRUE) /\ silence'[t] = quiet(t)
    BY <1>1
  <2> QED BY <1>2, <2>1, RunOfBlock
<1>4. ClocksTyped'
  <2>1. block' \in [Blocks -> Block] /\ silence' \in [Blocks -> Nat]
    BY <1>1, <1>3
  <2>2. cutoutAge' \in 0..SignalTimeout
    BY <1>1, RailComAssumption
  <2>3. on' \in [Blocks -> Trains \cup {Nothing}]
    BY <1>1 DEF Clocks, ClocksTyped
  <2> QED BY <2>1, <2>2, <2>3 DEF ClocksTyped
<1>5. SignalSeen' /\ CountedSilence'
  <2>1. SignalTimeout \in Nat /\ 0 < SignalTimeout
    BY RailComAssumption
  <2>2. SignalSeen'
    BY <1>1, <2>1 DEF SignalSeen
  <2>3. CountedSilence'
    BY <1>3 DEF CountedSilence
  <2> QED BY <2>2, <2>3
<1>6. Quiet
  BY <1>3 DEF Quiet, Found
<1> QED BY <1>4, <1>5, <1>6 DEF Clocks

LEMMA IdleKeeps ==
  ASSUME Clocks, Idle
  PROVE  Clocks' /\ Quiet
<1> DEFINE active   == cutoutAge + 1 < SignalTimeout
           heard(t) == Aged(block[t], 1)
<1>1. /\ cutoutAge' = Older(cutoutAge, 1, SignalTimeout - 1)
      /\ signal' = active /\ on' = on
      /\ block' = [t \in Blocks |-> Checked(heard(t), active)]
      /\ silence' = [t \in Blocks |-> Silent(t, 1)]
  BY DEF Idle, Housekeeping
<1>2. /\ cutoutAge \in Nat /\ cutoutAge <= SignalTimeout
      /\ SignalTimeout \in Nat /\ 0 < SignalTimeout
  BY RailComAssumption DEF Clocks, ClocksTyped
<1>3. /\ cutoutAge' \in 0..SignalTimeout
      /\ active \in BOOLEAN /\ (active <=> cutoutAge' < SignalTimeout)
  BY <1>1, <1>2 DEF Older
<1>4. ASSUME NEW t \in Blocks
      PROVE  /\ block'[t] \in Block /\ silence'[t] \in Nat
             /\ active => block'[t].silent <= silence'[t]
             /\ \/ block'[t].reported = block[t].reported /\ block'[t].known = block[t].known
                \/ block'[t].reported.occupied
                \/ silence'[t] > AddrTimeout
  <2>1. block'[t] = Checked(heard(t), active) /\ silence'[t] = Silent(t, 1)
    BY <1>1
  <2>2. /\ Silent(t, 1) \in Nat
        /\ signal => heard(t).silent <= Silent(t, 1)
        /\ heard(t) \in Block
        /\ heard(t).reported = block[t].reported /\ heard(t).known = block[t].known
    BY SilenceTyped
  <2>3. active \in BOOLEAN
    OBVIOUS
  <2> HIDE DEF active, heard
  <2> QED BY <2>1, <2>2, <2>3, RunOfBlock
<1> HIDE DEF active, heard
<1>5. ClocksTyped'
  <2>1. block' \in [Blocks -> Block] /\ silence' \in [Blocks -> Nat]
    BY <1>1, <1>4
  <2>2. on' \in [Blocks -> Trains \cup {Nothing}]
    BY <1>1 DEF Clocks, ClocksTyped
  <2> QED BY <1>3, <2>1, <2>2 DEF ClocksTyped
<1>6. SignalSeen' /\ CountedSilence'
  BY <1>1, <1>3, <1>4 DEF SignalSeen, CountedSilence
<1>7. Quiet
  BY <1>4 DEF Quiet, Found
<1> QED BY <1>5, <1>6, <1>7 DEF Clocks

\* A step of anything but the detector: it says nothing new
LEMMA OthersKeep ==
  ASSUME Clocks, UNCHANGED <<detector, silence>>, on' \in [Blocks -> Trains \cup {Nothing}]
  PROVE  Clocks' /\ Quiet
<1>1. block' = block /\ cutoutAge' = cutoutAge /\ signal' = signal /\ silence' = silence
  BY DEF detector
<1>2. Clocks'
  BY <1>1 DEF Clocks, ClocksTyped, SignalSeen, CountedSilence
<1>3. Quiet
  BY <1>1 DEF Quiet, Found
<1> QED BY <1>2, <1>3

-----------------------------------------------------------------------------
(* The theorem *)

LEMMA InitClocks == Init => Clocks
<1> SUFFICES ASSUME Init PROVE Clocks
  OBVIOUS
<1>1. NewBlock \in Block
  BY RailComAssumption DEF NewBlock, Gone, Vacant, NoAddress, Block, Half, Data, Orients
<1>2. /\ block = [b \in Blocks |-> NewBlock] /\ cutoutAge = SignalTimeout /\ signal = FALSE
      /\ silence = [t \in Blocks |-> 0] /\ on = [t \in Blocks |-> Nothing]
  BY DEF Init, DetectorInit
<1>3. SignalTimeout \in Nat
  BY RailComAssumption
<1>4. ClocksTyped
  BY <1>1, <1>2, <1>3 DEF ClocksTyped
<1>5. SignalSeen
  <2>1. ~(cutoutAge < SignalTimeout)
    BY <1>2, <1>3
  <2> QED BY <1>2, <2>1 DEF SignalSeen
<1>6. CountedSilence
  BY <1>2 DEF CountedSilence
<1> QED BY <1>4, <1>5, <1>6 DEF Clocks

LEMMA StepClocks == Clocks /\ [Next]_vars => Clocks' /\ Quiet
<1> SUFFICES ASSUME Clocks, [Next]_vars PROVE Clocks' /\ Quiet
  OBVIOUS
<1>0. on \in [Blocks -> Trains \cup {Nothing}]
  BY DEF Clocks, ClocksTyped
<1>1. CASE \E half \in [Blocks -> 0..2] : HearCutout(0, half)
  BY <1>1, CutoutKeeps
<1>2. CASE Idle
  BY <1>2, IdleKeeps
<1>3. CASE \E half \in [Blocks -> 0..2] : HearCutout(1, half)
  BY <1>3, CutoutKeeps
<1>4. CASE DataInLccTask \/ SignalInLccTask
  BY <1>0, <1>4, OthersKeep DEF DataInLccTask, SignalInLccTask, world
<1>5. CASE \E t \in Blocks, sensed \in Rails : ConfigWritten(t, sensed)
  BY <1>0, <1>5, OthersKeep DEF ConfigWritten, world
<1>6. CASE AliasClaimed
  BY <1>0, <1>6, OthersKeep DEF AliasClaimed, world
<1>7. CASE \E t \in Blocks : Leave(t) \/ \E l \in Trains : Enter(t, l)
  <2>1. UNCHANGED <<detector, silence>>
    BY <1>7 DEF Leave, Enter
  <2>2. on' \in [Blocks -> Trains \cup {Nothing}]
    BY <1>0, <1>7 DEF Leave, Enter
  <2> QED BY <2>1, <2>2, OthersKeep
<1>8. CASE UNCHANGED vars
  BY <1>0, <1>8, OthersKeep DEF vars, world
<1> QED BY <1>1, <1>2, <1>3, <1>4, <1>5, <1>6, <1>7, <1>8 DEF Next, TimePasses

\* The detector's clocks agree with the tracks: while the signal is there, no block
\* has counted more silence than there was (railcom.c:538).
THEOREM ClocksInvariant == Spec => []Clocks
<1>1. Clocks /\ [Next]_vars => Clocks'
  BY StepClocks
<1> QED BY InitClocks, <1>1, PTL DEF Spec

\* A block is reported vacant only after a whole timeout in which cutouts came and
\* none was answered (railcom.c:544).
THEOREM VacantAfterSilence == Spec => SilentBeforeVacant
<1>1. Clocks /\ [Next]_vars => Quiet
  BY StepClocks
<1>2. Quiet => [\A t \in Blocks : Found(t) /\ ~block'[t].reported.occupied =>
                   silence'[t] > AddrTimeout]_vars
  BY DEF Quiet
<1> QED BY ClocksInvariant, <1>1, <1>2, PTL DEF Spec, SilentBeforeVacant

-----------------------------------------------------------------------------
(* The locomotive that is named *)

\* The half of the address of train l that datagram `half` carries
Byte(l, half) == IF half = 1 THEN l.hi ELSE l.lo

Ear == [from : Trains \cup {Nothing}, half : 1..2, age : Nat, quiet : BOOLEAN, paired : BOOLEAN]

\* The detector has this half of the address of train l, or none that counts
HasHalf(blk, l, half) == blk.half[half].age > AddrPair \/ blk.half[half].byte = Byte(l, half)

\* What the detector makes of a block belongs to what was heard from the track: the
\* half that was heard last, and when it followed the other one, that one and the
\* candidate too.  A half that could still be paired was given up only along with
\* the candidate.
Right(blk, e) ==
  /\ HasHalf(blk, e.from, e.half)
  /\ e.paired => HasHalf(blk, e.from, 3 - e.half) /\ (blk.count = 0 \/ blk.candidate = Named(e.from))
  /\ e.age <= AddrPair => blk.half[e.half].age <= e.age \/ blk.count = 0

EarsRight == ear \in [Blocks -> Ear] /\ \A t \in Blocks : Right(block[t], ear[t])

\* A datagram arrives as the half of the address it was made of
LEMMA HalfArrives ==
  ASSUME NEW blk, NEW l \in Trains, NEW half \in 1..2
  PROVE  DecodeBlock(blk, Datagram(l, half).codes, Datagram(l, half).orient) =
           HandleCh1(blk, half, Byte(l, half), l.orient)
<1> DEFINE byte  == Byte(l, half)
           codes == <<4 * half + byte \div 64, byte % 64>>
<1>1. byte \in 0..255
  BY ReportsAssumption DEF Byte
<1>2. Datagram(l, half) = [codes |-> codes, orient |-> l.orient]
  BY DEF Datagram, Byte
<1> HIDE DEF byte
<1>3. PICK top \in 0..3, low \in 0..63 :
        byte \div 64 = top /\ byte % 64 = low /\ byte = top * 64 + low
  <2>1. CASE byte \in 0..63
    <3>1. byte \div 64 = 0 /\ byte % 64 = byte /\ byte = 0 * 64 + byte
      BY <2>1
    <3> QED BY <2>1, <3>1
  <2>2. CASE byte \in 64..127
    <3>1. byte \div 64 = 1 /\ byte % 64 = byte - 64 /\ byte = 1 * 64 + (byte - 64) /\ byte - 64 \in 0..63
      BY <2>2
    <3> QED BY <3>1
  <2>3. CASE byte \in 128..191
    <3>1. byte \div 64 = 2 /\ byte % 64 = byte - 128 /\ byte = 2 * 64 + (byte - 128) /\ byte - 128 \in 0..63
      BY <2>3
    <3> QED BY <3>1
  <2>4. CASE byte \in 192..255
    <3>1. byte \div 64 = 3 /\ byte % 64 = byte - 192 /\ byte = 3 * 64 + (byte - 192) /\ byte - 192 \in 0..63
      BY <2>4
    <3> QED BY <3>1
  <2> QED BY <1>1, <2>1, <2>2, <2>3, <2>4
<1>4. codes = <<4 * half + top, low>>
  BY <1>3
<1> HIDE DEF codes
<1>5. /\ Len(codes) = 2 /\ DOMAIN codes = 1..2
      /\ codes[1] < 64 /\ codes[2] < 64 /\ codes[1] \in Nat /\ codes[2] \in Nat
      /\ codes[1] \div 4 = half /\ codes[1] % 4 = top /\ codes[2] = low
  <2>1. CASE half = 1
    <3>1. 4 + top \in Nat /\ 4 + top < 64 /\ (4 + top) \div 4 = 1 /\ (4 + top) % 4 = top
      OBVIOUS
    <3> QED BY <1>4, <2>1, <3>1
  <2>2. CASE half = 2
    <3>1. 8 + top \in Nat /\ 8 + top < 64 /\ (8 + top) \div 4 = 2 /\ (8 + top) % 4 = top
      OBVIOUS
    <3> QED BY <1>4, <2>2, <3>1
  <2> QED BY <2>1, <2>2
<1>6. (codes[1] % 4) * 64 + codes[2] = byte
  BY <1>3, <1>5
<1>7. ~(Len(codes) # 2 \/ \E i \in DOMAIN codes : codes[i] >= Invalid)
  BY <1>5 DEF Invalid
<1>8. DecodeBlock(blk, codes, l.orient) =
        HandleCh1(blk, codes[1] \div 4, (codes[1] % 4) * 64 + codes[2], l.orient)
  BY <1>7 DEF DecodeBlock
<1>9. Datagram(l, half).codes = codes /\ Datagram(l, half).orient = l.orient
  BY <1>2
<1>10. DecodeBlock(blk, codes, l.orient) = HandleCh1(blk, half, byte, l.orient)
  BY <1>5, <1>6, <1>8
<1> QED BY <1>9, <1>10 DEF byte

\* Time leaves what the detector has of a locomotive, or takes it away
LEMMA AgedRight ==
  ASSUME NEW blk \in Block, NEW e \in Ear, NEW new \in Ear, NEW ticks \in Nat, Right(blk, e),
         new.from = e.from, new.half = e.half, new.paired = e.paired,
         new.age = Older(e.age, ticks, AddrPair)
  PROVE  Right(Aged(blk, ticks), new)
<1>1. AddrPair \in Nat
  BY RailComAssumption
<1> DEFINE aged == Aged(blk, ticks)
<1>2. /\ aged.count = blk.count /\ aged.candidate = blk.candidate
      /\ \A i \in 1..2 : aged.half[i] = HalfAged(blk.half[i], ticks)
  BY DEF Aged, Block
<1>3. e.half \in 1..2 /\ 3 - e.half \in 1..2
  BY DEF Ear
<1>4. ASSUME NEW i \in 1..2
      PROVE  /\ blk.half[i].age \in Nat
             /\ HasHalf(blk, e.from, i) => HasHalf(aged, e.from, i)
             /\ blk.half[i].age + ticks <= AddrPair => aged.half[i].age = blk.half[i].age + ticks
  <2>1. blk.half[i] \in Half
    BY DEF Block
  <2>2. aged.half[i] = IF blk.half[i].age + ticks > AddrPair THEN Gone
                       ELSE [blk.half[i] EXCEPT !.age = @ + ticks]
    BY <1>2 DEF HalfAged
  <2> HIDE DEF aged
  <2>3. CASE blk.half[i].age + ticks > AddrPair
    BY <1>1, <2>1, <2>2, <2>3 DEF Gone, HasHalf, Half
  <2>4. CASE ~(blk.half[i].age + ticks > AddrPair)
    <3>1. aged.half[i].age = blk.half[i].age + ticks /\ aged.half[i].byte = blk.half[i].byte
      BY <2>1, <2>2, <2>4 DEF Half
    <3> QED BY <1>1, <2>1, <2>4, <3>1 DEF HasHalf, Half
  <2> QED BY <2>3, <2>4
<1> HIDE DEF aged
<1>5. new.age <= AddrPair => aged.half[e.half].age <= new.age \/ aged.count = 0
  <2> SUFFICES ASSUME new.age <= AddrPair, aged.count # 0 PROVE aged.half[e.half].age <= new.age
    OBVIOUS
  <2>1. e.age \in Nat
    BY DEF Ear
  <2>2. new.age = e.age + ticks /\ e.age + ticks <= AddrPair
    BY <1>1, <2>1 DEF Older
  <2>3. blk.half[e.half].age <= e.age /\ blk.half[e.half].age \in Nat
    BY <1>1, <1>2, <1>3, <1>4, <2>1, <2>2 DEF Right
  <2>4. blk.half[e.half].age + ticks <= AddrPair
    BY <1>1, <2>1, <2>2, <2>3
  <2> QED BY <1>3, <1>4, <2>1, <2>2, <2>3, <2>4
<1> QED BY <1>2, <1>3, <1>4, <1>5 DEF Right, aged

\* The last look at a block takes away what it has, and names nobody
LEMMA CheckedRight ==
  ASSUME NEW blk \in Block, NEW e \in Ear, NEW active \in BOOLEAN, Right(blk, e)
  PROVE  LET new == Checked(blk, active)
         IN  /\ Right(new, e)
             /\ new.reported.occupied => new.reported = blk.reported /\ new.known = blk.known
<1>1. AddrPair \in Nat
  BY RailComAssumption
<1> DEFINE b == Restarted(blk, active)
           v == [b EXCEPT !.known = TRUE, !.reported.occupied = FALSE,
                          !.count = 0, !.half = <<Gone, Gone>>]
<1>2. /\ b \in Block /\ b.half = blk.half /\ b.count = blk.count /\ b.candidate = blk.candidate
      /\ b.reported = blk.reported /\ b.known = blk.known
  BY DEF Restarted, Block
<1>3. CASE Vacated(b, active)
  <2>1. Checked(blk, active) = v
    BY <1>3 DEF Checked
  <2>2. v.half = <<Gone, Gone>> /\ v.count = 0 /\ v.reported.occupied = FALSE
    BY <1>2 DEF Block, Data
  <2>3. e.half \in 1..2 /\ 3 - e.half \in 1..2
    BY DEF Ear
  <2>4. v.half[e.half].age > AddrPair /\ v.half[3 - e.half].age > AddrPair
    BY <1>1, <2>2, <2>3 DEF Gone
  <2> HIDE DEF v
  <2> QED BY <2>1, <2>2, <2>4 DEF Right, HasHalf
<1>4. CASE ~Vacated(b, active)
  <2>1. Checked(blk, active) = b
    BY <1>4 DEF Checked
  <2> HIDE DEF b
  <2> QED BY <1>2, <2>1 DEF Right, HasHalf
<1> QED BY <1>3, <1>4

\* What a half that is heard makes of a block: whom it names was heard right
LEMMA HeardRight ==
  ASSUME NEW blk \in Block, NEW e \in Ear, Right(blk, e), NEW l \in Trains, NEW half \in 1..2,
         NEW follows \in BOOLEAN,
         follows => e.from = l /\ half = 3 - e.half /\ e.age <= AddrPair,
         NEW now \in Ear, now.from = l, now.half = half, now.age = 0, now.paired = follows
  PROVE  LET new == HandleCh1(blk, half, Byte(l, half), l.orient)
         IN  /\ new \in Block
             /\ Right(new, now)
             /\ \/ new.reported = blk.reported /\ new.known = blk.known
                \/ e.paired \/ follows => new.reported = Named(IF follows THEN l ELSE e.from)
<1>1. AddrPair \in Nat /\ 3 - half \in 1..2 /\ e.half \in 1..2
  BY RailComAssumption DEF Ear
<1> DEFINE other == 3 - half
           heard == [blk EXCEPT !.half[half] = [byte |-> Byte(l, half), age |-> 0], !.silent = 0]
           d     == [address  |-> AssembleAddress(heard.half[1].byte, heard.half[2].byte),
                     orient   |-> l.orient,
                     occupied |-> TRUE]
           new   == HandleCh1(blk, half, Byte(l, half), l.orient)
           again == d = heard.candidate /\ heard.count >= 1
<1>2. Byte(l, half) \in Nat /\ l.orient \in Orients
  BY ReportsAssumption DEF Byte
<1>3. /\ heard \in Block
      /\ heard.half[half] = [byte |-> Byte(l, half), age |-> 0] /\ heard.half[other] = blk.half[other]
      /\ heard.count = blk.count /\ heard.candidate = blk.candidate
      /\ heard.reported = blk.reported /\ heard.known = blk.known
  <2>1. blk.half \in [1..2 -> Half] /\ [byte |-> Byte(l, half), age |-> 0] \in Half
    BY <1>2 DEF Block, Half
  <2>2. heard = [blk EXCEPT !.half = [blk.half EXCEPT ![half] = [byte |-> Byte(l, half), age |-> 0]],
                            !.silent = 0]
    OBVIOUS
  <2>3. other \in 1..2 /\ other # half
    BY <1>1
  <2>4. [blk.half EXCEPT ![half] = [byte |-> Byte(l, half), age |-> 0]] \in [1..2 -> Half]
    BY <2>1
  <2> QED BY <2>1, <2>2, <2>3, <2>4 DEF Block
<1>4. new = IF blk.half[other].age > AddrPair \/ d.address = NoAddress THEN heard
            ELSE Confirm(heard, d)
  BY DEF HandleCh1
<1>5. new \in Block
  BY <1>2, HandleTyped
<1>6. blk.count \in Nat /\ blk.half[other].age \in Nat
  BY <1>1 DEF Block, Half
<1>7. follows /\ blk.half[other].age <= AddrPair => d = Named(l)
  <2> SUFFICES ASSUME follows, blk.half[other].age <= AddrPair PROVE d = Named(l)
    OBVIOUS
  <2>1. e.half = other
    BY <1>1
  <2>2. heard.half[other].byte = Byte(l, other) /\ heard.half[half].byte = Byte(l, half)
    BY <1>1, <1>3, <1>6, <2>1 DEF Right, HasHalf
  <2> HIDE DEF heard
  <2>3. heard.half[1].byte = l.hi /\ heard.half[2].byte = l.lo
    <3>1. CASE half = 1
      BY <2>2, <3>1 DEF Byte
    <3>2. CASE half = 2
      BY <2>2, <3>2 DEF Byte
    <3> QED BY <3>1, <3>2
  <2> QED BY <2>3 DEF Named
<1>8. follows => e.half = other /\ HasHalf(blk, l, other)
                 /\ (blk.half[other].age <= AddrPair \/ blk.count = 0)
  <2> SUFFICES ASSUME follows
               PROVE  e.half = other /\ HasHalf(blk, l, other)
                      /\ (blk.half[other].age <= AddrPair \/ blk.count = 0)
    OBVIOUS
  <2>1. e.half = other /\ e.age \in Nat
    BY <1>1 DEF Ear
  <2> QED BY <1>1, <1>6, <2>1 DEF Right
<1>9. Named(l).address # NoAddress
  BY ReportsAssumption DEF Named
<1> HIDE DEF heard, d, new
<1>10. CASE blk.half[other].age > AddrPair \/ d.address = NoAddress
  <2>1. new = heard
    BY <1>4, <1>10
  <2>2. HasHalf(heard, l, half)
    BY <1>3 DEF HasHalf
  <2>3. follows => HasHalf(heard, l, other) /\ heard.count = 0
    <3>1. follows => HasHalf(heard, l, other)
      BY <1>3, <1>8 DEF HasHalf
    <3>2. follows => blk.half[other].age > AddrPair
      BY <1>1, <1>6, <1>7, <1>9, <1>10
    <3>3. follows => blk.count = 0
      BY <1>1, <1>6, <1>8, <3>2
    <3> QED BY <1>3, <3>1, <3>3
  <2>4. heard.half[half].age <= now.age
    BY <1>3
  <2>5. Right(heard, now)
    BY <2>2, <2>3, <2>4 DEF Right
  <2> QED BY <1>3, <1>5, <2>1, <2>5 DEF new
<1>11. CASE ~(blk.half[other].age > AddrPair \/ d.address = NoAddress)
  <2>1. new = Confirm(heard, d) /\ blk.half[other].age <= AddrPair
    BY <1>1, <1>4, <1>6, <1>11
  <2>2. /\ new.half = heard.half /\ new.candidate = d
        /\ new.reported = IF again THEN d ELSE heard.reported
        /\ new.known = (heard.known \/ again)
    BY <1>3, <2>1 DEF Confirm, Block
  <2>3. heard.known \in BOOLEAN
    BY <1>3 DEF Block
  <2>4. Right(new, now)
    <3>1. HasHalf(new, l, half) /\ new.half[half].age <= now.age
      BY <1>3, <2>2 DEF HasHalf
    <3>2. follows => HasHalf(new, l, other) /\ new.candidate = Named(l)
      BY <1>3, <1>7, <1>8, <2>1, <2>2 DEF HasHalf
    <3> QED BY <3>1, <3>2 DEF Right
  <2>5. again /\ e.paired => d = Named(e.from)
    BY <1>3, <1>6 DEF Right
  <2>6. CASE again
    BY <1>5, <1>7, <2>1, <2>2, <2>4, <2>5, <2>6 DEF new
  <2>7. CASE ~again
    <3>1. new.reported = heard.reported /\ new.known = heard.known
      BY <2>2, <2>3, <2>7
    <3> QED BY <1>3, <1>5, <2>4, <3>1 DEF new
  <2> QED BY <2>6, <2>7
<1> QED BY <1>10, <1>11

\* What a run of the task names was heard right
NamesRight ==
  \A t \in Blocks :
    Found(t) /\ block'[t].reported.occupied /\ (ear[t].paired \/ ear'[t].paired) =>
      block'[t].reported = Named(IF ear'[t].paired THEN ear'[t].from ELSE ear[t].from)

LEMMA EarsTyped ==
  ASSUME Clocks, EarsRight, NEW t \in Blocks, NEW ticks \in 0..1, NEW quiet \in BOOLEAN
  PROVE  LET new == [EarAged(t, ticks) EXCEPT !.quiet = quiet]
         IN  /\ EarAged(t, ticks) \in Ear /\ new \in Ear
             /\ Right(Aged(block[t], ticks), EarAged(t, ticks))
             /\ Right(Aged(block[t], ticks), new)
             /\ EarAged(t, ticks).from = ear[t].from /\ EarAged(t, ticks).half = ear[t].half
             /\ EarAged(t, ticks).paired = ear[t].paired
             /\ new.paired = ear[t].paired
<1>1. ear[t] \in Ear /\ Right(block[t], ear[t]) /\ block[t] \in Block
  BY DEF EarsRight, Clocks, ClocksTyped
<1>2. Older(ear[t].age, ticks, AddrPair) \in Nat
  BY <1>1, RailComAssumption DEF Older, Ear
<1> DEFINE aged == EarAged(t, ticks)
           new  == [aged EXCEPT !.quiet = quiet]
<1>3. /\ aged \in Ear
      /\ aged.from = ear[t].from /\ aged.half = ear[t].half /\ aged.paired = ear[t].paired
      /\ aged.age = Older(ear[t].age, ticks, AddrPair)
  BY <1>1, <1>2 DEF EarAged, Ear
<1>4. /\ new \in Ear
      /\ new.from = aged.from /\ new.half = aged.half /\ new.paired = aged.paired
      /\ new.age = aged.age
  BY <1>3 DEF Ear
<1>5. ticks \in Nat
  OBVIOUS
<1> HIDE DEF aged, new
<1>6. Right(Aged(block[t], ticks), aged)
  BY <1>1, <1>3, <1>5, AgedRight
<1>7. Right(Aged(block[t], ticks), new)
  BY <1>1, <1>3, <1>4, <1>5, AgedRight
<1> QED BY <1>3, <1>4, <1>6, <1>7 DEF aged, new

LEMMA CutoutNames ==
  ASSUME Clocks, EarsRight, NEW ticks \in 0..1, NEW half \in [Blocks -> 0..2],
         HearCutout(ticks, half)
  PROVE  EarsRight' /\ NamesRight
<1> DEFINE answer(t) == IF half[t] = 0 THEN Unheard ELSE Datagram(on[t], half[t])
           heard(t)  == DecodeBlock(Aged(block[t], ticks), answer(t).codes, answer(t).orient)
           now(t)    == IF half[t] # 0 THEN Ears(t, half[t], ticks)
                        ELSE [EarAged(t, ticks) EXCEPT !.quiet = TRUE]
<1>1. /\ block' = [t \in Blocks |-> Checked(heard(t), TRUE)]
      /\ ear' = [t \in Blocks |-> now(t)]
  BY DEF HearCutout, Cutout
<1>2. ASSUME NEW t \in Blocks
      PROVE  /\ heard(t) \in Block /\ now(t) \in Ear /\ Right(heard(t), now(t))
             /\ \/ heard(t).reported = block[t].reported /\ heard(t).known = block[t].known
                \/ ear[t].paired \/ now(t).paired =>
                     heard(t).reported = Named(IF now(t).paired THEN now(t).from ELSE ear[t].from)
  <2>1. /\ Aged(block[t], ticks) \in Block
        /\ Aged(block[t], ticks).reported = block[t].reported
        /\ Aged(block[t], ticks).known = block[t].known
    BY SilenceTyped
  <2>2. CASE half[t] = 0
    <3>1. heard(t) = Aged(block[t], ticks) /\ now(t) = [EarAged(t, ticks) EXCEPT !.quiet = TRUE]
      BY <2>2, UnheardSame
    <3> HIDE DEF heard, now
    <3> QED BY <2>1, <3>1, EarsTyped
  <2>3. CASE half[t] # 0
    <3> DEFINE e       == EarAged(t, ticks)
               follows == ear[t].from = on[t] /\ ~ear[t].quiet /\ e.age <= AddrPair
               new     == HandleCh1(Aged(block[t], ticks), half[t], Byte(on[t], half[t]), on[t].orient)
    <3>1. half[t] \in 1..2 /\ on[t] \in Trains /\ half[t] \in Halves(t)
      <4>1. half[t] \in {0} \cup (IF on[t] = Nothing THEN {} ELSE Halves(t))
        BY DEF HearCutout
      <4>2. half[t] \in 1..2
        BY <2>3
      <4>3. on[t] # Nothing /\ half[t] \in Halves(t)
        BY <2>3, <4>1
      <4>4. on[t] \in Trains \cup {Nothing}
        BY DEF Clocks, ClocksTyped
      <4> QED BY <4>2, <4>3, <4>4
    <3>2. heard(t) = new
      <4>1. heard(t) = DecodeBlock(Aged(block[t], ticks), Datagram(on[t], half[t]).codes,
                                   Datagram(on[t], half[t]).orient)
        BY <2>3
      <4> HIDE DEF heard
      <4> QED BY <3>1, <4>1, HalfArrives
    <3>3. /\ now(t) = [from |-> on[t], half |-> half[t], age |-> 0, quiet |-> FALSE, paired |-> follows]
          /\ follows \in BOOLEAN
      BY <2>3 DEF Ears
    <3>4. now(t) \in Ear /\ now(t).from = on[t] /\ now(t).half = half[t] /\ now(t).age = 0
          /\ now(t).paired = follows
      <4> HIDE DEF follows, now
      <4>1. on[t] \in Trains \cup {Nothing} /\ half[t] \in 1..2 /\ 0 \in Nat
            /\ FALSE \in BOOLEAN /\ follows \in BOOLEAN
        BY <3>1, <3>3
      <4> QED BY <3>3, <4>1 DEF Ear
    <3>5. e \in Ear /\ Right(Aged(block[t], ticks), e) /\ e.from = ear[t].from
          /\ e.half = ear[t].half /\ e.paired = ear[t].paired
      BY EarsTyped
    <3>6. follows => e.from = on[t] /\ half[t] = 3 - e.half /\ e.age <= AddrPair
      BY <3>1, <3>5 DEF Halves
    <3> HIDE DEF heard, now, e, follows
    <3>7. /\ new \in Block /\ Right(new, now(t))
          /\ \/ new.reported = Aged(block[t], ticks).reported /\ new.known = Aged(block[t], ticks).known
             \/ e.paired \/ follows => new.reported = Named(IF follows THEN on[t] ELSE e.from)
      <4> HIDE DEF new
      <4> QED BY <2>1, <3>1, <3>3, <3>4, <3>5, <3>6, HeardRight DEF new
    <3> HIDE DEF new
    <3> QED BY <2>1, <3>2, <3>4, <3>5, <3>7
  <2> QED BY <2>2, <2>3
<1> HIDE DEF heard, now
<1>3. ASSUME NEW t \in Blocks
      PROVE  /\ ear'[t] \in Ear /\ Right(block'[t], ear'[t])
             /\ Found(t) /\ block'[t].reported.occupied /\ (ear[t].paired \/ ear'[t].paired) =>
                  block'[t].reported = Named(IF ear'[t].paired THEN ear'[t].from ELSE ear[t].from)
  <2>1. block'[t] = Checked(heard(t), TRUE) /\ ear'[t] = now(t)
    BY <1>1
  <2>2. /\ Right(block'[t], ear'[t])
        /\ block'[t].reported.occupied =>
             block'[t].reported = heard(t).reported /\ block'[t].known = heard(t).known
    BY <1>2, <2>1, CheckedRight
  <2> QED BY <1>2, <2>1, <2>2 DEF Found
<1> QED BY <1>1, <1>3 DEF EarsRight, NamesRight

LEMMA IdleNames ==
  ASSUME Clocks, EarsRight, Idle
  PROVE  EarsRight' /\ NamesRight
<1> DEFINE active == cutoutAge + 1 < SignalTimeout
<1>1. /\ block' = [t \in Blocks |-> Checked(Aged(block[t], 1), active)]
      /\ ear' = [t \in Blocks |-> EarAged(t, 1)]
  BY DEF Idle, Housekeeping
<1>2. active \in BOOLEAN
  OBVIOUS
<1> HIDE DEF active
<1>3. ASSUME NEW t \in Blocks
      PROVE  ear'[t] \in Ear /\ Right(block'[t], ear'[t]) /\ (block'[t].reported.occupied => ~Found(t))
  <2>1. /\ Aged(block[t], 1) \in Block
        /\ Aged(block[t], 1).reported = block[t].reported
        /\ Aged(block[t], 1).known = block[t].known
    BY SilenceTyped
  <2>2. ear'[t] \in Ear /\ Right(Aged(block[t], 1), ear'[t])
    <3>1. EarAged(t, 1) \in Ear /\ Right(Aged(block[t], 1), EarAged(t, 1))
      <4>1. 1 \in 0..1 /\ TRUE \in BOOLEAN
        OBVIOUS
      <4> QED BY <4>1, EarsTyped
    <3>2. ear'[t] = EarAged(t, 1)
      BY <1>1
    <3> QED BY <3>1, <3>2
  <2>3. block'[t] = Checked(Aged(block[t], 1), active)
    BY <1>1
  <2>4. /\ Right(block'[t], ear'[t])
        /\ block'[t].reported.occupied =>
             block'[t].reported = block[t].reported /\ block'[t].known = block[t].known
    BY <1>2, <2>1, <2>2, <2>3, CheckedRight
  <2> QED BY <2>2, <2>4 DEF Found
<1> QED BY <1>1, <1>3 DEF EarsRight, NamesRight

\* A locomotive that leaves is not heard any more; nothing else changes what was heard
LEMMA OthersNames ==
  ASSUME Clocks, EarsRight, UNCHANGED block,
         \/ UNCHANGED ear
         \/ \E t \in Blocks : ear' = [ear EXCEPT ![t].quiet = TRUE]
  PROVE  EarsRight' /\ NamesRight
<1>1. ASSUME NEW t \in Blocks
      PROVE  ear'[t] \in Ear /\ Right(block'[t], ear'[t])
  <2>1. ear[t] \in Ear /\ Right(block[t], ear[t])
    BY DEF EarsRight
  <2>2. CASE ear' = ear
    BY <2>1, <2>2
  <2>3. CASE \E u \in Blocks : ear' = [ear EXCEPT ![u].quiet = TRUE]
    <3>1. ear'[t] = ear[t] \/ ear'[t] = [ear[t] EXCEPT !.quiet = TRUE]
      BY <2>3 DEF EarsRight
    <3>2. /\ ear'[t] \in Ear /\ ear'[t].from = ear[t].from /\ ear'[t].half = ear[t].half
          /\ ear'[t].paired = ear[t].paired /\ ear'[t].age = ear[t].age
      BY <2>1, <3>1 DEF Ear
    <3> QED BY <2>1, <3>2 DEF Right
  <2> QED BY <2>2, <2>3
<1>2. ear' = [t \in Blocks |-> ear'[t]]
  BY DEF EarsRight
<1>3. NamesRight
  BY DEF NamesRight, Found
<1> QED BY <1>1, <1>2, <1>3 DEF EarsRight

LEMMA InitEars == Init => EarsRight
<1> SUFFICES ASSUME Init PROVE EarsRight
  OBVIOUS
<1>1. /\ block = [b \in Blocks |-> NewBlock] /\ ear = [t \in Blocks |-> Deaf]
  BY DEF Init, DetectorInit
<1>2. AddrPair \in Nat
  BY RailComAssumption
<1>3. Deaf \in Ear
  BY <1>2 DEF Deaf, Ear
<1>4. Right(NewBlock, Deaf)
  BY <1>2 DEF Right, HasHalf, NewBlock, Gone, Deaf
<1> QED BY <1>1, <1>3, <1>4 DEF EarsRight

LEMMA StepEars == Clocks /\ EarsRight /\ [Next]_vars => EarsRight' /\ NamesRight
<1> SUFFICES ASSUME Clocks, EarsRight, [Next]_vars PROVE EarsRight' /\ NamesRight
  OBVIOUS
<1>1. CASE \E half \in [Blocks -> 0..2] : HearCutout(0, half) \/ HearCutout(1, half)
  BY <1>1, CutoutNames
<1>2. CASE Idle
  BY <1>2, IdleNames
<1>3. CASE DataInLccTask \/ SignalInLccTask
  BY <1>3, OthersNames DEF DataInLccTask, SignalInLccTask, world, detector
<1>4. CASE \E t \in Blocks, sensed \in Rails : ConfigWritten(t, sensed)
  BY <1>4, OthersNames DEF ConfigWritten, world, detector
<1>5. CASE AliasClaimed
  BY <1>5, OthersNames DEF AliasClaimed, world, detector
<1>6. CASE \E t \in Blocks : Leave(t) \/ \E l \in Trains : Enter(t, l)
  BY <1>6, OthersNames DEF Leave, Enter, detector
<1>7. CASE UNCHANGED vars
  BY <1>7, OthersNames DEF vars, world, detector
<1> QED BY <1>1, <1>2, <1>3, <1>4, <1>5, <1>6, <1>7 DEF Next, TimePasses

\* Whatever locomotives come, go, turn and are heard or not: the detector names the
\* one of which it has heard both halves in a row, never a mixture (railcom.c:149).
THEOREM NamesWhatItHeard == Spec => NoGhost
<1>1. Clocks /\ EarsRight /\ [Next]_vars => EarsRight'
  BY StepEars
<1>2. Clocks /\ EarsRight /\ [Next]_vars => NamesRight
  BY StepEars
<1>3. NamesRight =>
        [\A t \in Blocks :
           Found(t) /\ block'[t].reported.occupied /\ (ear[t].paired \/ ear'[t].paired) =>
             block'[t].reported = Named(IF ear'[t].paired THEN ear'[t].from ELSE ear[t].from)]_vars
  BY DEF NamesRight
<1> QED BY InitEars, ClocksInvariant, <1>1, <1>2, <1>3, PTL DEF Spec, NoGhost

-----------------------------------------------------------------------------
(* The reports on the bus *)

Call == [type : {"data"}, channel : Blocks, data : Data] \cup [type : {"signal"}, channel : Blocks]
EventReport == {"exit", "entry", "west", "east"} \X Nat
Track == [known : BOOLEAN, occupied : BOOLEAN, loco : Data, entry_sent : EventReport]

\* The state of the reports
ReportsTyped ==
  /\ calls \in Seq(Call)
  /\ track \in [Blocks -> Track]
  /\ rail \in [Blocks -> Rails \cup {"off"}]
  /\ up \in BOOLEAN
  /\ told \in [Blocks -> SUBSET EventReport]
  /\ state \in [Blocks -> {"unknown", "clear", "occupied"}]
  /\ missed \in [Blocks -> BOOLEAN]

\* The entry report of a locomotive that is there is the one that went out last
EntryKnown(t) ==
  track[t].occupied => track[t].known /\ track[t].entry_sent = Entry(rail[t], track[t].loco)

\* What the bus was told of a track: that the locomotive there has entered, as last
\* sent, that every other one has left, and the occupancy
ToldRight(t) ==
  /\ \A r \in told[t] :
       IF track[t].occupied /\ r[2] = Code(t) THEN r = track[t].entry_sent ELSE r[1] = "exit"
  /\ track[t].occupied => track[t].entry_sent \in told[t]
  /\ ~track[t].known => told[t] = {}
  /\ state[t] = IF ~track[t].known THEN "unknown"
                ELSE IF track[t].occupied THEN "occupied" ELSE "clear"

Reports == ReportsTyped /\ \A t \in Blocks : EntryKnown(t) /\ (~missed[t] => ToldRight(t))

\* The blocks of a set have their ranks in it: there is one for each (railcom.c:557)
LEMMA RankTaken ==
  ASSUME NEW found \in SUBSET Blocks, NEW i \in 1..Cardinality(found)
  PROVE  \E b \in found : Cardinality({c \in found : c <= b}) = i
<1> DEFINE upTo(b) == {c \in found : c <= b}
           enough  == {b \in Nat : b <= N /\ Cardinality(upTo(b)) >= i}
<1>1. N \in Nat /\ IsFiniteSet(Blocks)
  BY RailComAssumption, FS_Interval DEF Blocks
<1>0. \A c \in found : c \in Nat /\ 1 <= c /\ c <= N
  BY <1>1 DEF Blocks
<1>2. /\ IsFiniteSet(found) /\ Cardinality(found) \in Nat
      /\ \A b \in Nat : IsFiniteSet(upTo(b)) /\ Cardinality(upTo(b)) \in Nat
  <2>1. IsFiniteSet(found)
    BY <1>1, FS_Subset
  <2>2. \A b \in Nat : upTo(b) \in SUBSET found
    OBVIOUS
  <2>3. \A b \in Nat : IsFiniteSet(upTo(b))
    BY <2>1, <2>2, FS_Subset
  <2> QED BY <2>1, <2>3, FS_CardinalityType
<1>3. N \in enough
  <2>1. upTo(N) = found
    BY <1>1, <1>0
  <2> QED BY <1>1, <1>2, <2>1
<1>4. PICK b \in enough : \A c \in enough : ~(c < b)
  <2> HIDE DEF enough
  <2>1. enough \subseteq Nat /\ enough # {}
    BY <1>3 DEF enough
  <2>2. \E b \in enough : \A c \in enough : ~(<<c, b>> \in OpToRel(<, Nat))
    BY <2>1, NatLessThanWellFounded, WFMin
  <2> QED BY <2>1, <2>2 DEF OpToRel
<1>5. b \in Nat /\ b <= N /\ Cardinality(upTo(b)) >= i
  OBVIOUS
<1>6. b # 0
  <2>1. upTo(0) = {}
    BY <1>1, <1>0
  <2>2. ~(Cardinality(upTo(0)) >= i)
    BY <2>1, FS_EmptySet, <1>2
  <2> QED BY <1>5, <2>2
<1>7. b - 1 \in Nat /\ Cardinality(upTo(b - 1)) < i
  <2>1. b - 1 \in Nat /\ b - 1 < b /\ b - 1 <= N
    BY <1>1, <1>5, <1>6
  <2>2. b - 1 \notin enough
    BY <1>4, <2>1
  <2> QED BY <1>2, <2>1, <2>2
<1>8. upTo(b) = IF b \in found THEN upTo(b - 1) \cup {b} ELSE upTo(b - 1)
  <2>1. \A c \in found : c <= b <=> (c = b \/ c <= b - 1)
    BY <1>5, <1>0
  <2> QED BY <1>5, <2>1
<1>9. b \notin upTo(b - 1)
  BY <1>5
<1> HIDE DEF upTo
<1>10. b \in found
  BY <1>2, <1>5, <1>7, <1>8
<1>11. Cardinality(upTo(b)) = Cardinality(upTo(b - 1)) + 1
  BY <1>2, <1>7, <1>8, <1>9, <1>10, FS_AddElement
<1>12. Cardinality(upTo(b)) = i
  BY <1>2, <1>5, <1>7, <1>11
<1> QED BY <1>10, <1>12 DEF upTo

\* The calls a run of the detector posts are of its blocks, and what they carry is
\* what it knows of them
LEMMA PostedTyped ==
  ASSUME Clocks', NEW occupied \in BOOLEAN
  PROVE  OnData(occupied) \in Seq(Call) /\ OnSignal \in Seq(Call)
<1> DEFINE found  == {b \in Blocks : Found(b) /\ block'[b].reported.occupied = occupied}
           nth(i) == CHOOSE b \in found : Cardinality({c \in found : c <= b}) = i
           call(i) == [type |-> "data", channel |-> nth(i), data |-> block'[nth(i)].reported]
<1>1. found \in SUBSET Blocks /\ Cardinality(found) \in Nat
  <2>1. IsFiniteSet(Blocks)
    BY RailComAssumption, FS_Interval DEF Blocks
  <2> QED BY <2>1, FS_Subset, FS_CardinalityType
<1>2. \A i \in 1..Cardinality(found) : nth(i) \in Blocks
  <2> HIDE DEF found
  <2> QED BY <1>1, RankTaken
<1>3. \A b \in Blocks : block'[b].reported \in Data
  BY DEF Clocks, ClocksTyped, Block
<1>4. \A i \in 1..Cardinality(found) : call(i) \in Call
  <2> HIDE DEF found
  <2> QED BY <1>2, <1>3 DEF Call
<1>5. OnData(occupied) = [i \in 1..Cardinality(found) |-> call(i)]
  BY DEF OnData
<1>6. OnData(occupied) \in Seq(Call)
  <2> HIDE DEF found, call
  <2> QED BY <1>1, <1>4, <1>5
<1>7. OnSignal \in Seq(Call)
  <2>1. N \in Nat
    BY RailComAssumption
  <2>2. \A b \in 1..N : [type |-> "signal", channel |-> b] \in Call
    BY DEF Call, Blocks
  <2> QED BY <2>1, <2>2 DEF OnSignal, Blocks
<1> QED BY <1>6, <1>7

LEMMA RunPosts ==
  ASSUME Clocks', calls \in Seq(Call), Report
  PROVE  calls' \in Seq(Call)
<1> DEFINE changed == IF signal' = signal THEN <<>> ELSE OnSignal
           room    == IF Len(Posted) > Room THEN Room ELSE Len(Posted)
<1>1. changed \in Seq(Call)
  <2>1. OnSignal \in Seq(Call)
    BY PostedTyped
  <2> QED BY <2>1
<1>2. Posted \in Seq(Call)
  <2> DEFINE found   == OnData(TRUE)
             vacated == OnData(FALSE)
  <2>1. found \in Seq(Call) /\ vacated \in Seq(Call)
    BY PostedTyped
  <2>2. Posted = found \o changed \o vacated
    BY DEF Posted
  <2> HIDE DEF changed, found, vacated
  <2>3. found \o changed \in Seq(Call)
    BY <1>1, <2>1, ConcatProperties
  <2> QED BY <2>1, <2>2, <2>3, ConcatProperties
<1>3. room \in Int /\ room <= Len(Posted)
  BY <1>2, RailComAssumption, LenProperties DEF Room
<1>4. SubSeq(Posted, 1, room) \in Seq(Call)
  <2>1. \A i \in 1..room : Posted[i] \in Call
    BY <1>2, <1>3, ElementOfSeq, LenProperties
  <2> QED BY <1>3, <2>1, SubSeqProperties
<1> QED BY <1>4 DEF Report

\* A report for a locomotive takes the place of the one before, and nothing is
\* forgotten but while there is no alias (events.c:220)
LEMMA SendTells ==
  ASSUME ReportsTyped, NEW t \in Blocks, NEW reports \in SUBSET EventReport,
         NEW occupancy \in {"same", "clear", "occupied"}, Send(t, reports, occupancy)
  PROVE  /\ told' \in [Blocks -> SUBSET EventReport]
         /\ state' \in [Blocks -> {"unknown", "clear", "occupied"}]
         /\ missed' \in [Blocks -> BOOLEAN]
         /\ \A u \in Blocks \ {t} : told'[u] = told[u] /\ state'[u] = state[u] /\ missed'[u] = missed[u]
         /\ ~missed'[t] =>
              /\ ~missed[t]
              /\ told'[t] = {r \in told[t] : \A new \in reports : new[2] # r[2]} \cup reports
              /\ state'[t] = IF occupancy = "same" THEN state[t] ELSE occupancy
<1> DEFINE kept == {r \in told[t] : \A new \in reports : new[2] # r[2]} \cup reports
<1>1. CASE up
  <2>1. /\ told' = [told EXCEPT ![t] = kept]
        /\ state' = [state EXCEPT ![t] = IF occupancy = "same" THEN state[t] ELSE occupancy]
        /\ missed' = missed
    BY <1>1 DEF Send
  <2>2. kept \in SUBSET EventReport
    BY DEF ReportsTyped
  <2> HIDE DEF kept
  <2> QED BY <2>1, <2>2 DEF ReportsTyped, kept
<1>2. CASE ~up
  <2>1. /\ missed' = [missed EXCEPT ![t] = missed[t] \/ reports # {} \/ occupancy # "same"]
        /\ told' = told /\ state' = state
    BY <1>2 DEF Send
  <2>2. missed[t] \in BOOLEAN /\ t \in DOMAIN missed
    BY DEF ReportsTyped
  <2>3. missed' \in [Blocks -> BOOLEAN]
    BY <2>1, <2>2 DEF ReportsTyped
  <2>4. ~missed'[t] => ~missed[t] /\ reports = {} /\ occupancy = "same"
    BY <2>1, <2>2
  <2>5. reports = {} => told[t] = kept
    OBVIOUS
  <2>6. \A u \in Blocks \ {t} : missed'[u] = missed[u]
    BY <2>1 DEF ReportsTyped
  <2> QED BY <2>1, <2>3, <2>4, <2>5, <2>6 DEF ReportsTyped
<1> QED BY <1>1, <1>2

\* A report says which locomotive, and an entry report is no exit
LEMMA EntryTyped ==
  ASSUME NEW d \in Data, NEW sensed
  PROVE  /\ AddressCode(d.address) \in Nat
         /\ Entry(sensed, d) \in EventReport
         /\ Entry(sensed, d)[1] \in {"entry", "west", "east"}
         /\ Entry(sensed, d)[2] = AddressCode(d.address)
<1>1. AddressCode(d.address) \in Nat
  <2>1. d.address[2] \in Nat
    BY DEF Data
  <2>2. 14336 + (d.address[2] % 128) \in Nat /\ 14592 + (d.address[2] % 128) \in Nat
        /\ d.address[2] % 16384 \in Nat
    BY <2>1
  <2> QED BY <2>2 DEF AddressCode
<1>2. EntryKind(sensed, d.orient) \in {"entry", "west", "east"}
  BY DEF EntryKind
<1> QED BY <1>1, <1>2 DEF Entry, EventReport

\* What is true of the reports makes every answer to a query the one the bus has
LEMMA ToldAnswers ==
  ASSUME ReportsTyped, NEW t \in Blocks, EntryKnown(t), ToldRight(t)
  PROVE  /\ \A r \in told[t] : Answer(t, r[1], r[2]) = "valid"
         /\ track[t].occupied => \E r \in told[t] : r[2] = Code(t)
         /\ state[t] = "unknown" <=> ~track[t].known
         /\ state[t] # "unknown" => OccupancyState(t, state[t] = "occupied") = "valid"
<1>1. track[t] \in Track /\ track[t].loco \in Data /\ track[t].occupied \in BOOLEAN
      /\ track[t].known \in BOOLEAN
  BY DEF ReportsTyped, Track
<1> DEFINE entry == Entry(rail[t], track[t].loco)
<1>2. /\ entry[1] \in {"entry", "west", "east"} /\ entry[2] = Code(t)
      /\ entry[1] = EntryKind(rail[t], track[t].loco.orient)
  BY <1>1, EntryTyped DEF Entry, Code
<1>3. ASSUME NEW r \in told[t]
      PROVE  Answer(t, r[1], r[2]) = "valid"
  <2>1. track[t].known
    BY DEF ToldRight
  <2>2. CASE track[t].occupied /\ r[2] = Code(t)
    <3>1. r = entry
      BY <2>2 DEF ToldRight, EntryKnown
    <3>2. r[1] # "entry" => EntryKind(rail[t], "A") # "entry"
      BY <1>2, <3>1 DEF EntryKind
    <3> HIDE DEF entry
    <3> QED BY <1>2, <2>1, <2>2, <3>1, <3>2 DEF Answer, Code
  <2>3. CASE ~(track[t].occupied /\ r[2] = Code(t))
    <3>1. r[1] = "exit"
      BY <2>3 DEF ToldRight
    <3> QED BY <2>1, <2>3, <3>1 DEF Answer, Code
  <2> QED BY <2>2, <2>3
<1>4. track[t].occupied => \E r \in told[t] : r[2] = Code(t)
  BY <1>2 DEF ToldRight, EntryKnown
<1>5. state[t] = "unknown" <=> ~track[t].known
  BY <1>1 DEF ToldRight
<1>6. state[t] # "unknown" => OccupancyState(t, state[t] = "occupied") = "valid"
  <2>1. state[t] = "occupied" <=> track[t].known /\ track[t].occupied
    BY <1>1 DEF ToldRight
  <2> QED BY <1>1, <1>5, <2>1 DEF OccupancyState
<1> QED BY <1>3, <1>4, <1>5, <1>6

\* A locomotive that entered, left, turned or came back: the bus is told
LEMMA DataReported == ASSUME Reports, DataInLccTask PROVE Reports'
<1>1. ReportsTyped /\ calls # <<>> /\ Head(calls).type = "data"
  BY DEF DataInLccTask, Reports
<1>2. Head(calls) \in Call /\ Tail(calls) \in Seq(Call)
  BY <1>1, HeadTailProperties DEF ReportsTyped
<1>3. PICK t \in Blocks, d \in Data : t = Head(calls).channel /\ d = Head(calls).data
  BY <1>1, <1>2 DEF Call
<1> DEFINE was   == track[t]
           code  == AddressCode(was.loco.address)
           same  == d.occupied /\ was.occupied /\ code = AddressCode(d.address)
           in    == Entry(rail[t], d)
           exit  == IF was.occupied /\ ~same THEN {<<"exit", code>>} ELSE {}
           entry == IF d.occupied /\ in # EntrySent(t, same) THEN {in} ELSE {}
           occupancy == IF was.known /\ was.occupied = d.occupied THEN "same"
                        ELSE IF d.occupied THEN "occupied" ELSE "clear"
           now   == [known |-> TRUE, occupied |-> d.occupied,
                     loco |-> IF d.occupied THEN d ELSE was.loco,
                     entry_sent |-> IF d.occupied THEN in ELSE was.entry_sent]
<1>4. /\ calls' \in Seq(Call) /\ rail' = rail /\ up' = up
      /\ track' = [track EXCEPT ![t] = now]
      /\ Send(t, exit \cup entry, occupancy)
  BY <1>2, <1>3 DEF DataInLccTask
<1>5. EntryKnown(t)
  BY <1>3 DEF Reports
<1>6. was \in Track /\ d.occupied \in BOOLEAN /\ was.occupied \in BOOLEAN /\ was.known \in BOOLEAN
      /\ was.loco \in Data /\ was.entry_sent \in EventReport
  BY <1>1, <1>3 DEF ReportsTyped, Track, Data
<1>7. /\ in \in EventReport /\ in[1] \in {"entry", "west", "east"} /\ in[2] = AddressCode(d.address)
      /\ code \in Nat /\ <<"exit", code>> \in EventReport
  BY <1>3, <1>6, EntryTyped DEF EventReport
<1>8. now \in Track
  BY <1>3, <1>6, <1>7 DEF Track
<1>9. exit \cup entry \in SUBSET EventReport /\ occupancy \in {"same", "clear", "occupied"}
  BY <1>7
<1>10. track' \in [Blocks -> Track] /\ track'[t] = now /\ \A u \in Blocks \ {t} : track'[u] = track[u]
  BY <1>1, <1>3, <1>4, <1>8 DEF ReportsTyped
<1>11. EntrySent(t, same) = IF same THEN was.entry_sent ELSE <<"exit", 0>>
  BY DEF EntrySent, NoEntry
<1> DEFINE told1 == {r \in told[t] : \A new \in exit \cup entry : new[2] # r[2]}
                    \cup (exit \cup entry)
<1>12. /\ told' \in [Blocks -> SUBSET EventReport]
       /\ state' \in [Blocks -> {"unknown", "clear", "occupied"}]
       /\ missed' \in [Blocks -> BOOLEAN]
       /\ \A u \in Blocks \ {t} : told'[u] = told[u] /\ state'[u] = state[u] /\ missed'[u] = missed[u]
       /\ ~missed'[t] => ~missed[t] /\ told'[t] = told1
                         /\ state'[t] = IF occupancy = "same" THEN state[t] ELSE occupancy
  <2> DEFINE sent == exit \cup entry
  <2>1. sent \in SUBSET EventReport /\ Send(t, sent, occupancy)
        /\ told1 = {r \in told[t] : \A new \in sent : new[2] # r[2]} \cup sent
    BY <1>4, <1>9
  <2> HIDE DEF sent, occupancy, told1
  <2> QED BY <1>1, <1>3, <1>9, <2>1, SendTells
<1>13. ReportsTyped'
  BY <1>1, <1>3, <1>4, <1>10, <1>12 DEF ReportsTyped
<1>14. ASSUME NEW u \in Blocks, u # t
       PROVE  EntryKnown(u)' /\ ((~missed[u])' => ToldRight(u)')
  <2>1. EntryKnown(u) /\ (~missed[u] => ToldRight(u))
    BY DEF Reports
  <2> QED BY <1>4, <1>10, <1>12, <1>14, <2>1 DEF EntryKnown, ToldRight, Code
<1>15. EntryKnown(t)'
  BY <1>4, <1>10 DEF EntryKnown
<1>16. ASSUME ~missed'[t]
       PROVE  ToldRight(t)'
  <2>1. ToldRight(t) /\ told'[t] = told1
        /\ state'[t] = IF occupancy = "same" THEN state[t] ELSE occupancy
    BY <1>3, <1>12, <1>16 DEF Reports
  <2>2. Code(t) = code /\ Code(t)' = IF d.occupied THEN in[2] ELSE code
    BY <1>7, <1>10 DEF Code
  <2>3. \A r \in told[t] : IF was.occupied /\ r[2] = code THEN r = was.entry_sent ELSE r[1] = "exit"
    BY <2>1, <2>2 DEF ToldRight
  <2>4. was.occupied => was.known /\ was.entry_sent \in told[t] /\ was.entry_sent[2] = code
    BY <1>5, <1>6, <2>1, EntryTyped DEF ToldRight, EntryKnown
  <2> HIDE DEF was, code, in, now
  <2>5. same => was.entry_sent[2] = in[2] /\ exit = {} /\ (entry = {} <=> in = was.entry_sent)
    BY <1>7, <1>11, <2>4
  <2>6. ~same => entry = IF d.occupied THEN {in} ELSE {}
    <3>1. in # <<"exit", 0>>
      BY <1>7
    <3> QED BY <1>11, <3>1
  <2>7. \A r \in told1 : IF d.occupied /\ r[2] = in[2] THEN r = in ELSE r[1] = "exit"
    <3>1. CASE same
      <4>1. CASE entry = {}
        BY <1>7, <2>3, <2>4, <2>5, <3>1, <4>1
      <4>2. CASE entry # {}
        BY <1>7, <2>3, <2>4, <2>5, <3>1, <4>2
      <4> QED BY <4>1, <4>2
    <3>2. CASE ~same
      <4>1. \A r \in exit : r = <<"exit", code>> /\ was.occupied /\ (d.occupied => code # in[2])
        BY <1>7, <3>2
      <4>2. ASSUME NEW r \in told[t], \A new \in exit \cup entry : new[2] # r[2]
            PROVE  (was.occupied => r[2] # code) /\ (d.occupied => r[2] # in[2])
        <5>1. was.occupied => <<"exit", code>> \in exit
          BY <3>2
        <5>2. d.occupied => in \in entry
          BY <2>6, <3>2
        <5> QED BY <4>2, <5>1, <5>2
      <4> HIDE DEF exit, entry, same
      <4> QED BY <1>7, <2>3, <2>6, <3>2, <4>1, <4>2
    <3> QED BY <3>1, <3>2
  <2>8. d.occupied => in \in told1
    BY <1>7, <2>4, <2>5, <2>6
  <2>9. state'[t] = IF d.occupied THEN "occupied" ELSE "clear"
    BY <1>6, <2>1 DEF ToldRight, was
  <2>10. track'[t].occupied = d.occupied /\ track'[t].known /\ (d.occupied => track'[t].entry_sent = in)
    BY <1>10 DEF now
  <2> HIDE DEF told1
  <2> QED BY <2>1, <2>2, <2>7, <2>8, <2>9, <2>10 DEF ToldRight
<1> QED BY <1>13, <1>14, <1>15, <1>16 DEF Reports

\* A write to the sensed rail: a locomotive that is there enters again
LEMMA ConfigReported ==
  ASSUME Reports, NEW t \in Blocks, NEW sensed \in Rails, ConfigWritten(t, sensed)
  PROVE  Reports'
<1> DEFINE was     == track[t]
           entry   == Entry(sensed, was.loco)
           present == was.known /\ was.occupied
<1>1. ReportsTyped /\ EntryKnown(t) /\ calls' = calls /\ up' = up
      /\ rail' = [rail EXCEPT ![t] = sensed]
  BY DEF Reports, ConfigWritten
<1>2. was \in Track /\ was.loco \in Data /\ was.occupied \in BOOLEAN /\ was.known \in BOOLEAN
  BY <1>1 DEF ReportsTyped, Track
<1>3. entry \in EventReport /\ entry[1] # "exit" /\ entry[2] = Code(t)
  BY <1>2, EntryTyped DEF Code
<1>4. /\ rail' \in [Blocks -> Rails \cup {"off"}] /\ rail'[t] = sensed
      /\ \A u \in Blocks \ {t} : rail'[u] = rail[u]
  BY <1>1 DEF ReportsTyped
<1>5. CASE present /\ entry # was.entry_sent
  <2>1. /\ track' = [track EXCEPT ![t] = [was EXCEPT !.entry_sent = entry]]
        /\ Send(t, {entry}, "same")
    BY <1>5 DEF ConfigWritten
  <2>2. [was EXCEPT !.entry_sent = entry] \in Track
    BY <1>2, <1>3 DEF Track
  <2>3. /\ track' \in [Blocks -> Track] /\ track'[t] = [was EXCEPT !.entry_sent = entry]
        /\ \A u \in Blocks \ {t} : track'[u] = track[u]
    BY <1>1, <2>1, <2>2 DEF ReportsTyped
  <2>4. /\ track'[t].known = was.known /\ track'[t].occupied = was.occupied
        /\ track'[t].loco = was.loco /\ track'[t].entry_sent = entry
    BY <1>2, <2>3 DEF Track
  <2> DEFINE told1 == {r \in told[t] : \A new \in {entry} : new[2] # r[2]} \cup {entry}
  <2> HIDE DEF was, entry
  <2>5. /\ told' \in [Blocks -> SUBSET EventReport]
        /\ state' \in [Blocks -> {"unknown", "clear", "occupied"}]
        /\ missed' \in [Blocks -> BOOLEAN]
        /\ \A u \in Blocks \ {t} : told'[u] = told[u] /\ state'[u] = state[u] /\ missed'[u] = missed[u]
        /\ ~missed'[t] => ~missed[t] /\ told'[t] = told1 /\ state'[t] = state[t]
    <3> DEFINE sent == {entry}
    <3>1. sent \in SUBSET EventReport /\ Send(t, sent, "same")
          /\ told1 = {r \in told[t] : \A new \in sent : new[2] # r[2]} \cup sent
      BY <1>3, <2>1
    <3> HIDE DEF sent, told1
    <3> QED BY <1>1, <3>1, SendTells
  <2>6. ReportsTyped'
    BY <1>1, <1>4, <2>3, <2>5 DEF ReportsTyped
  <2>7. ASSUME NEW u \in Blocks, u # t
        PROVE  EntryKnown(u)' /\ ((~missed[u])' => ToldRight(u)')
    <3>1. EntryKnown(u) /\ (~missed[u] => ToldRight(u))
      BY DEF Reports
    <3> QED BY <1>4, <2>3, <2>5, <2>7, <3>1 DEF EntryKnown, ToldRight, Code
  <2>8. EntryKnown(t)'
    BY <1>4, <1>5, <2>4 DEF EntryKnown, entry
  <2>9. ASSUME ~missed'[t] PROVE ToldRight(t)'
    <3>1. ToldRight(t) /\ told'[t] = told1 /\ state'[t] = state[t]
      BY <2>5, <2>9 DEF Reports
    <3>2. Code(t)' = Code(t)
      BY <2>4 DEF Code, was
    <3>3. \A r \in told1 : IF r[2] = Code(t) THEN r = entry ELSE r \in told[t] /\ r[1] = "exit"
      BY <1>3, <3>1 DEF ToldRight
    <3> QED BY <1>5, <2>4, <3>1, <3>2, <3>3 DEF ToldRight, was
  <2> QED BY <2>6, <2>7, <2>8, <2>9 DEF Reports
<1>6. CASE ~(present /\ entry # was.entry_sent)
  <2>1. track' = track /\ told' = told /\ state' = state /\ missed' = missed
    BY <1>6 DEF ConfigWritten
  <2>2. ReportsTyped'
    BY <1>1, <1>4, <2>1 DEF ReportsTyped
  <2>3. ASSUME NEW u \in Blocks
        PROVE  EntryKnown(u)' /\ ((~missed[u])' => ToldRight(u)')
    <3>1. EntryKnown(u) /\ (~missed[u] => ToldRight(u))
      BY DEF Reports
    <3>2. (~missed[u])' => ToldRight(u)'
      BY <2>1, <3>1 DEF ToldRight, Code
    <3>3. EntryKnown(u)'
      BY <1>4, <1>6, <2>1, <3>1 DEF EntryKnown
    <3> QED BY <3>2, <3>3
  <2> QED BY <2>2, <2>3 DEF Reports
<1> QED BY <1>5, <1>6

\* Nothing else touches the reports; the detector adds calls to the queue
LEMMA OthersReport ==
  ASSUME Reports, calls' \in Seq(Call), up' \in BOOLEAN,
         UNCHANGED <<track, rail, told, state, missed>>
  PROVE  Reports'
<1>1. ReportsTyped'
  BY DEF Reports, ReportsTyped
<1>2. ASSUME NEW t \in Blocks
      PROVE  EntryKnown(t)' /\ ((~missed[t])' => ToldRight(t)')
  BY DEF Reports, EntryKnown, ToldRight, Code
<1> QED BY <1>1, <1>2 DEF Reports

LEMMA InitReports == Init => Reports
<1> SUFFICES ASSUME Init PROVE Reports
  OBVIOUS
<1> DEFINE new == [known |-> FALSE, occupied |-> FALSE, loco |-> Vacant, entry_sent |-> NoEntry]
<1>1. /\ track = [t \in Blocks |-> new]
      /\ rail = [t \in Blocks |-> "off"] /\ up = FALSE /\ told = [t \in Blocks |-> {}]
      /\ state = [t \in Blocks |-> "unknown"] /\ missed = [t \in Blocks |-> FALSE]
  BY DEF Init
<1>2. new \in Track
  BY DEF Track, Data, EventReport, Vacant, NoAddress, NoEntry, Orients
<1>3. calls \in Seq(Call)
  <2> DEFINE last == IF N > QueueLen THEN QueueLen ELSE N
  <2>1. N \in Nat /\ last \in Nat /\ last <= N
    BY RailComAssumption
  <2>2. \A b \in 1..last : OnSignal[b] \in Call
    BY <2>1 DEF OnSignal, Call, Blocks
  <2>3. calls = SubSeq(OnSignal, 1, last)
    BY DEF Init, DetectorInit
  <2> HIDE DEF last
  <2> QED BY <2>1, <2>2, <2>3, SubSeqProperties
<1> HIDE DEF new
<1>4. ReportsTyped
  BY <1>1, <1>2, <1>3 DEF ReportsTyped
<1>5. ASSUME NEW t \in Blocks
      PROVE  EntryKnown(t) /\ ToldRight(t)
  <2>1. track[t].known = FALSE /\ track[t].occupied = FALSE /\ told[t] = {} /\ state[t] = "unknown"
    BY <1>1 DEF new
  <2> QED BY <2>1 DEF EntryKnown, ToldRight
<1> QED BY <1>4, <1>5 DEF Reports

LEMMA StepReports == Clocks' /\ Reports /\ [Next]_vars => Reports'
<1> SUFFICES ASSUME Clocks', Reports, [Next]_vars PROVE Reports'
  OBVIOUS
<1>0. calls \in Seq(Call) /\ up \in BOOLEAN
  BY DEF Reports, ReportsTyped
<1>1. CASE \E half \in [Blocks -> 0..2] : HearCutout(0, half) \/ HearCutout(1, half)
  <2>1. Report /\ UNCHANGED app
    BY <1>1 DEF HearCutout, Cutout
  <2> QED BY <1>0, <2>1, RunPosts, OthersReport DEF app
<1>2. CASE Idle
  <2>1. Report /\ UNCHANGED app
    BY <1>2 DEF Idle, Housekeeping
  <2> QED BY <1>0, <2>1, RunPosts, OthersReport DEF app
<1>3. CASE DataInLccTask
  BY <1>3, DataReported
<1>4. CASE SignalInLccTask
  <2>1. calls' \in Seq(Call)
    BY <1>0, <1>4, HeadTailProperties DEF SignalInLccTask
  <2> QED BY <1>0, <1>4, <2>1, OthersReport DEF SignalInLccTask, app
<1>5. CASE \E t \in Blocks, sensed \in Rails : ConfigWritten(t, sensed)
  BY <1>5, ConfigReported
<1>6. CASE AliasClaimed
  BY <1>0, <1>6, OthersReport DEF AliasClaimed
<1>7. CASE \E t \in Blocks : Leave(t) \/ \E l \in Trains : Enter(t, l)
  BY <1>0, <1>7, OthersReport DEF Leave, Enter, app
<1>8. CASE UNCHANGED vars
  BY <1>0, <1>8, OthersReport DEF vars, app
<1> QED BY <1>1, <1>2, <1>3, <1>4, <1>5, <1>6, <1>7, <1>8 DEF Next, TimePasses

\* The reports the bus has are the ones it gets when it asks, for any number of
\* tracks and any locomotives, whatever calls were lost on the way and whenever the
\* sensed rail is configured anew: unless an event was due with no alias.
THEOREM BusAgrees == Spec => []ReportsAgree
<1>1. Clocks /\ [Next]_vars => Clocks'
  BY StepClocks
<1>2. Reports => ReportsAgree
  <2> SUFFICES ASSUME Reports PROVE ReportsAgree
    OBVIOUS
  <2>1. ASSUME NEW t \in Blocks, ~missed[t]
        PROVE  /\ \A r \in told[t] : Answer(t, r[1], r[2]) = "valid"
               /\ track[t].occupied => \E r \in told[t] : r[2] = Code(t)
               /\ state[t] = "unknown" <=> ~track[t].known
               /\ state[t] # "unknown" => OccupancyState(t, state[t] = "occupied") = "valid"
    <3>1. ReportsTyped /\ EntryKnown(t) /\ ToldRight(t)
      BY <2>1 DEF Reports
    <3> QED BY <3>1, ToldAnswers
  <2> QED BY <2>1 DEF ReportsAgree
<1> QED BY InitClocks, InitReports, StepReports, <1>1, <1>2, PTL DEF Spec
=============================================================================
