------------------------------- MODULE RailCom -------------------------------
(***************************************************************************)
(* The RailCom detector of src/railcom.c: which locomotive stands on each  *)
(* block, from the datagrams its decoder sends in the cutouts of the track *)
(* signal.                                                                 *)
(*                                                                         *)
(* A decoder sends the two halves of its address in alternate cutouts.     *)
(* The detector pairs the halves it hears on a block, believes an address  *)
(* it has put together twice, and gives it up when no half is heard for a  *)
(* while, as long as cutouts arrive.  It runs in a task of its own, and    *)
(* what it finds goes to the LCC task as calls in that task's queue.       *)
(*                                                                         *)
(* Time passes in ticks, and ages are counted up to the first that is too  *)
(* old.  A cutout comes as the code values of the bytes in its channel 1   *)
(* window, one sequence for each block: how samples become bytes is left   *)
(* out, and a byte with a framing error or no code is the value Invalid.   *)
(***************************************************************************)
EXTENDS Naturals, Sequences, FiniteSets

CONSTANTS
  N,              \* number of blocks
  AddrPair,       \* halves this many ticks apart still make an address
  AddrTimeout,    \* a block is vacant after more ticks than this without one
  SignalTimeout,  \* no cutout for this many ticks: the signal is lost
  QueueLen        \* the calls the queue of the LCC task has room for

ASSUME RailComAssumption ==
  /\ N \in Nat \ {0}
  /\ AddrPair \in Nat /\ AddrTimeout \in Nat /\ SignalTimeout \in Nat \ {0}
  /\ QueueLen \in Nat \ {0}

Blocks == 1..N
Invalid == 64

VARIABLES
  block,      \* block[b]: what the detector knows of it
  cutoutAge,  \* ticks since the last cutout, SignalTimeout when it is lost
  signal,     \* cutouts arrive, as of the last look
  calls       \* what it says, in the queue of the LCC task

detector == <<block, cutoutAge, signal>>

-----------------------------------------------------------------------------
(* Addresses *)

NoAddress == <<"none", 0>>

\* assemble_address; address 0 is no address
AssembleAddress(hi, lo) ==
  LET d == CASE hi = 0 /\ lo < 128 -> <<"short", lo>>
             [] hi = 96            -> <<"consist", lo % 128>>
             [] hi \in 128..191    -> <<"long", (hi % 64) * 256 + lo>>
             [] OTHER              -> NoAddress
  IN  IF d[2] = 0 THEN NoAddress ELSE d

\* railcom_data_t; d.orient is the direction of the current: "A", "B" or "unknown"
Vacant == [address |-> NoAddress, orient |-> "unknown", occupied |-> FALSE]

\* An address half that was not received, or too long ago to count
Gone == [byte |-> 0, age |-> AddrPair + 1]

\* A block at power-on; `silent` is the age of last_adr_us
NewBlock ==
  [half |-> <<Gone, Gone>>, silent |-> AddrTimeout + 1,
   candidate |-> Vacant, count |-> 0, reported |-> Vacant, known |-> FALSE]

\* A bug to catch: an assembled address is believed at once
BelievedAtOnce(blk, d) ==
  [blk EXCEPT !.candidate = d, !.count = 1, !.reported = d, !.known = TRUE]

\* An assembled address counts from the second time on (candidate_count only
\* has to tell less than two from more)
Confirm(blk, d) ==
  LET again == d = blk.candidate /\ blk.count >= 1
  IN  [blk EXCEPT !.candidate = d,
                  !.count = IF again THEN 2 ELSE 1,
                  !.reported = IF again THEN d ELSE @,
                  !.known = @ \/ again]

\* handle_ch1: datagrams 1 and 2 carry the high and the low half
HandleCh1(blk, id, data, orient) ==
  LET heard == [blk EXCEPT !.half[id] = [byte |-> data, age |-> 0], !.silent = 0]
      d     == [address  |-> AssembleAddress(heard.half[1].byte, heard.half[2].byte),
                orient   |-> orient,
                occupied |-> TRUE]
  IN  IF id \notin {1, 2} THEN blk
      ELSE IF blk.half[3 - id].age > AddrPair \/ d.address = NoAddress THEN heard
      ELSE Confirm(heard, d)

\* decode_block, from the code values of the bytes: 4 bits of ID, 8 of data
DecodeBlock(blk, codes, orient) ==
  IF Len(codes) # 2 \/ \E i \in DOMAIN codes : codes[i] >= Invalid
  THEN blk
  ELSE HandleCh1(blk, codes[1] \div 4, (codes[1] % 4) * 64 + codes[2], orient)

-----------------------------------------------------------------------------
(* The task *)

\* A bug to catch: the time without cutouts counts
NotRestarted(blk, active) == blk

\* When cutouts come back, a block gets the usual time before it counts as vacated
Restarted(blk, active) ==
  IF active /\ ~signal THEN [blk EXCEPT !.silent = 0] ELSE blk

\* A bug to catch: a block nothing was ever seen on is not reported
VacatedOnly(blk, active) == active /\ blk.silent > AddrTimeout /\ blk.reported.occupied

\* No half heard for a while, and that is news
Vacated(blk, active) ==
  active /\ blk.silent > AddrTimeout /\ (blk.reported.occupied \/ ~blk.known)

\* housekeeping for one block; `active` is the signal now
Checked(blk, active) ==
  LET b == Restarted(blk, active)
  IN  IF Vacated(b, active)
      THEN [b EXCEPT !.known = TRUE, !.reported.occupied = FALSE,
                     !.count = 0, !.half = <<Gone, Gone>>]
      ELSE b

\* railcom_on_data was called for the block
Found(b) == block'[b].reported # block[b].reported \/ block'[b].known # block[b].known

\* railcom_on_data for the blocks that became occupied, or vacant, in their order
OnData(occupied) ==
  LET found   == {b \in Blocks : Found(b) /\ block'[b].reported.occupied = occupied}
      nth(i)  == CHOOSE b \in found : Cardinality({c \in found : c <= b}) = i
  IN  [i \in 1..Cardinality(found) |->
         [type |-> "data", channel |-> nth(i), data |-> block'[nth(i)].reported]]

\* railcom_on_signal for every block
OnSignal == [b \in Blocks |-> [type |-> "signal", channel |-> b]]

\* What the task posts in one run: the locomotives found, a change of the signal,
\* and the blocks vacated
Posted == OnData(TRUE) \o (IF signal' = signal THEN <<>> ELSE OnSignal) \o OnData(FALSE)

Room == QueueLen - Len(calls)

\* lcc_task_call, as far as the queue has room
Report == calls' = calls \o SubSeq(Posted, 1, IF Len(Posted) > Room THEN Room ELSE Len(Posted))

\* The blocks of which a call did not fit
Lost == {Posted[i].channel : i \in {i \in DOMAIN Posted : i > Room /\ Posted[i].type = "data"}}

\* Ages after some more ticks
Older(age, ticks, last) == IF age + ticks > last THEN last + 1 ELSE age + ticks

HalfAged(half, ticks) ==
  IF half.age + ticks > AddrPair THEN Gone ELSE [half EXCEPT !.age = @ + ticks]

Aged(blk, ticks) ==
  [blk EXCEPT !.half = [i \in 1..2 |-> HalfAged(blk.half[i], ticks)],
              !.silent = Older(blk.silent, ticks, AddrTimeout)]

\* An edge woke the task and process_cutout accepted the cutout, `ticks` after the
\* task last ran.  answers[b] is what arrived from block b: codes, and the direction
\* of the current.
Cutout(ticks, answers) ==
  /\ cutoutAge' = 0
  /\ signal' = TRUE
  /\ block' = [b \in Blocks |->
                 Checked(DecodeBlock(Aged(block[b], ticks), answers[b].codes, answers[b].orient),
                         TRUE)]
  /\ Report

\* A tick later the task runs without one: the wait timed out (HOUSEKEEPING_MS), or
\* process_cutout refused what the edge ended (too short, too long, not found, or
\* overwritten meanwhile)
Housekeeping ==
  LET active == cutoutAge + 1 < SignalTimeout
  IN  /\ cutoutAge' = Older(cutoutAge, 1, SignalTimeout - 1)
      /\ signal' = active
      /\ block' = [b \in Blocks |-> Checked(Aged(block[b], 1), active)]
      /\ Report

DetectorInit ==
  /\ block = [b \in Blocks |-> NewBlock]
  /\ cutoutAge = SignalTimeout
  /\ signal = FALSE
  /\ calls = SubSeq(OnSignal, 1, IF N > QueueLen THEN QueueLen ELSE N)
=============================================================================
