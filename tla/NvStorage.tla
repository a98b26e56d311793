----------------------------- MODULE NvStorage ------------------------------
(***************************************************************************)
(* One region of src/nv_storage.c: two flash sectors used in turn, each    *)
(* with a sequence number, and a CRC that tells a complete record from     *)
(* anything else.  Power may be lost at every point of a save.             *)
(*                                                                         *)
(* A sector is either a complete record [seq, data] or Garbage: erased,    *)
(* half erased or half programmed.  That the CRC never takes garbage for a *)
(* record is assumed.  Version and length are part of data.                *)
(***************************************************************************)
EXTENDS Integers

CONSTANTS
  Data,      \* the records that are saved
  None,      \* no record
  Garbage,   \* a sector without a valid record
  Half       \* half the number of sequence numbers, 2^31 in the code

ASSUME StorageAssumption ==
  /\ Half \in Nat /\ Half > 1
  /\ None \notin Data
  /\ Garbage \notin [seq : 0..(2 * Half - 1), data : Data]

VARIABLES
  sector,    \* the two sectors
  phase,     \* where nv_save is: "idle", "erase", "program" or "verify"
  job,       \* the slot, sequence number and data being written
  reply      \* what the last nv_save returned: "none", "ok" or "failed"

vars == <<sector, phase, job, reply>>

Slots == {0, 1}
Seqs == 0..(2 * Half - 1)
Record == [seq : Seqs, data : Data]

-----------------------------------------------------------------------------
(* Finding the newest record *)

\* slot_valid
SlotValid(slot) == sector[slot] # Garbage

\* A bug to catch: the sequence numbers are compared as they are
NewerUnsigned(s, t) == s > t

\* (int32_t)(s - t) > 0 on 32-bit sequence numbers that wrap around
Newer(s, t) ==
  \/ s > t /\ s - t < Half
  \/ s < t /\ s - t + 2 * Half < Half

\* newest_slot
NewestSlot ==
  IF SlotValid(0) /\ SlotValid(1) THEN IF Newer(sector[1].seq, sector[0].seq) THEN 1 ELSE 0
  ELSE IF SlotValid(0) THEN 0 ELSE IF SlotValid(1) THEN 1 ELSE -1

\* nv_load
NvLoad == IF NewestSlot = -1 THEN None ELSE sector[NewestSlot].data

-----------------------------------------------------------------------------
(* nv_save *)

\* The slot to write: not the one with the newest copy
SlotToWrite == IF NewestSlot = 0 THEN 1 ELSE 0

\* Sequence numbers are 32 bits wide
Succ(s) == IF s = 2 * Half - 1 THEN 0 ELSE s + 1

\* A bug to catch: the number does not change from one save to the next
SeqStays == IF NewestSlot = -1 THEN 1 ELSE sector[NewestSlot].seq

NextSeq == IF NewestSlot = -1 THEN 1 ELSE Succ(sector[NewestSlot].seq)

\* nv_save is called
Call(v) ==
  /\ phase = "idle"
  /\ phase' = "begin"
  /\ job' = [slot |-> SlotToWrite, seq |-> NextSeq, data |-> v]
  /\ reply' = "none"
  /\ UNCHANGED sector

Return(answer) ==
  /\ phase' = "idle"
  /\ reply' = answer
  /\ UNCHANGED job

\* The newest record already holds the data: nothing is written
AlreadySaved ==
  /\ phase = "begin"
  /\ NvLoad = job.data
  /\ Return("ok")
  /\ UNCHANGED sector

\* flash_safe_execute fails and has not run write_sector
Blocked ==
  /\ phase = "begin"
  /\ NvLoad # job.data
  /\ Return("failed")
  /\ UNCHANGED sector

\* write_sector: flash_range_erase
Erase ==
  /\ phase = "begin"
  /\ NvLoad # job.data
  /\ sector' = [sector EXCEPT ![job.slot] = Garbage]
  /\ phase' = "program"
  /\ UNCHANGED <<job, reply>>

\* write_sector: flash_range_program, on a sector that may be worn out
Program ==
  /\ phase = "program"
  /\ \/ sector' = [sector EXCEPT ![job.slot] = [seq |-> job.seq, data |-> job.data]]
     \/ UNCHANGED sector
  /\ phase' = "verify"
  /\ UNCHANGED <<job, reply>>

\* nv_save returns whether the slot is valid
Verify ==
  /\ phase = "verify"
  /\ Return(IF SlotValid(job.slot) THEN "ok" ELSE "failed")
  /\ UNCHANGED sector

\* Power is lost: what was written so far stays
PowerLoss ==
  /\ phase' = "idle"
  /\ reply' = "none"
  /\ UNCHANGED <<sector, job>>

-----------------------------------------------------------------------------
(* The specification *)

\* A region as a program that used it before may have left it: nothing valid, or
\* one record with any sequence number
Init ==
  /\ \E slot \in Slots, content \in Record \cup {Garbage} :
       sector = [i \in Slots |-> IF i = slot THEN content ELSE Garbage]
  /\ phase = "idle"
  /\ job \in [slot : {0}, seq : {1}, data : Data]
  /\ reply = "none"

Next ==
  \/ \E v \in Data : Call(v)
  \/ AlreadySaved \/ Blocked \/ Erase \/ Program \/ Verify
  \/ PowerLoss

Spec == Init /\ [][Next]_vars

-----------------------------------------------------------------------------
(* Properties *)

\* The variables have their types.
TypeOK ==
  /\ sector \in [Slots -> Record \cup {Garbage}]
  /\ phase \in {"idle", "begin", "program", "verify"}
  /\ job \in [slot : Slots, seq : Seqs, data : Data]
  /\ reply \in {"none", "ok", "failed"}

\* Two valid records are always consecutive, also where the sequence number
\* wraps around, so that exactly one of them is the newer one.
Consecutive ==
  SlotValid(0) /\ SlotValid(1) =>
    \/ sector[1].seq = Succ(sector[0].seq)
    \/ sector[0].seq = Succ(sector[1].seq)

\* A region of flash is the atomic record nv_storage.h promises: a save takes
\* effect at once or not at all and its answer says which; a loss of power at
\* any point of it leaves the previous record, however the two sectors and the
\* wrap-around of the sequence number stand.
Region == INSTANCE AtomicRecord WITH
  record <- NvLoad,
  call <- IF phase = "idle" THEN None ELSE job.data

RegionSpec == Region!Spec

=============================================================================
