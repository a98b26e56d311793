--------------------------- MODULE NvStorageProofs ---------------------------
(***************************************************************************)
(* Proofs about NvStorage for every set of records and every width of the  *)
(* sequence number: the two sectors implement the atomic record.           *)
(***************************************************************************)
EXTENDS NvStorage, TLAPS

\* What nv_save knows of the sector it is writing, step by step
JobOK ==
  /\ phase = "begin" => job.slot = SlotToWrite /\ job.seq = NextSeq
  /\ phase = "program" =>
       /\ sector[job.slot] = Garbage /\ NvLoad # job.data
       /\ SlotValid(1 - job.slot) => job.seq = Succ(sector[1 - job.slot].seq)
  /\ phase = "verify" => (SlotValid(job.slot) <=> NvLoad = job.data)

\* The inductive invariant
Inv == TypeOK /\ Consecutive /\ JobOK

-----------------------------------------------------------------------------
(* Facts about sequence numbers and slots *)

\* Of two consecutive sequence numbers exactly the second is the newer one, also
\* across the wrap-around.
LEMMA SuccNewer ==
  ASSUME NEW s \in Seqs
  PROVE  Succ(s) \in Seqs /\ Newer(Succ(s), s) /\ ~Newer(s, Succ(s))
  BY StorageAssumption DEF Seqs, Succ, Newer

\* A record is never taken for garbage, and has the fields it was built from.
LEMMA RecordValid ==
  ASSUME NEW r \in Record
  PROVE  r # Garbage /\ r.seq \in Seqs /\ r.data \in Data
  BY StorageAssumption DEF Record, Seqs

\* What nv_save writes over is never the newest record.
LEMMA SpareSlot ==
  ASSUME TypeOK, Consecutive
  PROVE  /\ SlotToWrite \in Slots
         /\ NextSeq \in Seqs
         /\ NewestSlot # SlotToWrite
         /\ SlotValid(1 - SlotToWrite) => /\ NewestSlot = 1 - SlotToWrite
                                          /\ NextSeq = Succ(sector[1 - SlotToWrite].seq)
         /\ ~SlotValid(1 - SlotToWrite) => ~SlotValid(SlotToWrite) /\ NewestSlot = -1
<1>1. NewestSlot \in {-1, 0, 1}
  BY DEF NewestSlot
<1>2. SlotToWrite \in Slots /\ NewestSlot # SlotToWrite
  BY <1>1 DEF SlotToWrite, Slots
<1>3. \A i \in Slots : SlotValid(i) => sector[i] \in Record
  BY DEF TypeOK, SlotValid
<1>4. NewestSlot # -1 => SlotValid(NewestSlot) /\ NewestSlot \in Slots
  BY DEF NewestSlot, Slots
<1>5. NextSeq \in Seqs
  BY <1>3, <1>4, RecordValid, SuccNewer, StorageAssumption DEF NextSeq, Seqs
<1>6. /\ SlotValid(1 - SlotToWrite) => NewestSlot = 1 - SlotToWrite
      /\ ~SlotValid(1 - SlotToWrite) => ~SlotValid(SlotToWrite) /\ NewestSlot = -1
  BY DEF SlotToWrite, NewestSlot
<1>. QED
  BY <1>2, <1>5, <1>6 DEF NextSeq, SlotToWrite

\* Erasing the spare slot does not change what a load finds.
LEMMA EraseKeepsRecord ==
  ASSUME TypeOK, Consecutive, sector' = [sector EXCEPT ![SlotToWrite] = Garbage]
  PROVE  NvLoad' = NvLoad
<1>. DEFINE i == SlotToWrite
<1>1. i \in Slots /\ 1 - i \in Slots /\ i # 1 - i
  BY SpareSlot DEF Slots
<1>2. sector'[i] = Garbage /\ sector'[1 - i] = sector[1 - i]
  BY <1>1 DEF TypeOK, Slots
<1>3. CASE SlotValid(1 - i)
  <2>1. NewestSlot = 1 - i /\ NewestSlot' = 1 - i
    BY <1>1, <1>2, <1>3, SpareSlot DEF NewestSlot, SlotValid, Slots
  <2>. QED
    BY <1>1, <1>2, <2>1 DEF NvLoad, Slots
<1>4. CASE ~SlotValid(1 - i)
  <2>1. NewestSlot = -1 /\ NewestSlot' = -1
    BY <1>1, <1>2, <1>4, SpareSlot DEF NewestSlot, SlotValid, Slots
  <2>. QED
    BY <2>1 DEF NvLoad
<1>. QED
  BY <1>3, <1>4

\* Completing a record with the next sequence number makes it the newest one.
LEMMA ProgramMakesNewest ==
  ASSUME TypeOK, NEW i \in Slots, NEW r \in Record,
         SlotValid(1 - i) => r.seq = Succ(sector[1 - i].seq),
         sector' = [sector EXCEPT ![i] = r]
  PROVE  NvLoad' = r.data /\ Consecutive' /\ SlotValid(i)'
<1>1. 1 - i \in Slots /\ i # 1 - i
  BY DEF Slots
<1>2. sector'[i] = r /\ sector'[1 - i] = sector[1 - i]
  BY <1>1 DEF TypeOK
<1>3. SlotValid(i)'
  BY <1>2, RecordValid DEF SlotValid
<1>4. NewestSlot' = i
  <2>1. CASE SlotValid(1 - i)
    <3>1. sector[1 - i].seq \in Seqs
      BY <1>1, <2>1, RecordValid DEF TypeOK, SlotValid
    <3>2. Newer(r.seq, sector[1 - i].seq) /\ ~Newer(sector[1 - i].seq, r.seq)
      BY <2>1, <3>1, SuccNewer
    <3>. QED
      BY <1>2, <1>3, <2>1, <3>2 DEF NewestSlot, SlotValid, Slots
  <2>2. CASE ~SlotValid(1 - i)
    BY <1>2, <1>3, <2>2 DEF NewestSlot, SlotValid, Slots
  <2>. QED
    BY <2>1, <2>2
<1>5. NvLoad' = r.data
  BY <1>2, <1>4 DEF NvLoad, Slots
<1>6. Consecutive'
  BY <1>1, <1>2 DEF Consecutive, SlotValid, Slots
<1>. QED
  BY <1>3, <1>5, <1>6

-----------------------------------------------------------------------------
(* The invariant *)

LEMMA InvInit == Init => Inv
<1>. SUFFICES ASSUME Init PROVE Inv
  OBVIOUS
<1>1. PICK slot \in Slots, content \in Record \cup {Garbage} :
        sector = [i \in Slots |-> IF i = slot THEN content ELSE Garbage]
  BY DEF Init
<1>2. sector \in [Slots -> Record \cup {Garbage}]
  BY <1>1
<1>3. Consecutive
  BY <1>1 DEF Consecutive, SlotValid, Slots
<1>4. job \in [slot : Slots, seq : Seqs, data : Data]
  BY StorageAssumption DEF Init, Slots, Seqs
<1>. QED
  BY <1>2, <1>3, <1>4 DEF Init, Inv, TypeOK, JobOK

\* Every step keeps the invariant and is a step of the atomic record, or leaves
\* it as it is.
LEMMA StepSimulates ==
  ASSUME Inv, [Next]_vars
  PROVE  Inv' /\ [Region!Next]_<<NvLoad, IF phase = "idle" THEN None ELSE job.data, reply>>
<1>. USE DEF Inv
<1>0. NvLoad \in Data \cup {None}
  BY RecordValid DEF TypeOK, NvLoad, NewestSlot, SlotValid, Slots
<1>1. ASSUME NEW v \in Data, Call(v)
      PROVE  Inv' /\ Region!Begin(v)
  <2>1. SlotToWrite' = SlotToWrite /\ NextSeq' = NextSeq /\ NvLoad' = NvLoad
    BY <1>1 DEF Call, SlotToWrite, NextSeq, NvLoad, NewestSlot, SlotValid
  <2>2. job' \in [slot : Slots, seq : Seqs, data : Data]
    BY <1>1, SpareSlot DEF Call
  <2>3. Inv'
    BY <1>1, <2>1, <2>2 DEF Call, TypeOK, Consecutive, SlotValid, JobOK
  <2>4. Region!Begin(v)
    BY <1>1, <2>1 DEF Call, Region!Begin
  <2>. QED
    BY <2>3, <2>4
<1>2. ASSUME AlreadySaved
      PROVE  Inv' /\ Region!Finish
  <2>1. NvLoad' = NvLoad
    BY <1>2 DEF AlreadySaved, NvLoad, NewestSlot, SlotValid
  <2>2. Inv'
    BY <1>2 DEF AlreadySaved, Return, TypeOK, Consecutive, SlotValid, JobOK
  <2>3. job.data # None
    BY StorageAssumption DEF TypeOK
  <2>4. Region!Finish
    BY <1>2, <2>1, <2>3 DEF AlreadySaved, Return, Region!Finish
  <2>. QED
    BY <2>2, <2>4
<1>3. ASSUME Blocked
      PROVE  Inv' /\ Region!Finish
  <2>1. NvLoad' = NvLoad
    BY <1>3 DEF Blocked, NvLoad, NewestSlot, SlotValid
  <2>2. Inv'
    BY <1>3 DEF Blocked, Return, TypeOK, Consecutive, SlotValid, JobOK
  <2>3. job.data # None
    BY StorageAssumption DEF TypeOK
  <2>4. Region!Finish
    BY <1>3, <2>1, <2>3 DEF Blocked, Return, Region!Finish
  <2>. QED
    BY <2>2, <2>4
<1>4. ASSUME Erase
      PROVE  Inv' /\ UNCHANGED <<NvLoad, IF phase = "idle" THEN None ELSE job.data, reply>>
  <2>. DEFINE i == SlotToWrite
  <2>1. job.slot = i /\ i \in Slots /\ 1 - i \in Slots /\ i # 1 - i
    BY <1>4, SpareSlot DEF Erase, JobOK, Slots
  <2>2. NvLoad' = NvLoad
    BY <1>4, <2>1, EraseKeepsRecord DEF Erase
  <2>3. sector'[i] = Garbage /\ sector'[1 - i] = sector[1 - i]
    BY <1>4, <2>1 DEF Erase, TypeOK
  <2>4. sector' \in [Slots -> Record \cup {Garbage}]
    BY <1>4 DEF Erase, TypeOK
  <2>5. Consecutive'
    BY <2>1, <2>3 DEF Consecutive, SlotValid, Slots
  <2>6. SlotValid(1 - i) => job.seq = Succ(sector[1 - i].seq)
    BY <1>4, <2>1, SpareSlot DEF Erase, JobOK
  <2>7. JobOK'
    BY <1>4, <2>1, <2>2, <2>3, <2>6 DEF Erase, JobOK, SlotValid
  <2>. QED
    BY <1>4, <2>2, <2>4, <2>5, <2>7 DEF Erase, TypeOK
<1>5. ASSUME Program
      PROVE  Inv' /\ [Region!Commit]_<<NvLoad, IF phase = "idle" THEN None ELSE job.data, reply>>
  <2>. DEFINE r == [seq |-> job.seq, data |-> job.data]
  <2>1. r \in Record /\ job.slot \in Slots
    BY DEF TypeOK, Record
  <2>2. ASSUME sector' = [sector EXCEPT ![job.slot] = r]
        PROVE  Inv' /\ Region!Commit
    <3>1. NvLoad' = job.data /\ Consecutive' /\ SlotValid(job.slot)'
      BY <1>5, <2>1, <2>2, ProgramMakesNewest DEF Program, JobOK
    <3>2. TypeOK'
      BY <1>5, <2>1, <2>2 DEF Program, TypeOK
    <3>3. JobOK'
      BY <1>5, <3>1 DEF Program, JobOK
    <3>4. job.data # None
      BY StorageAssumption DEF TypeOK
    <3>5. Region!Commit
      BY <1>5, <3>1, <3>4 DEF Program, Region!Commit
    <3>. QED
      BY <3>1, <3>2, <3>3, <3>5
  <2>3. ASSUME UNCHANGED sector
        PROVE  Inv' /\ UNCHANGED <<NvLoad, IF phase = "idle" THEN None ELSE job.data, reply>>
    <3>1. NvLoad' = NvLoad /\ Consecutive' /\ ~SlotValid(job.slot)'
      BY <1>5, <2>3 DEF Program, JobOK, NvLoad, NewestSlot, SlotValid, Consecutive
    <3>2. Inv'
      BY <1>5, <2>3, <3>1 DEF Program, TypeOK, JobOK
    <3>. QED
      BY <1>5, <3>1, <3>2 DEF Program
  <2>. QED
    BY <1>5, <2>2, <2>3 DEF Program
<1>6. ASSUME Verify
      PROVE  Inv' /\ Region!Finish
  <2>1. NvLoad' = NvLoad
    BY <1>6 DEF Verify, NvLoad, NewestSlot, SlotValid
  <2>2. Inv'
    BY <1>6 DEF Verify, Return, TypeOK, Consecutive, SlotValid, JobOK
  <2>3. job.data # None
    BY StorageAssumption DEF TypeOK
  <2>4. Region!Finish
    BY <1>6, <2>1, <2>3 DEF Verify, Return, JobOK, Region!Finish
  <2>. QED
    BY <2>2, <2>4
<1>7. ASSUME PowerLoss
      PROVE  Inv' /\ Region!PowerLoss
  <2>1. NvLoad' = NvLoad
    BY <1>7 DEF PowerLoss, NvLoad, NewestSlot, SlotValid
  <2>2. Inv'
    BY <1>7 DEF PowerLoss, TypeOK, Consecutive, SlotValid, JobOK
  <2>. QED
    BY <1>7, <2>1, <2>2 DEF PowerLoss, Region!PowerLoss
<1>8. ASSUME UNCHANGED vars
      PROVE  Inv' /\ UNCHANGED <<NvLoad, IF phase = "idle" THEN None ELSE job.data, reply>>
  <2>1. NvLoad' = NvLoad /\ SlotToWrite' = SlotToWrite /\ NextSeq' = NextSeq
    BY <1>8 DEF vars, SlotToWrite, NextSeq, NvLoad, NewestSlot, SlotValid
  <2>. QED
    BY <1>8, <2>1 DEF vars, TypeOK, Consecutive, SlotValid, JobOK
<1>. QED
  BY <1>1, <1>2, <1>3, <1>4, <1>5, <1>6, <1>7, <1>8 DEF Next, Region!Next

\* The sectors always have their types.
THEOREM StorageTyped == Spec => []TypeOK
<1>1. Inv => TypeOK
  BY DEF Inv
<1>. QED
  BY <1>1, InvInit, StepSimulates, PTL DEF Spec

\* Two valid sectors always hold consecutive sequence numbers, so nv_load is
\* never in doubt about the newer one.
THEOREM SectorsConsecutive == Spec => []Consecutive
<1>1. Inv => Consecutive
  BY DEF Inv
<1>. QED
  BY <1>1, InvInit, StepSimulates, PTL DEF Spec

\* nv_storage.c implements the atomic record, with power lost at any moment.
THEOREM StorageImplementsRecord == Spec => RegionSpec
<1>1. Init => Region!Init
  <2>. SUFFICES ASSUME Init PROVE Region!Init
    OBVIOUS
  <2>1. NvLoad \in Data \cup {None}
    BY InvInit, RecordValid DEF Inv, TypeOK, NvLoad, NewestSlot, SlotValid, Slots
  <2>. QED
    BY <2>1 DEF Init, Region!Init
<1>. QED
  BY <1>1, InvInit, StepSimulates, PTL DEF Spec, RegionSpec, Region!Spec

=============================================================================
