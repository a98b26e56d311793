---------------------------- MODULE FirmwareProofs ----------------------------
(***************************************************************************)
(* Proofs about FirmwareUpdate for any partitions, images, clients and     *)
(* faults: the node always has an image to start from, what a client has   *)
(* been told is stored is stored, a good image is not rejected, and a      *)
(* client told that it succeeded has its image in place.                   *)
(***************************************************************************)
EXTENDS FirmwareUpdate, SequenceTheorems, TLAPS

\* Another partition than r can be started
Fallback(r) == \E p \in Partitions \ {r} : bought[p] /\ Intact(p)

\* What a transfer may overwrite is never what the node would start without it: the
\* running image once it is confirmed, and the one before it until then.
BootInv ==
  /\ DOMAIN flash = Partitions /\ DOMAIN bought = Partitions
  /\ running \in Partitions /\ target \in Partitions
  /\ Intact(running)
  /\ IF onTrial THEN Fallback(running) ELSE bought[running]
  /\ frozen \/ startNew => ~onTrial /\ target # running

\* Only partition t may change
Spares(t) ==
  /\ DOMAIN flash' = Partitions /\ DOMAIN bought' = Partitions
  /\ \A q \in Partitions \ {t} : flash'[q] = flash[q] /\ bought'[q] = bought[q]

-----------------------------------------------------------------------------
(* Flash *)

LEMMA FlushSpares ==
  ASSUME BootInv, NEW at, NEW sector, NEW outcome, FlushSector(at, sector, outcome)
  PROVE  Spares(target)
BY DEF BootInv, FlushSector, Spares

LEMMA NoFlushSpares ==
  ASSUME BootInv, NEW t, NoFlush
  PROVE  Spares(t)
BY DEF BootInv, NoFlush, Spares

LEMMA SparedIsIntact ==
  ASSUME NEW q, flash'[q] = flash[q]
  PROVE  Intact(q)' <=> Intact(q)
BY DEF Intact, Holds

\* Writing to the partition of an upgrade, which ends or goes on
LEMMA TransferStep ==
  ASSUME BootInv, frozen, Spares(target),
         UNCHANGED <<running, onTrial, target>>
  PROVE  BootInv'
<1>1. running # target /\ running \in Partitions /\ ~onTrial
  BY DEF BootInv
<1>2. flash'[running] = flash[running] /\ bought'[running] = bought[running]
  BY <1>1 DEF Spares
<1>3. Intact(running)'
  BY <1>2, SparedIsIntact DEF BootInv
<1> QED
  BY <1>1, <1>2, <1>3 DEF BootInv, Spares

\* Nothing that matters to the next boot changes
LEMMA IdleStep ==
  ASSUME BootInv, UNCHANGED <<flash, bought, running, onTrial, target>>,
         frozen' \/ startNew' => frozen \/ startNew
  PROVE  BootInv'
BY DEF BootInv, Fallback, Intact, Holds

-----------------------------------------------------------------------------
(* Boots *)

\* A normal boot of a partition that can be started
LEMMA NormalBootStep ==
  ASSUME NEW p \in Partitions, DOMAIN flash' = Partitions, DOMAIN bought' = Partitions,
         bought'[p], Intact(p)', Boot(p, FALSE)
  PROVE  BootInv'
<1>1. running' = p /\ target' = p /\ onTrial' = FALSE /\ frozen' = FALSE /\ startNew' = FALSE
  BY DEF Boot
<1>2. Intact(running)'
  BY <1>1 DEF Intact, Holds
<1> QED
  BY <1>1, <1>2 DEF BootInv

\* The trial of a new image leaves the image before it to go back to
LEMMA TrialBootStep ==
  ASSUME BootInv, startNew, Intact(target), Boot(target, TRUE), UNCHANGED <<flash, bought>>
  PROVE  BootInv'
<1>1. /\ running' = target /\ target' = target /\ onTrial' = TRUE
      /\ frozen' = FALSE /\ startNew' = FALSE
  BY DEF Boot
<1>2. running \in Partitions \ {target} /\ bought[running] /\ Intact(running)
  BY DEF BootInv
<1>3. Intact(running)'
  BY <1>1 DEF Intact, Holds
<1>4. Fallback(target)
  BY <1>2 DEF Fallback
<1>5. Fallback(running)'
  BY <1>1, <1>4 DEF Fallback, Intact, Holds
<1> QED
  BY <1>1, <1>3, <1>5 DEF BootInv

LEMMA RebootStep ==
  ASSUME BootInv, FirmwareUpdateReboot
  PROVE  BootInv'
<1>1. UNCHANGED <<flash, bought>>
  BY DEF FirmwareUpdateReboot
<1>2. CASE startNew /\ Intact(target) /\ Boot(target, TRUE)
  BY <1>1, <1>2, TrialBootStep
<1>3. CASE NormalBoot
  <2>1. PICK p \in Partitions : bought[p] /\ Intact(p) /\ Boot(p, FALSE)
    BY <1>3 DEF NormalBoot
  <2>2. Intact(p)' /\ bought'[p]
    BY <1>1, <2>1, SparedIsIntact
  <2> QED
    BY <1>1, <2>1, <2>2, NormalBootStep DEF BootInv
<1> QED
  BY <1>2, <1>3 DEF FirmwareUpdateReboot

-----------------------------------------------------------------------------
(* The steps *)

LEMMA BootInvInit == Init => BootInv
<1> SUFFICES ASSUME Init PROVE BootInv
  OBVIOUS
<1>1. First \in Partitions /\ FirstImage \in Compatible /\ FirstImage \in Images
      /\ Size[FirstImage] \in Nat /\ PartSize \in Nat /\ Size[FirstImage] <= PartSize
  BY FirmwareAssumption
<1>2. \A k \in 1..Size[FirstImage] : flash[First][k] = <<FirstImage, k>>
  BY <1>1 DEF Init
<1>3. Intact(First)
  BY <1>1, <1>2 DEF Intact, Holds
<1> QED
  BY <1>1, <1>3 DEF Init, BootInv

LEMMA FreezeStep ==
  ASSUME BootInv, NEW part \in Partitions, NEW reply, Freeze(part, reply),
         UNCHANGED <<flash, bought, running, onTrial>>
  PROVE  BootInv'
<1>1. CASE KeepTransfer
  BY <1>1, IdleStep DEF KeepTransfer, transferVars
<1>2. CASE FreezeReply(part) = "OK" /\ target' = part
  <2>1. ~onTrial /\ part # running
    BY <1>2 DEF FreezeReply
  <2> QED
    BY <1>2, <2>1 DEF BootInv, Intact, Holds
<1> QED
  BY <1>1, <1>2 DEF Freeze

LEMMA WriteStep ==
  ASSUME BootInv, NEW i, NEW address, NEW n, NEW outcome, NEW reply,
         Write(i, address, n, outcome, reply), UNCHANGED <<running, onTrial>>
  PROVE  BootInv'
<1>1. UNCHANGED <<frozen, target, startNew>>
  BY DEF Write
<1>2. CASE NoFlush
  BY <1>1, <1>2, IdleStep DEF NoFlush
<1>3. CASE frozen /\ Store(address, Data(i, address, n), outcome, reply)
  <2>1. NoFlush \/ \E at, sector : FlushSector(at, sector, outcome)
    BY <1>3 DEF Store
  <2>2. Spares(target)
    BY <2>1, FlushSpares, NoFlushSpares
  <2> QED
    BY <1>1, <1>3, <2>2, TransferStep
<1> QED
  BY <1>2, <1>3 DEF Write, StartOver

LEMMA UnfreezeStep ==
  ASSUME BootInv, NEW outcome, NEW reply, Unfreeze(outcome, reply), UNCHANGED <<running, onTrial>>
  PROVE  BootInv'
<1>1. CASE KeepTransfer /\ NoFlush
  BY <1>1, IdleStep DEF KeepTransfer, transferVars, NoFlush
<1>2. CASE frozen /\ EndUpgrade(outcome, reply)
  <2>1. UNCHANGED target /\ (NoFlush \/ FlushSector(flushed, Padded, outcome))
    BY <1>2 DEF EndUpgrade
  <2>2. Spares(target)
    BY <2>1, FlushSpares, NoFlushSpares
  <2> QED
    BY <1>2, <2>1, <2>2, TransferStep
<1> QED
  BY <1>1, <1>2 DEF Unfreeze

LEMMA BootInvNext == BootInv /\ [Next]_vars => BootInv'
<1> SUFFICES ASSUME BootInv, [Next]_vars PROVE BootInv'
  OBVIOUS
<1>1. CASE ClientFreezes
  <2>1. PICK part \in Partitions, reply \in Replies : Freeze(part, reply)
    BY <1>1 DEF ClientFreezes
  <2> QED
    BY <1>1, <2>1, FreezeStep DEF ClientFreezes, bootVars, trialVars
<1>2. CASE \E n \in Lens : ClientPrepares(n)
  BY <1>2, IdleStep DEF ClientPrepares, bootVars, trialVars, transferVars
<1>3. CASE ClientWrites
  <2>1. PICK outcome \in Outcomes, reply \in Replies :
          Write(client.image, client.pos, client.len, outcome, reply)
    BY <1>3 DEF ClientWrites
  <2> QED
    BY <1>3, <2>1, WriteStep DEF ClientWrites, trialVars
<1>4. CASE ClientUnfreezes
  <2>1. PICK outcome \in Outcomes, reply \in Replies : Unfreeze(outcome, reply)
    BY <1>4 DEF ClientUnfreezes
  <2> QED
    BY <1>4, <2>1, UnfreezeStep DEF ClientUnfreezes, trialVars
<1>5. CASE \E i \in Images : NewClient(i)
  BY <1>5, IdleStep DEF NewClient, bootVars, trialVars, transferVars
<1>6. CASE RunTimers
  BY <1>6, RebootStep DEF RunTimers
<1>7. CASE RebootCommand
  BY <1>7, IdleStep DEF RebootCommand, bootVars, trialVars, transferVars
<1>8. CASE PowerLoss
  <2>1. NoFlush \/ \E at : FlushSector(at, <<>>, "damaged")
    BY <1>8 DEF PowerLoss, NoFlush
  <2>2. Spares(target)
    BY <2>1, FlushSpares, NoFlushSpares
  <2>3. PICK p \in Partitions : bought'[p] /\ Intact(p)' /\ Boot(p, FALSE)
    BY <1>8 DEF PowerLoss
  <2> QED
    BY <2>2, <2>3, NormalBootStep DEF Spares
<1>9. CASE NodeUp
  BY <1>9, IdleStep DEF NodeUp, transferVars
<1>10. CASE ConfirmTimer
  BY <1>10, IdleStep DEF ConfirmTimer, transferVars
<1>11. CASE ConfirmInTask
  <2>1. UNCHANGED <<flash, running, frozen, target, startNew>>
    BY <1>11 DEF ConfirmInTask, transferVars
  <2>2. CASE bought' = [bought EXCEPT ![running] = TRUE] /\ onTrial' = FALSE
    BY <2>1, <2>2 DEF BootInv, Intact, Holds
  <2>3. CASE UNCHANGED <<bought, onTrial>>
    BY <2>1, <2>3, IdleStep
  <2> QED
    BY <1>11, <2>2, <2>3 DEF ConfirmInTask
<1>12. CASE TrialExpired
  <2>1. CASE FirmwareUpdateReboot
    BY <2>1, RebootStep
  <2>2. CASE UNCHANGED <<flash, bought, running, onTrial, frozen, transferVars>>
    BY <2>2, IdleStep DEF transferVars
  <2> QED
    BY <1>12, <2>1, <2>2 DEF TrialExpired, LccTaskReboot
<1>13. CASE UNCHANGED vars
  BY <1>13, IdleStep DEF vars, bootVars, trialVars, transferVars
<1> QED
  BY <1>1, <1>2, <1>3, <1>4, <1>5, <1>6, <1>7, <1>8, <1>9, <1>10, <1>11, <1>12, <1>13 DEF Next

\* No upgrade can brick the node: whatever a client sends, whichever flash writes
\* fail and whenever the power is lost, there is a confirmed and complete image.
THEOREM NodeAlwaysBoots == Spec => []Bootable
<1>1. BootInv => Bootable
  BY DEF BootInv, Bootable, Fallback
<1> QED
  BY <1>1, BootInvInit, BootInvNext, PTL DEF Spec

-----------------------------------------------------------------------------
(* The state of a transfer *)

AnyCell == Nat \X Nat

Phases == {"none", "freeze", "write", "unfreeze", "giveup", "done", "failed"}

NodeTyped ==
  /\ flash \in [Partitions -> [1..PartSize -> AnyCell]]
  /\ target \in Partitions
  /\ received \in Nat /\ flushed \in Nat
  /\ buf \in Seq(AnyCell)
  /\ last \in Nat \X Nat

ClientTyped ==
  /\ client \in [image : Images, phase : Phases, pos : Nat, len : Nat, fresh : BOOLEAN]
  /\ client.len <= Sector
  /\ client.pos + client.len <= Size[client.image]

\* The cells accepted are those in the flash and in the buffer, and the last write
\* accepted is the one that ends there.
Counted ==
  /\ flushed + Len(buf) = received
  /\ Len(buf) < Sector
  /\ received <= PartSize
  /\ received > 0 => last[2] > 0 /\ last[1] + last[2] = received

\* A client that writes knows how far the node is, but for one write whose answer
\* it has not heard; one that ends its transfer has sent its whole image.
WriterInStep ==
  client.phase = "write" /\ client.fresh =>
    /\ frozen
    /\ \/ client.pos = 0 \/ received = client.pos
       \/ /\ client.len > 0 /\ last = <<client.pos, client.len>>
          /\ received = client.pos + client.len

EnderInStep ==
  client.phase = "unfreeze" /\ client.fresh =>
    /\ client.pos = Size[client.image]
    /\ IF frozen THEN received = client.pos ELSE rebooting \/ unfreezeResult # "OK"

TransferInv ==
  /\ NodeTyped
  /\ ClientTyped
  /\ frozen => Counted
  /\ client.phase = "none" => ~frozen
  /\ client.phase = "freeze" => client.pos = 0
  /\ WriterInStep
  /\ EnderInStep

\* All that is stored comes from image i, in its place
Stored(i) ==
  /\ \A k \in 1..flushed : flash[target][k] = <<i, k>>
  /\ \A k \in 1..Len(buf) : buf[k] = <<i, flushed + k>>

StoredInv == frozen => Stored(client.image)

-----------------------------------------------------------------------------
(* Writes *)

LEMMA Constant ==
  /\ PartSize \in Nat /\ Sector \in Nat \ {0} /\ Images \subseteq Nat
  /\ \A i \in Images : Size[i] \in Nat \ {0}
  /\ Lens \subseteq 1..Sector /\ Compatible \subseteq Images
BY FirmwareAssumption

LEMMA FlushResult ==
  ASSUME NodeTyped, NEW at \in Nat, NEW sector, NEW outcome, FlushSector(at, sector, outcome),
         outcome = "done" => \A k \in 1..Sector : sector[k] \in AnyCell
  PROVE  /\ flash' \in [Partitions -> [1..PartSize -> AnyCell]]
         /\ \A k \in 1..PartSize : flash'[target][k] =
              IF k \notin at + 1 .. at + Sector \/ outcome = "untouched" THEN flash[target][k]
              ELSE IF outcome = "done" THEN sector[k - at] ELSE Blank
<1>. DEFINE cell(k) == IF k \notin at + 1 .. at + Sector \/ outcome = "untouched"
                       THEN flash[target][k]
                       ELSE IF outcome = "done" THEN sector[k - at] ELSE Blank
<1>1. flash' = [flash EXCEPT ![target] = [k \in 1..PartSize |-> cell(k)]]
  BY DEF FlushSector
<1>2. ASSUME NEW k \in 1..PartSize PROVE cell(k) \in AnyCell
  <2>1. flash[target][k] \in AnyCell /\ Blank \in AnyCell
    BY DEF NodeTyped, Blank, AnyCell
  <2>2. k \in at + 1 .. at + Sector => k - at \in 1..Sector
    BY Constant
  <2>. QED
    BY <2>1, <2>2
<1>. HIDE DEF cell
<1>3. [k \in 1..PartSize |-> cell(k)] \in [1..PartSize -> AnyCell]
  BY <1>2
<1>4. flash' \in [Partitions -> [1..PartSize -> AnyCell]]
  BY <1>1, <1>3 DEF NodeTyped
<1>5. \A k \in 1..PartSize : flash'[target][k] = cell(k)
  BY <1>1 DEF NodeTyped
<1>. QED
  BY <1>4, <1>5 DEF cell

LEMMA DataCells ==
  ASSUME NEW i \in Images, NEW address \in Nat, NEW n \in Nat
  PROVE  /\ Data(i, address, n) \in Seq(AnyCell) /\ Len(Data(i, address, n)) = n
         /\ \A k \in 1..n : Data(i, address, n)[k] = <<i, address + k>>
<1>1. \A k \in 1..n : <<i, address + k>> \in AnyCell
  BY Constant DEF AnyCell
<1>2. Data(i, address, n) \in [1..n -> AnyCell]
  BY <1>1 DEF Data
<1>3. Data(i, address, n) \in Seq(AnyCell) /\ Len(Data(i, address, n)) = n
  BY <1>2, SeqDef
<1>. QED
  BY <1>3 DEF Data

\* What the answer to a write of n cells of image i tells
WriteResult(i, address, n, reply) ==
  /\ NodeTyped' /\ Counted'
  /\ reply = "OK" => received' = address + n /\ last' = <<address, n>>
  /\ reply = "TEMPORARY" => received' = address /\ last' = last
  /\ reply = "ERROR" => /\ received' = IF address = 0 THEN 0 ELSE received
                        /\ \/ address = 0 /\ i \notin Compatible
                           \/ address # 0 /\ address # received /\ ~Resent(address, n)
  /\ reply \in Replies
  /\ Stored(i) => Stored(i)'

LEMMA StoreStep ==
  ASSUME NodeTyped, Counted, NEW i \in Images, NEW address \in Nat, NEW n \in 1..Sector,
         address + n <= PartSize, NEW outcome, NEW reply, UNCHANGED target,
         ~Resent(address, n), Store(address, Data(i, address, n), outcome, reply)
  PROVE  WriteResult(i, address, n, reply)
<1>. DEFINE data == Data(i, address, n)
            got  == IF address = 0 THEN 0 ELSE received
            done == IF address = 0 THEN 0 ELSE flushed
            kept == IF address = 0 THEN <<>> ELSE buf
            all  == kept \o data
            outOfOrder == address # got \/ got < done
            accepted == ~outOfOrder /\ (Full(all) => outcome = "done")
<1>0. n \in Nat \ {0} /\ Sector \in Nat \ {0} /\ PartSize \in Nat
  BY Constant
<1>1. /\ reply = IF outOfOrder THEN "ERROR" ELSE IF accepted THEN "OK" ELSE "TEMPORARY"
      /\ IF ~outOfOrder /\ Full(all) THEN FlushSector(done, all, outcome) ELSE NoFlush
      /\ received' = IF accepted THEN address + Len(data) ELSE got
      /\ flushed' = IF accepted /\ Full(all) THEN done + Sector ELSE done
      /\ buf' = IF ~accepted THEN kept
                ELSE IF Full(all) THEN SubSeq(all, Sector + 1, Len(all)) ELSE all
      /\ last' = IF accepted THEN <<address, Len(data)>> ELSE last
  BY DEF Store
<1>2. /\ got \in Nat /\ done \in Nat /\ kept \in Seq(AnyCell) /\ Len(kept) \in Nat
      /\ done + Len(kept) = got /\ Len(kept) < Sector /\ got <= PartSize /\ ~(got < done)
  <2>1. Len(buf) \in Nat
    BY LenProperties DEF NodeTyped
  <2>2. <<>> \in Seq(AnyCell) /\ Len(<<>>) = 0
    BY EmptySeq
  <2>. QED
    BY <2>1, <2>2, Constant DEF NodeTyped, Counted
<1>3. /\ data \in Seq(AnyCell) /\ Len(data) = n
      /\ \A k \in 1..n : data[k] = <<i, address + k>>
  BY <1>0, DataCells
<1>4. address = 0 \/ Stored(i) =>
        /\ \A k \in 1..done : flash[target][k] = <<i, k>>
        /\ \A k \in 1..Len(kept) : kept[k] = <<i, done + k>>
  BY EmptySeq DEF Stored
<1>5. got = IF address = 0 THEN 0 ELSE received
  OBVIOUS
<1>6. address = 0 \/ (got = received /\ done = flushed /\ kept = buf)
  OBVIOUS
<1>. HIDE DEF data, got, done, kept
<1>7. /\ all \in Seq(AnyCell) /\ Len(all) = Len(kept) + n /\ Len(all) \in Nat
      /\ \A k \in 1..Len(all) : all[k] = IF k <= Len(kept) THEN kept[k] ELSE data[k - Len(kept)]
      /\ \A k \in 1..Len(all) : all[k] \in AnyCell
  <2>1. all \in Seq(AnyCell) /\ Len(all) = Len(kept) + Len(data)
        /\ \A k \in 1..Len(kept) + Len(data) :
             all[k] = IF k <= Len(kept) THEN kept[k] ELSE data[k - Len(kept)]
    BY <1>2, <1>3, ConcatProperties
  <2>. HIDE DEF all
  <2>. QED
    BY <2>1, <1>2, <1>3, ElementOfSeq
<1>8. address = got /\ (address = 0 \/ Stored(i)) => \A k \in 1..Len(all) : all[k] = <<i, done + k>>
  <2>. SUFFICES ASSUME address = got, address = 0 \/ Stored(i), NEW k \in 1..Len(all)
                PROVE  all[k] = <<i, done + k>>
    OBVIOUS
  <2>. HIDE DEF all
  <2>1. CASE k <= Len(kept)
    <3>1. k \in 1..Len(kept)
      BY <2>1, <1>2
    <3>2. all[k] = kept[k]
      BY <2>1, <1>7
    <3>3. kept[k] = <<i, done + k>>
      BY <3>1, <1>4
    <3>. QED
      BY <3>2, <3>3
  <2>2. CASE ~(k <= Len(kept))
    <3>1. done \in Int /\ Len(kept) \in Int /\ k \in Int /\ n \in Int
          /\ k <= Len(kept) + n /\ address = done + Len(kept)
      BY <1>0, <1>2, <1>7
    <3>2. k - Len(kept) \in 1..n /\ address + (k - Len(kept)) = done + k
      BY <2>2, <3>1
    <3>. QED
      BY <2>2, <3>2, <1>3, <1>7
  <2>. QED
    BY <2>1, <2>2
<1>. HIDE DEF all
<1>9. CASE address # got
  <2>1. address # 0 /\ got = received /\ done = flushed /\ kept = buf
    BY <1>5, <1>6, <1>9
  <2>2. /\ reply = "ERROR" /\ UNCHANGED <<flash, received, flushed, buf, last>>
    BY <1>1, <1>9, <2>1 DEF NoFlush
  <2>3. NodeTyped' /\ Counted' /\ Stored(i)' = Stored(i)
    BY <2>2 DEF NodeTyped, Counted, Stored
  <2>. QED
    BY <1>9, <2>1, <2>2, <2>3 DEF WriteResult, Replies
<1>10. CASE address = got /\ ~Full(all)
  <2>1. /\ reply = "OK" /\ NoFlush /\ received' = address + n /\ flushed' = done /\ buf' = all
        /\ last' = <<address, n>>
    BY <1>1, <1>2, <1>3, <1>10
  <2>2. Len(all) < Sector
    BY <1>7, <1>10, Constant DEF Full
  <2>3. NodeTyped'
    <3>1. received' \in Nat /\ last' \in Nat \X Nat
      BY <1>0, <2>1
    <3>. QED
      BY <1>2, <1>7, <2>1, <3>1 DEF NodeTyped, NoFlush
  <2>4. Counted'
    <3>1. done + Len(all) = address + n /\ n > 0
      <4>1. Len(all) = Len(kept) + n
        BY <1>7
      <4>2. done + Len(kept) = address /\ done \in Nat /\ Len(kept) \in Nat
        BY <1>2, <1>10
      <4>3. n \in Nat \ {0}
        BY <1>0
      <4>. HIDE DEF all
      <4>. QED
        BY <4>1, <4>2, <4>3
    <3>2. last'[1] = address /\ last'[2] = n
      BY <2>1
    <3>. QED
      BY <2>1, <2>2, <3>1, <3>2 DEF Counted
  <2>5. address = 0 \/ Stored(i) => Stored(i)'
    BY <1>4, <1>8, <1>10, <2>1 DEF Stored, NoFlush
  <2>. QED
    BY <2>1, <2>3, <2>4, <2>5 DEF WriteResult, Replies
<1>11. CASE address = got /\ Full(all) /\ outcome = "done"
  <2>. DEFINE rest == SubSeq(all, Sector + 1, Len(all))
  <2>1. /\ reply = "OK" /\ FlushSector(done, all, outcome) /\ received' = address + n
        /\ flushed' = done + Sector /\ buf' = rest /\ last' = <<address, n>>
    BY <1>1, <1>2, <1>3, <1>11
  <2>2. Sector <= Len(all) /\ Sector \in Nat \ {0} /\ PartSize \in Nat
    BY <1>11, Constant, <1>7 DEF Full
  <2>3. /\ rest \in Seq(AnyCell) /\ Len(rest) = Len(all) - Sector
        /\ \A k \in 1..Len(rest) : rest[k] = all[Sector + k]
    <3>1. /\ SubSeq(all, Sector + 1, Len(all)) \in Seq(AnyCell)
          /\ Len(SubSeq(all, Sector + 1, Len(all))) =
               IF Sector + 1 <= Len(all) THEN Len(all) - (Sector + 1) + 1 ELSE 0
          /\ \A k \in 1 .. Len(all) - (Sector + 1) + 1 :
               SubSeq(all, Sector + 1, Len(all))[k] = all[Sector + 1 + k - 1]
      BY <1>7, <2>2, SubSeqProperties
    <3>2. /\ rest \in Seq(AnyCell)
          /\ Len(rest) = IF Sector + 1 <= Len(all) THEN Len(all) - (Sector + 1) + 1 ELSE 0
          /\ \A k \in 1 .. Len(all) - (Sector + 1) + 1 : rest[k] = all[Sector + 1 + k - 1]
      BY <3>1
    <3>. HIDE DEF rest
    <3>3. Len(rest) = Len(all) - Sector /\ Len(all) - (Sector + 1) + 1 = Len(rest)
      <4>1. Len(all) \in Nat /\ Sector \in Nat /\ Sector <= Len(all)
        BY <1>7, <2>2
      <4>2. Len(rest) = IF Sector + 1 <= Len(all) THEN Len(all) - (Sector + 1) + 1 ELSE 0
        BY <3>2
      <4>. QED
        BY <4>1, <4>2
    <3>4. ASSUME NEW k \in 1..Len(rest) PROVE rest[k] = all[Sector + k]
      <4>1. Sector + 1 + k - 1 = Sector + k
        BY <2>2
      <4>. QED
        BY <3>2, <3>3, <3>4, <4>1
    <3>. QED
      BY <3>2, <3>3, <3>4
  <2>. HIDE DEF rest
  <2>4. \A k \in 1..Sector : all[k] \in AnyCell
    BY <1>7, <2>2
  <2>5. /\ flash' \in [Partitions -> [1..PartSize -> AnyCell]]
        /\ \A k \in 1..PartSize : flash'[target][k] =
             IF k \notin done + 1 .. done + Sector THEN flash[target][k] ELSE all[k - done]
    BY <1>2, <1>11, <2>1, <2>4, FlushResult
  <2>6. received' \in Nat /\ flushed' \in Nat /\ Len(rest) \in Nat /\ last' \in Nat \X Nat
    BY <1>2, <1>7, <2>1, <2>2, <2>3
  <2>7. Counted'
    <3>1. /\ flushed' = done + Sector /\ received' = address + n /\ Len(buf') = Len(all) - Sector
          /\ last'[1] = address /\ last'[2] = n
      BY <2>1, <2>3
    <3>2. Len(all) = Len(kept) + n /\ Len(kept) < Sector /\ done + Len(kept) = address /\ n <= Sector
      BY <1>0, <1>2, <1>7, <1>11
    <3>3. done \in Nat /\ Len(kept) \in Nat /\ n \in Nat \ {0} /\ Sector \in Nat \ {0}
      BY <1>0, <1>2
    <3>4. flushed' + Len(buf') = received' /\ Len(buf') < Sector /\ n > 0
      BY <3>1, <3>2, <3>3
    <3>. QED
      BY <3>1, <3>4 DEF Counted
  <2>8. NodeTyped'
    BY <2>1, <2>3, <2>5, <2>6 DEF NodeTyped
  <2>9. ASSUME address = 0 \/ Stored(i) PROVE Stored(i)'
    <3>1. ASSUME NEW k \in 1 .. done + Sector PROVE flash'[target][k] = <<i, k>>
      <4>1. k \in 1..PartSize
        BY <1>2, <1>7, <1>11, <2>2
      <4>2. CASE k <= done
        <5>1. k \in 1..done /\ k \notin done + 1 .. done + Sector
          BY <1>2, <2>2, <4>1, <4>2
        <5>2. flash[target][k] = <<i, k>>
          BY <1>4, <2>9, <5>1
        <5>. QED
          BY <2>5, <4>1, <5>1, <5>2
      <4>3. CASE ~(k <= done)
        <5>1. k \in done + 1 .. done + Sector /\ k - done \in 1..Len(all) /\ done + (k - done) = k
          BY <4>3, <1>2, <1>7, <2>2
        <5>. QED
          BY <4>1, <5>1, <1>8, <1>11, <2>5, <2>9
      <4>. QED
        BY <4>2, <4>3
    <3>2. ASSUME NEW k \in 1..Len(rest) PROVE rest[k] = <<i, done + Sector + k>>
      <4>1. Sector + k \in 1..Len(all) /\ done + (Sector + k) = done + Sector + k
        BY <1>2, <1>7, <2>2, <2>3
      <4>. QED
        BY <4>1, <1>8, <1>11, <2>3, <2>9
    <3>. QED
      BY <2>1, <3>1, <3>2 DEF Stored
  <2>. QED
    BY <2>1, <2>7, <2>8, <2>9 DEF WriteResult, Replies
<1>12. CASE address = got /\ Full(all) /\ outcome # "done"
  <2>1. /\ reply = "TEMPORARY" /\ FlushSector(done, all, outcome) /\ received' = got
        /\ flushed' = done /\ buf' = kept /\ last' = last
    BY <1>1, <1>2, <1>12
  <2>2. /\ flash' \in [Partitions -> [1..PartSize -> AnyCell]]
        /\ \A k \in 1..PartSize : flash'[target][k] =
             IF k \notin done + 1 .. done + Sector \/ outcome = "untouched"
             THEN flash[target][k] ELSE Blank
    BY <1>2, <1>12, <2>1, FlushResult
  <2>3. NodeTyped'
    BY <1>2, <2>1, <2>2 DEF NodeTyped
  <2>4. Counted'
    BY <1>2, <1>5, <2>1 DEF Counted
  <2>5. ASSUME address = 0 \/ Stored(i) PROVE Stored(i)'
    <3>1. \A k \in 1..done : k \in 1..PartSize /\ k \notin done + 1 .. done + Sector
      BY <1>2, Constant
    <3>2. \A k \in 1..done : flash'[target][k] = <<i, k>>
      BY <1>4, <2>2, <2>5, <3>1
    <3>. QED
      BY <1>4, <2>1, <2>5, <3>2 DEF Stored
  <2>. QED
    BY <1>12, <2>1, <2>3, <2>4, <2>5 DEF WriteResult, Replies
<1>. QED
  BY <1>9, <1>10, <1>11, <1>12

LEMMA WriteOutcome ==
  ASSUME NodeTyped, frozen => Counted, NEW i \in Images, NEW address \in Nat,
         NEW n \in 1..Sector, NEW outcome, NEW reply, Write(i, address, n, outcome, reply)
  PROVE  /\ UNCHANGED <<frozen, unfreezeResult, rebooting, target>>
         /\ frozen /\ address + n <= PartSize => WriteResult(i, address, n, reply)
         /\ ~frozen \/ address + n > PartSize =>
              reply = "ERROR" /\ UNCHANGED <<flash, received, flushed, buf, last>>
<1>0. n \in Nat \ {0} /\ address + n \in Nat /\ PartSize \in Nat /\ Sector \in Nat \ {0}
  BY Constant
<1>1. UNCHANGED <<frozen, unfreezeResult, rebooting, target>>
  BY DEF Write
<1>2. ASSUME ~frozen \/ address + n > PartSize
      PROVE  reply = "ERROR" /\ UNCHANGED <<flash, received, flushed, buf, last>>
  BY <1>0, <1>2 DEF Write, NoFlush
<1>3. ASSUME frozen, address + n <= PartSize
      PROVE  WriteResult(i, address, n, reply)
  <2>1. Counted
    BY <1>3
  <2>2. CASE /\ Resent(address, n) /\ reply = "OK"
             /\ UNCHANGED <<received, flushed, buf, last>> /\ NoFlush
    <3>1. NodeTyped' /\ Counted' /\ (Stored(i) => Stored(i)')
      BY <1>1, <2>1, <2>2 DEF NodeTyped, Counted, Stored, NoFlush
    <3>2. received = address + n
      BY <2>1, <2>2 DEF Counted, Resent
    <3>. QED
      BY <2>2, <3>1, <3>2 DEF WriteResult, Resent, Replies
  <2>3. CASE /\ ~Resent(address, n) /\ address = 0 /\ i \notin Compatible /\ reply = "ERROR"
             /\ StartOver
    <3>1. received' = 0 /\ flushed' = 0 /\ buf' = <<>> /\ UNCHANGED <<last, flash, target>>
      BY <1>1, <2>3 DEF StartOver, NoFlush
    <3>2. <<>> \in Seq(AnyCell) /\ Len(<<>>) = 0
      BY EmptySeq
    <3>3. NodeTyped'
      BY <3>1, <3>2 DEF NodeTyped
    <3>4. Counted' /\ Stored(i)'
      BY <1>0, <3>1, <3>2 DEF Counted, Stored
    <3>. QED
      BY <2>3, <3>1, <3>3, <3>4 DEF WriteResult, Replies
  <2>4. CASE ~Resent(address, n) /\ Store(address, Data(i, address, n), outcome, reply)
    BY <1>1, <1>3, <2>1, <2>4, StoreStep
  <2>. QED
    BY <1>0, <1>3, <2>2, <2>3, <2>4 DEF Write
<1>. QED
  BY <1>1, <1>2, <1>3

-----------------------------------------------------------------------------
(* The end of an upgrade *)

LEMMA EndOutcome ==
  ASSUME NodeTyped, Counted, NEW outcome, NEW reply, EndUpgrade(outcome, reply)
  PROVE  /\ NodeTyped' /\ frozen' = FALSE /\ unfreezeResult' = reply
         /\ UNCHANGED <<target, received>>
         /\ reply = "OK" =>
              /\ startNew' /\ rebooting'
              /\ \A k \in 1..received : flash'[target][k] =
                   IF k <= flushed THEN flash[target][k] ELSE buf[k - flushed]
<1>0. /\ PartSize \in Nat /\ Sector \in Nat \ {0} /\ Len(buf) \in Nat
      /\ flushed \in Nat /\ received \in Nat /\ target \in Partitions
      /\ flushed + Len(buf) = received /\ Len(buf) < Sector /\ received <= PartSize
  BY Constant, LenProperties DEF NodeTyped, Counted
<1>1. /\ frozen' = FALSE /\ buf' = <<>> /\ unfreezeResult' = reply
      /\ UNCHANGED <<target, received, last>>
      /\ IF received > flushed THEN FlushSector(flushed, Padded, outcome) ELSE NoFlush
      /\ flushed' = flushed + Sector \/ flushed' = flushed
  BY DEF EndUpgrade
<1>2. reply = "OK" => startNew' /\ rebooting' /\ (received > flushed => outcome = "done")
  <2>. DEFINE stored == received > flushed => outcome = "done"
              accepted == stored /\ ImageCheck(flash'[target], received)
  <2>1. /\ reply = IF accepted THEN "OK" ELSE IF stored THEN "ERROR" ELSE "TEMPORARY"
        /\ startNew' = (startNew \/ accepted) /\ rebooting' = accepted
    BY DEF EndUpgrade
  <2>2. accepted => stored
    OBVIOUS
  <2>. HIDE DEF accepted
  <2>3. reply = "OK" => accepted
    BY <2>1
  <2>. QED
    BY <2>1, <2>2, <2>3
<1>3. \A k \in 1..Sector : Padded[k] \in AnyCell /\ (k <= Len(buf) => Padded[k] = buf[k])
  <2>. SUFFICES ASSUME NEW k \in 1..Sector
                PROVE  Padded[k] \in AnyCell /\ (k <= Len(buf) => Padded[k] = buf[k])
    OBVIOUS
  <2>1. Padded[k] = IF k <= Len(buf) THEN buf[k] ELSE Blank
    BY DEF Padded
  <2>2. k <= Len(buf) => buf[k] \in AnyCell
    BY <1>0, ElementOfSeq DEF NodeTyped
  <2>. QED
    BY <2>1, <2>2 DEF Blank, AnyCell
<1>4. /\ flash' \in [Partitions -> [1..PartSize -> AnyCell]]
      /\ (received > flushed => outcome = "done") =>
           \A k \in 1..received : flash'[target][k] =
             IF k <= flushed THEN flash[target][k] ELSE buf[k - flushed]
  <2>1. CASE received > flushed
    <3>1. /\ flash' \in [Partitions -> [1..PartSize -> AnyCell]]
          /\ \A k \in 1..PartSize : flash'[target][k] =
               IF k \notin flushed + 1 .. flushed + Sector \/ outcome = "untouched"
               THEN flash[target][k]
               ELSE IF outcome = "done" THEN Padded[k - flushed] ELSE Blank
      BY <1>0, <1>1, <1>3, <2>1, FlushResult
    <3>2. ASSUME outcome = "done", NEW k \in 1..received
          PROVE  flash'[target][k] = IF k <= flushed THEN flash[target][k] ELSE buf[k - flushed]
      <4>1. k \in 1..PartSize
        BY <1>0
      <4>2. CASE k <= flushed
        BY <1>0, <3>1, <3>2, <4>1, <4>2
      <4>3. CASE ~(k <= flushed)
        <5>1. /\ k \in flushed + 1 .. flushed + Sector
              /\ k - flushed \in 1..Sector /\ k - flushed <= Len(buf)
          BY <1>0, <4>3
        <5>2. flash'[target][k] = Padded[k - flushed]
          BY <3>1, <3>2, <4>1, <5>1
        <5>. QED
          BY <1>3, <4>3, <5>1, <5>2
      <4>. QED
        BY <4>2, <4>3
    <3>. QED
      BY <2>1, <3>1, <3>2
  <2>2. CASE ~(received > flushed)
    <3>1. flash' = flash /\ \A k \in 1..received : k <= flushed
      BY <1>0, <1>1, <2>2 DEF NoFlush
    <3>. QED
      BY <3>1 DEF NodeTyped
  <2>. QED
    BY <2>1, <2>2
<1>5. NodeTyped'
  <2>1. <<>> \in Seq(AnyCell) /\ flushed' \in Nat
    BY <1>0, <1>1, EmptySeq
  <2>. QED
    BY <1>0, <1>1, <1>4, <2>1 DEF NodeTyped
<1>. QED
  BY <1>1, <1>2, <1>4, <1>5

-----------------------------------------------------------------------------
(* The steps of a transfer *)

\* What the client hears, or not
LEMMA HeardOrNot ==
  ASSUME NEW fine, NEW next, Answered(fine, next)
  PROVE  client' = next \/ client' = client
BY DEF Answered

LEMMA TransferInvInit == Init => TransferInv /\ StoredInv
<1> SUFFICES ASSUME Init PROVE TransferInv /\ StoredInv
  OBVIOUS
<1>1. /\ First \in Partitions /\ FirstImage \in Images /\ Size[FirstImage] \in Nat
      /\ Sector \in Nat /\ Images \subseteq Nat
  BY FirmwareAssumption
<1>2. <<0, 0>> \in AnyCell /\ \A k \in Nat : <<FirstImage, k>> \in AnyCell
  BY <1>1 DEF AnyCell
<1>3. flash \in [Partitions -> [1..PartSize -> AnyCell]]
  BY <1>1, <1>2, Constant DEF Init, Blank
<1>4. NodeTyped
  BY <1>1, <1>3, EmptySeq DEF Init, NodeTyped
<1>5. ClientTyped
  BY <1>1 DEF Init, NoClient, ClientTyped, Phases
<1> QED
  BY <1>4, <1>5 DEF Init, NoClient, TransferInv, StoredInv, WriterInStep, EnderInStep

\* Nothing of a transfer changes; the node may be about to reboot.
LEMMA TransferRests ==
  ASSUME TransferInv, rebooting => rebooting',
         UNCHANGED <<flash, frozen, unfreezeResult, transferVars, client>>
  PROVE  TransferInv' /\ (StoredInv => StoredInv')
<1>1. NodeTyped' /\ ClientTyped' /\ WriterInStep' /\ (Stored(client.image) => Stored(client.image)')
  BY DEF TransferInv, NodeTyped, ClientTyped, WriterInStep, Stored, transferVars
<1>2. EnderInStep' /\ (frozen => Counted')
  BY DEF TransferInv, EnderInStep, Counted, transferVars
<1>. QED
  BY <1>1, <1>2 DEF TransferInv, StoredInv

\* A boot ends the transfer
LEMMA TransferBoots ==
  ASSUME TransferInv, NEW p \in Partitions, NEW trial, Boot(p, trial),
         flash' \in [Partitions -> [1..PartSize -> AnyCell]]
  PROVE  TransferInv' /\ StoredInv'
<1>1. /\ frozen' = FALSE /\ target' = p /\ received' = 0 /\ flushed' = 0 /\ buf' = <<>>
      /\ last' = <<0, 0>> /\ client' = [client EXCEPT !.fresh = FALSE]
  BY DEF Boot
<1>2. NodeTyped'
  BY <1>1, EmptySeq DEF NodeTyped
<1>3. ClientTyped /\ (client.phase = "freeze" => client.pos = 0)
  BY DEF TransferInv
<1>4. /\ client' \in [image : Images, phase : Phases, pos : Nat, len : Nat, fresh : BOOLEAN]
      /\ client'.image = client.image /\ client'.phase = client.phase
      /\ client'.pos = client.pos /\ client'.len = client.len /\ ~client'.fresh
  BY <1>1, <1>3 DEF ClientTyped
<1>5. ClientTyped'
  BY <1>3, <1>4 DEF ClientTyped
<1>. QED
  BY <1>1, <1>2, <1>3, <1>4, <1>5 DEF TransferInv, StoredInv, WriterInStep, EnderInStep

LEMMA TransferReboots ==
  ASSUME TransferInv, FirmwareUpdateReboot
  PROVE  TransferInv' /\ StoredInv'
<1>1. UNCHANGED flash /\ target \in Partitions /\ flash \in [Partitions -> [1..PartSize -> AnyCell]]
  BY DEF FirmwareUpdateReboot, TransferInv, NodeTyped
<1>2. CASE Boot(target, TRUE)
  BY <1>1, <1>2, TransferBoots
<1>3. CASE NormalBoot
  BY <1>1, <1>3, TransferBoots DEF NormalBoot
<1>. QED
  BY <1>2, <1>3 DEF FirmwareUpdateReboot

LEMMA TransferFreezes ==
  ASSUME TransferInv, ClientFreezes
  PROVE  TransferInv' /\ (StoredInv => StoredInv')
<1>1. PICK part \in Partitions, reply \in Replies :
        /\ Freeze(part, reply)
        /\ Answered(frozen \/ onTrial \/ part # running,
             CASE reply = "OK" -> [client EXCEPT !.phase = "write", !.fresh = TRUE]
               [] reply = "TEMPORARY" -> client
               [] reply = "ERROR" -> [client EXCEPT !.phase = "failed"])
  BY DEF ClientFreezes
<1>2. /\ client.phase = "freeze" /\ client.pos = 0 /\ ClientTyped /\ NodeTyped
      /\ UNCHANGED flash
  BY DEF ClientFreezes, TransferInv
<1>3. \/ client' = client
      \/ reply = "OK" /\ client' = [client EXCEPT !.phase = "write", !.fresh = TRUE]
      \/ reply # "OK" /\ client' = [client EXCEPT !.phase = "failed"]
  BY <1>1, HeardOrNot DEF Replies
<1>4. /\ client' \in [image : Images, phase : Phases, pos : Nat, len : Nat, fresh : BOOLEAN]
      /\ client'.image = client.image /\ client'.pos = client.pos /\ client'.len = client.len
      /\ client'.phase = "freeze" \/ client'.phase = "failed" \/ (client'.phase = "write" /\ reply = "OK")
  BY <1>2, <1>3 DEF ClientTyped, Phases
<1>5. ClientTyped'
  BY <1>2, <1>4 DEF ClientTyped
<1>6. CASE KeepTransfer
  <2>1. NodeTyped' /\ (Counted => Counted') /\ (Stored(client.image) => Stored(client.image)')
        /\ frozen' = frozen
    BY <1>2, <1>4, <1>6 DEF NodeTyped, Counted, Stored, KeepTransfer, transferVars
  <2>2. reply = "OK" => frozen
    BY <1>1, <1>6 DEF Freeze, KeepTransfer
  <2>. QED
    BY <1>2, <1>4, <1>5, <2>1, <2>2 DEF TransferInv, StoredInv, WriterInStep, EnderInStep
<1>7. CASE /\ frozen' = TRUE /\ target' = part /\ received' = 0 /\ flushed' = 0 /\ buf' = <<>>
           /\ UNCHANGED last
  <2>1. <<>> \in Seq(AnyCell) /\ Len(<<>>) = 0
    BY EmptySeq
  <2>2. NodeTyped' /\ Counted' /\ Stored(client.image)'
    BY <1>2, <1>7, <2>1, Constant DEF NodeTyped, Counted, Stored
  <2>. QED
    BY <1>2, <1>4, <1>5, <1>7, <2>2 DEF TransferInv, StoredInv, WriterInStep, EnderInStep
<1>. QED
  BY <1>1, <1>6, <1>7 DEF Freeze

LEMMA TransferPrepares ==
  ASSUME TransferInv, NEW n \in Lens, ClientPrepares(n)
  PROVE  TransferInv' /\ (StoredInv => StoredInv')
<1>1. /\ client.phase = "write" /\ client.len = 0 /\ client.pos + n <= Size[client.image]
      /\ client' = [client EXCEPT !.len = n] /\ ClientTyped
      /\ UNCHANGED <<flash, frozen, unfreezeResult, rebooting, transferVars>>
  BY DEF ClientPrepares, TransferInv
<1>2. n \in Nat /\ n <= Sector
  BY Constant
<1>3. /\ client' \in [image : Images, phase : Phases, pos : Nat, len : Nat, fresh : BOOLEAN]
      /\ client'.image = client.image /\ client'.pos = client.pos /\ client'.len = n
      /\ client'.phase = "write" /\ client'.fresh = client.fresh
  BY <1>1, <1>2 DEF ClientTyped
<1>4. ClientTyped'
  BY <1>1, <1>2, <1>3 DEF ClientTyped
<1>5. NodeTyped' /\ (frozen => Counted') /\ (Stored(client.image) => Stored(client.image)')
  BY <1>1, <1>3 DEF TransferInv, NodeTyped, Counted, Stored, transferVars
<1>6. WriterInStep'
  BY <1>1, <1>3 DEF TransferInv, WriterInStep, transferVars
<1>. QED
  BY <1>1, <1>3, <1>4, <1>5, <1>6 DEF TransferInv, StoredInv, EnderInStep

\* A write, answered with `reply`, and what its client makes of it
AnsweredWrite(reply) ==
  /\ client.phase = "write" /\ client.image \in Images /\ client.pos \in Nat
  /\ client.len \in 1..Sector /\ client.pos + client.len <= Size[client.image]
  /\ UNCHANGED <<frozen, target>>
  /\ frozen /\ client.pos + client.len <= PartSize =>
       WriteResult(client.image, client.pos, client.len, reply)
  /\ ~frozen \/ client.pos + client.len > PartSize =>
       reply = "ERROR" /\ UNCHANGED <<flash, received, flushed, buf, last>>
  /\ client' \in [image : Images, phase : Phases, pos : Nat, len : Nat, fresh : BOOLEAN]
  /\ client'.image = client.image /\ client'.fresh = client.fresh
  /\ \/ client' = client
     \/ /\ reply = "OK" /\ client'.pos = client.pos + client.len /\ client'.len = 0
        /\ client'.phase = IF client'.pos = Size[client.image] THEN "unfreeze" ELSE "write"
     \/ /\ reply = "ERROR" /\ client'.phase = "giveup"
        /\ client'.pos = client.pos /\ client'.len = client.len

LEMMA WriteHeard ==
  ASSUME TransferInv, ClientWrites
  PROVE  \E reply \in Replies : AnsweredWrite(reply)
<1>1. PICK outcome \in Outcomes, reply \in Replies :
       /\ Write(client.image, client.pos, client.len, outcome, reply)
       /\ LET pos == client.pos + client.len IN
          Answered(outcome = "done",
            CASE reply = "OK" ->
                   [client EXCEPT !.pos = pos, !.len = 0,
                      !.phase = IF pos = Size[client.image] THEN "unfreeze" ELSE "write"]
              [] reply = "TEMPORARY" -> client
              [] reply = "ERROR" -> [client EXCEPT !.phase = "giveup"])
  BY DEF ClientWrites
<1>2. /\ client.phase = "write" /\ client.len > 0 /\ ClientTyped /\ NodeTyped
      /\ frozen => Counted
  BY DEF ClientWrites, TransferInv
<1>3. /\ client.image \in Images /\ client.pos \in Nat /\ client.len \in 1..Sector
      /\ client.pos + client.len <= Size[client.image]
  BY <1>2, Constant DEF ClientTyped
<1>. DEFINE pos == client.pos + client.len
            phase == IF pos = Size[client.image] THEN "unfreeze" ELSE "write"
<1>4. pos \in Nat /\ phase \in {"unfreeze", "write"}
  BY <1>3, Constant
<1>5. \/ client' = client
      \/ reply = "OK" /\ client' = [client EXCEPT !.pos = pos, !.len = 0, !.phase = phase]
      \/ reply = "ERROR" /\ client' = [client EXCEPT !.phase = "giveup"]
  BY <1>1, HeardOrNot DEF Replies
<1>6. phase = IF pos = Size[client.image] THEN "unfreeze" ELSE "write"
  OBVIOUS
<1>7. pos = client.pos + client.len
  OBVIOUS
<1>. HIDE DEF pos, phase
<1>8. /\ client' \in [image : Images, phase : Phases, pos : Nat, len : Nat, fresh : BOOLEAN]
      /\ client'.image = client.image /\ client'.fresh = client.fresh
      /\ \/ client' = client
         \/ reply = "OK" /\ client'.pos = pos /\ client'.len = 0 /\ client'.phase = phase
         \/ /\ reply = "ERROR" /\ client'.phase = "giveup"
            /\ client'.pos = client.pos /\ client'.len = client.len
  <2>1. client \in [image : Images, phase : Phases, pos : Nat, len : Nat, fresh : BOOLEAN]
        /\ phase \in Phases
    BY <1>2, <1>4 DEF ClientTyped, Phases
  <2>2. CASE client' = client
    BY <2>1, <2>2
  <2>3. CASE reply = "OK" /\ client' = [client EXCEPT !.pos = pos, !.len = 0, !.phase = phase]
    BY <1>4, <2>1, <2>3
  <2>4. CASE reply = "ERROR" /\ client' = [client EXCEPT !.phase = "giveup"]
    BY <2>1, <2>4 DEF Phases
  <2>. QED
    BY <1>5, <2>2, <2>3, <2>4
<1>9. /\ UNCHANGED <<frozen, target>>
      /\ frozen /\ client.pos + client.len <= PartSize =>
           WriteResult(client.image, client.pos, client.len, reply)
      /\ ~frozen \/ client.pos + client.len > PartSize =>
           reply = "ERROR" /\ UNCHANGED <<flash, received, flushed, buf, last>>
  BY <1>1, <1>2, <1>3, WriteOutcome
<1>10. client'.phase = phase /\ client'.pos = pos =>
         client'.phase = IF client'.pos = Size[client.image] THEN "unfreeze" ELSE "write"
  BY <1>6
<1>. QED
  BY <1>2, <1>3, <1>7, <1>8, <1>9, <1>10 DEF AnsweredWrite

LEMMA TransferWrites ==
  ASSUME TransferInv, ClientWrites
  PROVE  TransferInv' /\ (StoredInv => StoredInv')
<1>0. PICK reply \in Replies : AnsweredWrite(reply)
  BY WriteHeard
<1>1. /\ client.phase = "write" /\ client.image \in Images /\ client.pos \in Nat
      /\ client.len \in 1..Sector /\ client.pos + client.len <= Size[client.image]
      /\ UNCHANGED <<frozen, target>>
      /\ frozen /\ client.pos + client.len <= PartSize =>
           WriteResult(client.image, client.pos, client.len, reply)
      /\ ~frozen \/ client.pos + client.len > PartSize =>
           reply = "ERROR" /\ UNCHANGED <<flash, received, flushed, buf, last>>
      /\ client' \in [image : Images, phase : Phases, pos : Nat, len : Nat, fresh : BOOLEAN]
      /\ client'.image = client.image /\ client'.fresh = client.fresh
      /\ \/ client' = client
         \/ /\ reply = "OK" /\ client'.pos = client.pos + client.len /\ client'.len = 0
            /\ client'.phase = IF client'.pos = Size[client.image] THEN "unfreeze" ELSE "write"
         \/ /\ reply = "ERROR" /\ client'.phase = "giveup"
            /\ client'.pos = client.pos /\ client'.len = client.len
  BY <1>0 DEF AnsweredWrite
<1>2. /\ Sector \in Nat /\ client.len \in Nat \ {0} /\ client.len <= Sector
      /\ Size[client.image] \in Nat /\ PartSize \in Nat
  <2>1. Sector \in Nat /\ PartSize \in Nat /\ Size[client.image] \in Nat
    BY <1>1, Constant
  <2>2. client.len \in 1..Sector
    BY <1>1
  <2>. QED
    BY <2>1, <2>2
<1>3. ClientTyped'
  BY <1>1, <1>2 DEF ClientTyped
<1>4. NodeTyped' /\ (frozen => Counted') /\ (StoredInv => StoredInv')
  <2>1. CASE frozen /\ client.pos + client.len <= PartSize
    BY <1>1, <2>1 DEF WriteResult, StoredInv
  <2>2. CASE ~frozen \/ client.pos + client.len > PartSize
    BY <1>1, <2>2 DEF TransferInv, NodeTyped, Counted, StoredInv, Stored
  <2>. QED
    BY <1>1, <1>2, <2>1, <2>2
<1>5. WriterInStep'
  <2>. SUFFICES ASSUME client'.phase = "write", client'.fresh
                PROVE  /\ frozen'
                       /\ \/ client'.pos = 0 \/ received' = client'.pos
                          \/ /\ client'.len > 0 /\ last' = <<client'.pos, client'.len>>
                             /\ received' = client'.pos + client'.len
    BY DEF WriterInStep
  <2>1. /\ frozen
        /\ \/ client.pos = 0 \/ received = client.pos
           \/ /\ client.len > 0 /\ last = <<client.pos, client.len>>
              /\ received = client.pos + client.len
    BY <1>1 DEF TransferInv, WriterInStep
  <2>2. CASE ~(client.pos + client.len <= PartSize)
    BY <1>1, <1>2, <2>1, <2>2
  <2>3. CASE client.pos + client.len <= PartSize
    <3>1. WriteResult(client.image, client.pos, client.len, reply)
      BY <1>1, <2>1, <2>3
    <3>2. CASE reply = "OK"
      BY <1>1, <1>2, <2>1, <3>1, <3>2 DEF WriteResult
    <3>3. CASE reply = "TEMPORARY"
      BY <1>1, <1>2, <2>1, <3>1, <3>3 DEF WriteResult
    <3>4. CASE reply = "ERROR"
      <4>1. received' = IF client.pos = 0 THEN 0 ELSE received
        BY <3>1, <3>4 DEF WriteResult
      <4>2. client' = client
        BY <1>1, <3>4
      <4>3. \/ client.pos = 0
            \/ client.pos # 0 /\ client.pos # received /\ ~Resent(client.pos, client.len)
        BY <3>1, <3>4 DEF WriteResult
      <4>4. client.pos = 0
        BY <1>1, <1>2, <2>1, <4>3 DEF Resent
      <4>. QED
        BY <1>1, <2>1, <4>2, <4>4
    <3>. QED
      BY <3>2, <3>3, <3>4 DEF Replies
  <2>. QED
    BY <2>2, <2>3
<1>6. EnderInStep'
  <2>. SUFFICES ASSUME client'.phase = "unfreeze", client'.fresh
                PROVE  /\ client'.pos = Size[client.image]
                       /\ frozen' /\ received' = client'.pos
    BY <1>1 DEF EnderInStep
  <2>1. /\ reply = "OK" /\ client'.pos = client.pos + client.len /\ client'.pos = Size[client.image]
    BY <1>1
  <2>2. frozen /\ client.pos + client.len <= PartSize
    BY <1>1, <1>2, <2>1
  <2>. QED
    BY <1>1, <2>1, <2>2 DEF WriteResult
<1>7. client'.phase # "none" /\ client'.phase # "freeze"
  BY <1>1
<1>. QED
  BY <1>1, <1>3, <1>4, <1>5, <1>6, <1>7 DEF TransferInv

\* The end of an upgrade, answered with `reply`, and what its client makes of it
AnsweredUnfreeze(outcome, reply) ==
  /\ client.phase \in {"unfreeze", "giveup"} /\ ~rebooting
  /\ Unfreeze(outcome, reply)
  /\ client' \in [image : Images, phase : Phases, pos : Nat, len : Nat, fresh : BOOLEAN]
  /\ client'.image = client.image /\ client'.pos = client.pos /\ client'.len = client.len
  /\ client'.fresh = client.fresh
  /\ \/ client' = client
     \/ client'.phase = IF client.phase = "unfreeze" /\ reply = "OK" THEN "done" ELSE "failed"

LEMMA UnfreezeHeard ==
  ASSUME TransferInv, ClientUnfreezes
  PROVE  \E outcome \in Outcomes, reply \in Replies : AnsweredUnfreeze(outcome, reply)
<1>1. PICK outcome \in Outcomes, reply \in Replies :
        /\ Unfreeze(outcome, reply)
        /\ Answered(outcome = "done",
             [client EXCEPT !.phase =
                IF client.phase = "unfreeze" /\ reply = "OK" THEN "done" ELSE "failed"])
  BY DEF ClientUnfreezes
<1>. DEFINE phase == IF client.phase = "unfreeze" /\ reply = "OK" THEN "done" ELSE "failed"
<1>2. client' = client \/ client' = [client EXCEPT !.phase = phase]
  BY <1>1, HeardOrNot
<1>3. client \in [image : Images, phase : Phases, pos : Nat, len : Nat, fresh : BOOLEAN]
      /\ phase \in Phases
  BY DEF TransferInv, ClientTyped, Phases
<1>4. client.phase \in {"unfreeze", "giveup"} /\ ~rebooting
  BY DEF ClientUnfreezes, Listening
<1>. HIDE DEF phase
<1>5. /\ client' \in [image : Images, phase : Phases, pos : Nat, len : Nat, fresh : BOOLEAN]
      /\ client'.image = client.image /\ client'.pos = client.pos /\ client'.len = client.len
      /\ client'.fresh = client.fresh /\ (client' = client \/ client'.phase = phase)
  BY <1>2, <1>3
<1>. QED
  BY <1>1, <1>4, <1>5 DEF AnsweredUnfreeze, phase

LEMMA TransferUnfreezes ==
  ASSUME TransferInv, ClientUnfreezes
  PROVE  TransferInv' /\ (StoredInv => StoredInv')
<1>1. PICK outcome \in Outcomes, reply \in Replies : AnsweredUnfreeze(outcome, reply)
  BY UnfreezeHeard
<1>2. /\ client'.image = client.image /\ client'.pos = client.pos /\ client'.len = client.len
      /\ client'.fresh = client.fresh
      /\ client'.phase \notin {"none", "freeze", "write"}
      /\ client'.phase = "unfreeze" => client' = client
  BY <1>1 DEF AnsweredUnfreeze
<1>3. ClientTyped'
  BY <1>1, <1>2 DEF TransferInv, ClientTyped, AnsweredUnfreeze
<1>4. CASE ~frozen /\ KeepTransfer /\ NoFlush
  <2>1. NodeTyped' /\ UNCHANGED <<frozen, rebooting, unfreezeResult>>
    BY <1>4 DEF TransferInv, NodeTyped, KeepTransfer, transferVars, NoFlush
  <2>2. EnderInStep'
    BY <1>2, <1>4, <2>1 DEF TransferInv, EnderInStep
  <2>. QED
    BY <1>2, <1>3, <1>4, <2>1, <2>2 DEF TransferInv, StoredInv, WriterInStep
<1>5. CASE frozen /\ EndUpgrade(outcome, reply)
  <2>1. /\ NodeTyped' /\ frozen' = FALSE /\ unfreezeResult' = reply
        /\ reply = "OK" => rebooting'
    BY <1>5, EndOutcome DEF TransferInv
  <2>2. EnderInStep'
    BY <1>2, <2>1 DEF TransferInv, EnderInStep
  <2>. QED
    BY <1>2, <1>3, <2>1, <2>2 DEF TransferInv, StoredInv, WriterInStep
<1>. QED
  BY <1>1, <1>4, <1>5 DEF AnsweredUnfreeze, Unfreeze

LEMMA TransferStarts ==
  ASSUME TransferInv, NEW i \in Images, NewClient(i)
  PROVE  TransferInv' /\ (~Abrupt /\ StoredInv => StoredInv')
<1>1. /\ client.phase = "none" \/ i = client.image \/ ~frozen \/ Abrupt
      /\ client' = [image |-> i, phase |-> "freeze", pos |-> 0, len |-> 0, fresh |-> FALSE]
      /\ UNCHANGED <<flash, frozen, unfreezeResult, rebooting, transferVars>>
  BY DEF NewClient
<1>2. Size[i] \in Nat /\ Sector \in Nat
  BY Constant
<1>3. ClientTyped'
  BY <1>1, <1>2 DEF ClientTyped, Phases
<1>4. NodeTyped' /\ (frozen => Counted') /\ (Stored(i) => Stored(i)')
  BY <1>1 DEF TransferInv, NodeTyped, Counted, Stored, transferVars
<1>5. ~Abrupt /\ StoredInv => StoredInv'
  BY <1>1, <1>4 DEF TransferInv, StoredInv
<1>. QED
  BY <1>1, <1>3, <1>4, <1>5 DEF TransferInv, WriterInStep, EnderInStep

LEMMA TransferLosesPower ==
  ASSUME TransferInv, PowerLoss
  PROVE  TransferInv' /\ StoredInv'
<1>1. NodeTyped
  BY DEF TransferInv
<1>2. \/ UNCHANGED flash
      \/ \E at \in {0, flushed} : FlushSector(at, <<>>, "damaged")
  BY DEF PowerLoss
<1>3. flash' \in [Partitions -> [1..PartSize -> AnyCell]]
  <2>1. CASE UNCHANGED flash
    BY <1>1, <2>1 DEF NodeTyped
  <2>2. CASE \E at \in {0, flushed} : FlushSector(at, <<>>, "damaged")
    <3>1. PICK at \in {0, flushed} : FlushSector(at, <<>>, "damaged")
      BY <2>2
    <3>2. at \in Nat
      BY <1>1, <3>1 DEF NodeTyped
    <3>. QED
      BY <1>1, <3>1, <3>2, FlushResult
  <2>. QED
    BY <1>2, <2>1, <2>2
<1>. QED
  BY <1>3, TransferBoots DEF PowerLoss

LEMMA TransferNext ==
  ASSUME TransferInv, [Next]_vars
  PROVE  TransferInv' /\ (~Abrupt /\ StoredInv => StoredInv')
<1>1. CASE ClientFreezes
  BY <1>1, TransferFreezes
<1>2. CASE \E n \in Lens : ClientPrepares(n)
  BY <1>2, TransferPrepares
<1>3. CASE ClientWrites
  BY <1>3, TransferWrites
<1>4. CASE ClientUnfreezes
  BY <1>4, TransferUnfreezes
<1>5. CASE \E i \in Images : NewClient(i)
  BY <1>5, TransferStarts
<1>6. CASE RunTimers
  BY <1>6, TransferReboots DEF RunTimers
<1>7. CASE RebootCommand
  BY <1>7, TransferRests DEF RebootCommand
<1>8. CASE PowerLoss
  BY <1>8, TransferLosesPower
<1>9. CASE NodeUp
  BY <1>9, TransferRests DEF NodeUp
<1>10. CASE ConfirmTimer
  BY <1>10, TransferRests DEF ConfirmTimer
<1>11. CASE ConfirmInTask
  BY <1>11, TransferRests DEF ConfirmInTask
<1>12. CASE TrialExpired
  <2>1. CASE FirmwareUpdateReboot
    BY <2>1, TransferReboots
  <2>2. CASE rebooting' = TRUE /\ UNCHANGED <<flash, frozen, unfreezeResult, transferVars, client>>
    BY <2>2, TransferRests
  <2>. QED
    BY <1>12, <2>1, <2>2 DEF TrialExpired, LccTaskReboot
<1>13. CASE UNCHANGED vars
  BY <1>13, TransferRests DEF vars
<1> QED
  BY <1>1, <1>2, <1>3, <1>4, <1>5, <1>6, <1>7, <1>8, <1>9, <1>10, <1>11, <1>12, <1>13 DEF Next

\* Which steps move a client on
LEMMA ClientSteps ==
  ASSUME TransferInv, [Next]_vars
  PROVE  \/ ClientWrites
         \/ ClientUnfreezes
         \/ /\ client'.phase \in {client.phase, "freeze", "write", "failed"}
            /\ client'.pos \in {client.pos, 0}
<1>0. client \in [image : Images, phase : Phases, pos : Nat, len : Nat, fresh : BOOLEAN]
  BY DEF TransferInv, ClientTyped
<1>. DEFINE Steady == /\ client'.phase \in {client.phase, "freeze", "write", "failed"}
                      /\ client'.pos \in {client.pos, 0}
<1>1. ASSUME NEW p, NEW trial, Boot(p, trial) PROVE Steady
  BY <1>0, <1>1 DEF Boot
<1>2. CASE FirmwareUpdateReboot
  BY <1>1, <1>2 DEF FirmwareUpdateReboot, NormalBoot
<1>3. CASE ClientFreezes
  <2>1. \/ client' = client
        \/ client' = [client EXCEPT !.phase = "write", !.fresh = TRUE]
        \/ client' = [client EXCEPT !.phase = "failed"]
    BY <1>3, HeardOrNot DEF ClientFreezes, Replies
  <2>. QED
    BY <1>0, <2>1
<1>4. CASE \E n \in Lens : ClientPrepares(n)
  BY <1>0, <1>4 DEF ClientPrepares
<1>5. CASE \E i \in Images : NewClient(i)
  BY <1>5 DEF NewClient
<1>6. CASE UNCHANGED client
  BY <1>6
<1>7. PowerLoss => \E p \in Partitions : Boot(p, FALSE)
  BY DEF PowerLoss
<1>. QED
  BY <1>1, <1>2, <1>3, <1>4, <1>5, <1>6, <1>7
  DEF Next, RunTimers, RebootCommand, NodeUp, ConfirmTimer, ConfirmInTask, TrialExpired,
      LccTaskReboot, vars

-----------------------------------------------------------------------------
(* What is stored is what was sent *)

LEMMA ContentIsData ==
  ASSUME NodeTyped, Counted, NEW i \in Images, Stored(i), NEW n \in Nat, n <= received
  PROVE  /\ n <= Len(Content) /\ SubSeq(Content, 1, n) = Data(i, 0, n)
         /\ n = received => Content = Data(i, 0, n)
<1>. DEFINE head == SubSeq(flash[target], 1, flushed)
<1>1. /\ flushed \in Nat /\ received \in Nat /\ buf \in Seq(AnyCell) /\ Len(buf) \in Nat
      /\ flushed + Len(buf) = received /\ received <= PartSize /\ PartSize \in Nat
      /\ flash[target] \in [1..PartSize -> AnyCell]
  BY LenProperties, Constant DEF NodeTyped, Counted
<1>2. \A k \in 1..flushed : flash[target][k] \in AnyCell
  BY <1>1
<1>3. /\ head \in Seq(AnyCell) /\ Len(head) = flushed
      /\ \A k \in 1..flushed : head[k] = <<i, k>>
  <2>1. /\ head \in Seq(AnyCell)
        /\ Len(head) = IF 1 <= flushed THEN flushed - 1 + 1 ELSE 0
        /\ \A k \in 1 .. flushed - 1 + 1 : head[k] = flash[target][1 + k - 1]
    BY <1>1, <1>2, SubSeqProperties
  <2>. HIDE DEF head
  <2>. QED
    BY <1>1, <2>1 DEF Stored
<1>. HIDE DEF head
<1>4. /\ Content \in Seq(AnyCell) /\ Len(Content) = received
      /\ \A k \in 1..received : Content[k] = <<i, k>>
  <2>1. Content = head \o buf
    BY DEF Content, head
  <2>2. /\ Content \in Seq(AnyCell) /\ Len(Content) = flushed + Len(buf)
        /\ \A k \in 1..flushed + Len(buf) :
             Content[k] = IF k <= flushed THEN head[k] ELSE buf[k - flushed]
    BY <1>1, <1>3, <2>1, ConcatProperties
  <2>3. ASSUME NEW k \in 1..received PROVE Content[k] = <<i, k>>
    <3>1. CASE k <= flushed
      BY <1>1, <1>3, <2>2, <3>1
    <3>2. CASE ~(k <= flushed)
      <4>1. k - flushed \in 1..Len(buf) /\ flushed + (k - flushed) = k
        BY <1>1, <3>2
      <4>2. buf[k - flushed] = <<i, k>>
        BY <4>1 DEF Stored
      <4>. QED
        BY <1>1, <2>2, <3>2, <4>2
    <3>. QED
      BY <3>1, <3>2
  <2>. QED
    BY <1>1, <2>2, <2>3
<1>5. /\ Data(i, 0, n) \in Seq(AnyCell) /\ Len(Data(i, 0, n)) = n
      /\ \A k \in 1..n : Data(i, 0, n)[k] = <<i, k>>
  <2>1. /\ Data(i, 0, n) \in Seq(AnyCell) /\ Len(Data(i, 0, n)) = n
        /\ \A k \in 1..n : Data(i, 0, n)[k] = <<i, 0 + k>>
    BY DataCells
  <2>2. \A k \in 1..n : 0 + k = k
    OBVIOUS
  <2>. QED
    BY <2>1, <2>2
<1>6. /\ SubSeq(Content, 1, n) \in Seq(AnyCell) /\ Len(SubSeq(Content, 1, n)) = n
      /\ \A k \in 1..n : SubSeq(Content, 1, n)[k] = <<i, k>>
  <2>1. \A k \in 1..n : Content[k] \in AnyCell /\ Content[k] = <<i, k>>
    BY <1>1, <1>4, ElementOfSeq
  <2>2. /\ SubSeq(Content, 1, n) \in Seq(AnyCell)
        /\ Len(SubSeq(Content, 1, n)) = IF 1 <= n THEN n - 1 + 1 ELSE 0
        /\ \A k \in 1 .. n - 1 + 1 : SubSeq(Content, 1, n)[k] = Content[1 + k - 1]
    BY <2>1, SubSeqProperties
  <2>. QED
    BY <2>1, <2>2
<1>7. SubSeq(Content, 1, n) = Data(i, 0, n)
  BY <1>5, <1>6, SeqEqual
<1>8. n = received => Content = Data(i, 0, n)
  BY <1>4, <1>5, SeqEqual
<1>. QED
  BY <1>1, <1>4, <1>7, <1>8

\* All that the node holds of the image
ContentExact == frozen => Content = Data(client.image, 0, received)

\* A client that writes or ends its transfer knows of no more than the node holds
LEMMA KnownIsHeld ==
  ASSUME TransferInv, client.phase \in {"write", "unfreeze"}, client.fresh, frozen
  PROVE  client.pos <= received
<1>1. client.pos \in Nat /\ client.len \in Nat /\ received \in Nat
  BY DEF TransferInv, NodeTyped, ClientTyped
<1>. QED
  BY <1>1 DEF TransferInv, WriterInStep, EnderInStep

\* Without takeovers, the cells acknowledged to a client are held by the node, each
\* in its place: resent writes, failed flash writes, lost answers and new attempts
\* neither lose, double nor displace one.
THEOREM AcknowledgedCellsAreHeld ==
  ASSUME ~Abrupt
  PROVE  Spec => []AckedIsStored
<1>1. TransferInv /\ StoredInv => AckedIsStored
  <2>. SUFFICES ASSUME TransferInv, StoredInv,
                       client.phase \in {"write", "unfreeze"}, client.fresh, frozen
                PROVE  /\ client.pos <= Len(Content)
                       /\ SubSeq(Content, 1, client.pos) = Data(client.image, 0, client.pos)
    BY DEF AckedIsStored
  <2>1. NodeTyped /\ Counted /\ Stored(client.image) /\ client.image \in Images /\ client.pos \in Nat
    BY DEF TransferInv, StoredInv, ClientTyped
  <2>2. client.pos <= received
    BY KnownIsHeld
  <2>. QED
    BY <2>1, <2>2, ContentIsData
<1>2. TransferInv /\ StoredInv /\ [Next]_vars => TransferInv' /\ StoredInv'
  BY TransferNext
<1>. QED
  BY <1>1, <1>2, TransferInvInit, PTL DEF Spec

\* A write is rejected for good only because of its image, with or without takeovers:
\* lost answers and failed flash writes are made good by sending the write again.
THEOREM GoodImagesAreAccepted == Spec => OnlyBadImagesRejected
<1>1. TransferInv /\ [Next]_vars =>
        [client.phase = "write" /\ client'.phase = "giveup" /\ client.fresh =>
           client.image \notin Compatible \/ Size[client.image] > PartSize]_vars
  <2>. SUFFICES ASSUME TransferInv, [Next]_vars,
                       client.phase = "write", client'.phase = "giveup", client.fresh
                PROVE  client.image \notin Compatible \/ Size[client.image] > PartSize
    OBVIOUS
  <2>1. ClientWrites
    BY ClientSteps DEF ClientUnfreezes
  <2>2. PICK reply \in Replies : AnsweredWrite(reply)
    BY <2>1, WriteHeard
  <2>3. reply = "ERROR"
    BY <2>2 DEF AnsweredWrite
  <2>4. /\ client.pos \in Nat /\ client.len \in Nat \ {0} /\ client.image \in Images
        /\ client.pos + client.len <= Size[client.image] /\ Size[client.image] \in Nat
        /\ PartSize \in Nat
    <3>1. /\ client.pos \in Nat /\ client.len \in 1..Sector /\ client.image \in Images
          /\ client.pos + client.len <= Size[client.image]
      BY <2>2 DEF AnsweredWrite
    <3>2. Size[client.image] \in Nat /\ PartSize \in Nat /\ Sector \in Nat
      BY <3>1, Constant
    <3>. QED
      BY <3>1, <3>2
  <2>5. /\ frozen
        /\ \/ client.pos = 0 \/ received = client.pos
           \/ /\ client.len > 0 /\ last = <<client.pos, client.len>>
              /\ received = client.pos + client.len
    BY DEF TransferInv, WriterInStep
  <2>6. CASE client.pos + client.len > PartSize
    BY <2>4, <2>6
  <2>7. CASE client.pos + client.len <= PartSize
    <3>1. WriteResult(client.image, client.pos, client.len, reply)
      BY <2>2, <2>5, <2>7 DEF AnsweredWrite
    <3>2. \/ client.pos = 0 /\ client.image \notin Compatible
          \/ client.pos # 0 /\ client.pos # received /\ ~Resent(client.pos, client.len)
      BY <2>3, <3>1 DEF WriteResult
    <3>. QED
      BY <2>4, <2>5, <3>2 DEF Resent
  <2>. QED
    BY <2>4, <2>6, <2>7
<1>2. TransferInv /\ [Next]_vars => TransferInv'
  BY TransferNext
<1>. QED
  BY <1>1, <1>2, TransferInvInit, PTL DEF Spec, OnlyBadImagesRejected

\* Without takeovers, a client is told that its upgrade succeeded only when its whole
\* image is in the partition the node is about to start.
THEOREM SuccessIsReal ==
  ASSUME ~Abrupt
  PROVE  Spec => NoFalseSuccess
<1>1. TransferInv /\ StoredInv /\ [Next]_vars =>
        [client.phase # "done" /\ client'.phase = "done" /\ client.fresh =>
           startNew' /\ rebooting' /\ Holds(target, client.image)']_vars
  <2>. SUFFICES ASSUME TransferInv, StoredInv, [Next]_vars,
                       client.phase # "done", client'.phase = "done", client.fresh
                PROVE  startNew' /\ rebooting' /\ Holds(target, client.image)'
    OBVIOUS
  <2>1. ClientUnfreezes
    <3>1. ~ClientWrites
      BY WriteHeard DEF AnsweredWrite
    <3>. QED
      BY <3>1, ClientSteps
  <2>2. PICK outcome \in Outcomes, reply \in Replies : AnsweredUnfreeze(outcome, reply)
    BY <2>1, UnfreezeHeard
  <2>3. client.phase = "unfreeze" /\ reply = "OK" /\ client'.image = client.image /\ ~rebooting
    BY <2>2 DEF AnsweredUnfreeze
  <2>4. /\ client.image \in Images /\ client.pos = Size[client.image]
        /\ IF frozen THEN received = client.pos ELSE unfreezeResult # "OK"
    BY <2>3 DEF TransferInv, ClientTyped, EnderInStep
  <2>5. frozen /\ EndUpgrade(outcome, reply)
    BY <2>2, <2>3, <2>4 DEF AnsweredUnfreeze, Unfreeze, Repeated
  <2>6. NodeTyped /\ Counted /\ Stored(client.image) /\ received = Size[client.image]
    BY <2>4, <2>5 DEF TransferInv, StoredInv
  <2>7. /\ startNew' /\ rebooting' /\ UNCHANGED target
        /\ \A k \in 1..received : flash'[target][k] =
             IF k <= flushed THEN flash[target][k] ELSE buf[k - flushed]
    BY <2>3, <2>5, <2>6, EndOutcome
  <2>8. /\ received \in Nat /\ flushed \in Nat /\ Len(buf) \in Nat
        /\ flushed + Len(buf) = received /\ received <= PartSize
    BY <2>6, LenProperties DEF NodeTyped, Counted
  <2>9. ASSUME NEW k \in 1..received PROVE flash'[target][k] = <<client.image, k>>
    <3>1. CASE k <= flushed
      <4>1. k \in 1..flushed
        BY <2>8, <3>1
      <4>2. flash[target][k] = <<client.image, k>>
        BY <2>6, <4>1 DEF Stored
      <4>. QED
        BY <2>7, <3>1, <4>2
    <3>2. CASE ~(k <= flushed)
      <4>1. k - flushed \in 1..Len(buf) /\ flushed + (k - flushed) = k
        BY <2>8, <3>2
      <4>2. buf[k - flushed] = <<client.image, k>>
        BY <2>6, <4>1 DEF Stored
      <4>. QED
        BY <2>7, <3>2, <4>2
    <3>. QED
      BY <3>1, <3>2
  <2>10. Holds(target, client.image)'
    BY <2>3, <2>6, <2>7, <2>8, <2>9 DEF Holds
  <2>. QED
    BY <2>7, <2>10
<1>2. TransferInv /\ StoredInv /\ [Next]_vars => TransferInv' /\ StoredInv'
  BY TransferNext
<1>. QED
  BY <1>1, <1>2, TransferInvInit, PTL DEF Spec, NoFalseSuccess

\* Without takeovers, a write at address 0 starts over: a takeover is what it takes
\* for a new client's first write to be answered out of another client's data.
THEOREM FirstWriteStartsOver ==
  ASSUME ~Abrupt
  PROVE  Spec => StartsOver
<1>1. TransferInv /\ StoredInv => ContentExact
  <2>. SUFFICES ASSUME TransferInv, StoredInv, frozen
                PROVE  Content = Data(client.image, 0, received)
    BY DEF ContentExact
  <2>1. /\ NodeTyped /\ Counted /\ Stored(client.image) /\ client.image \in Images
        /\ received \in Nat /\ received <= received
    BY DEF TransferInv, StoredInv, ClientTyped, NodeTyped
  <2>. QED
    BY <2>1, ContentIsData
<1>2. TransferInv /\ ContentExact' /\ [Next]_vars =>
        [client.pos = 0 /\ client'.pos > 0 => Content' = Data(client.image, 0, client'.pos)]_vars
  <2>. SUFFICES ASSUME TransferInv, ContentExact', [Next]_vars,
                       client.pos = 0, client'.pos > 0
                PROVE  Content' = Data(client.image, 0, client'.pos)
    OBVIOUS
  <2>1. ClientWrites
    <3>1. ClientUnfreezes => client'.pos = client.pos
      BY UnfreezeHeard DEF AnsweredUnfreeze
    <3>. QED
      BY <3>1, ClientSteps
  <2>2. PICK reply \in Replies : AnsweredWrite(reply)
    BY <2>1, WriteHeard
  <2>3. /\ reply = "OK" /\ client'.pos = client.pos + client.len /\ client'.image = client.image
        /\ UNCHANGED frozen
    BY <2>2 DEF AnsweredWrite
  <2>4. /\ frozen /\ WriteResult(client.image, client.pos, client.len, reply)
    <3>1. client.pos + client.len \in Nat /\ PartSize \in Nat
      BY <2>2, Constant DEF AnsweredWrite
    <3>. QED
      BY <2>2, <2>3, <3>1 DEF AnsweredWrite
  <2>5. received' = client'.pos
    BY <2>3, <2>4 DEF WriteResult
  <2>6. Content' = Data(client'.image, 0, received')
    BY <2>3, <2>4 DEF ContentExact
  <2>. QED
    BY <2>3, <2>5, <2>6
<1>3. TransferInv /\ StoredInv /\ [Next]_vars => TransferInv' /\ StoredInv'
  BY TransferNext
<1>. QED
  BY <1>1, <1>2, <1>3, TransferInvInit, PTL DEF Spec, StartsOver

=============================================================================
