---------------------------- MODULE FirmwareUpdate ----------------------------
(***************************************************************************)
(* Firmware upgrades over LCC: the upgrade state of                        *)
(* lib/lcc/src/memconfig.c, the transfer into the other flash partition    *)
(* and the trial of the new image of src/firmware_update.c, the image      *)
(* check of src/fw_image.c, with the client that sends the image and the   *)
(* boot ROM (both external).                                               *)
(*                                                                         *)
(* An image is a sequence of cells <<image, position>>; a cell is eight    *)
(* bytes or more, and a sector of the flash holds Sector cells.  A request *)
(* and its answer are one step: the datagrams that carry them are in       *)
(* Datagram.  The answer may be lost, and the client then resends.         *)
(***************************************************************************)
EXTENDS Naturals, Sequences

CONSTANTS
  Partitions,
  PartSize,      \* cells of a partition
  Sector,        \* cells of a sector
  Size,          \* Size[i]: the cells of image i
  Compatible,    \* the images built for this board
  Lens,          \* the cells a client may put in one write
  First,         \* the partition and the image the board starts with
  FirstImage,
  Abrupt,        \* a client may take over a transfer that another left unfinished
  MaxFaults,     \* bound: lost answers, failing flash writes, dropped calls, losses of power
  MaxClients     \* bound: transfers started

Images == DOMAIN Size

ASSUME FirmwareAssumption ==
  /\ Images \subseteq Nat \ {0}
  /\ \A i \in Images : Size[i] \in Nat \ {0}
  /\ Sector \in Nat \ {0}
  /\ PartSize \in Nat /\ PartSize % Sector = 0
  /\ Compatible \subseteq Images
  /\ Lens \subseteq 1..Sector
  /\ First \in Partitions
  /\ FirstImage \in Compatible /\ Size[FirstImage] <= PartSize
  /\ Abrupt \in BOOLEAN
  /\ MaxFaults \in Nat
  /\ MaxClients \in Nat

VARIABLES
  flash,       \* flash[p]: the cells of partition p
  bought,      \* bought[p]: the image in p has been confirmed
  running,     \* the partition of the running image
  onTrial,     \* the running image has still to confirm itself
  trialTimer,  \* the limit of the trial is running
  confirm,     \* its confirmation: "off", "timer" or "queued" for the LCC task
  frozen,      \* upgrade state
  unfreezeResult,  \* the answer to the last Unfreeze
  rebooting,   \* the alias is released; a reboot follows
  target,      \* the partition being written
  received,    \* cells accepted
  flushed,     \* cells written to the partition
  buf,         \* sector_buf up to the last cell accepted
  last,        \* <<address, length>> of the last write accepted
  startNew,    \* the new image passed its checks
  client,      \* the client's side of the transfer
  faults,      \* faults so far
  clients      \* transfers started so far

transferVars == <<target, received, flushed, buf, last, startNew>>
trialVars == <<onTrial, trialTimer, confirm>>
bootVars == <<bought, running, trialVars>>
vars == <<flash, bootVars, frozen, unfreezeResult, rebooting, transferVars, client,
          faults, clients>>

Cell == (Images \X (1..PartSize)) \cup {<<0, 0>>}
Blank == <<0, 0>>   \* erased or half-programmed flash

Replies == {"OK", "TEMPORARY", "ERROR"}

\* The cells a write of image i of n cells at the given address carries
Data(i, address, n) == [k \in 1..n |-> <<i, address + k>>]

-----------------------------------------------------------------------------
(* Flash *)

\* What may become of a sector: written and read back, left as it was, or damaged
Outcomes == {"done", "untouched", "damaged"}

\* flush_sector: `sector` goes to the target partition, after its first `at` cells
FlushSector(at, sector, outcome) ==
  /\ flash' = [flash EXCEPT ![target] = [k \in 1..PartSize |->
       IF k \notin at + 1 .. at + Sector \/ outcome = "untouched" THEN @[k]
       ELSE IF outcome = "done" THEN sector[k - at] ELSE Blank]]
  /\ bought' = [bought EXCEPT ![target] = @ /\ (at > 0 \/ outcome = "untouched")]

NoFlush == UNCHANGED <<flash, bought>>

\* fw_image_check of the first n cells: only the metadata at both ends
ImageCheck(cells, n) ==
  \E i, j \in Compatible :
    /\ cells[1] = <<i, 1>>
    /\ n >= Size[i]
    /\ Size[j] = Size[i]
    /\ cells[Size[i]] = <<j, Size[i]>>

\* The boot ROM's check of the hash
Holds(p, i) == Size[i] <= PartSize /\ \A k \in 1..Size[i] : flash[p][k] = <<i, k>>
Intact(p) == \E i \in Compatible : Holds(p, i)

-----------------------------------------------------------------------------
(* The node's side of a transfer.  `reply` is its answer. *)

KeepTransfer == UNCHANGED <<frozen, unfreezeResult, rebooting, transferVars>>

\* A bug to catch: an upgrade over the image to go back to
FreezeReplyOnTrial(part) == IF part = running THEN "ERROR" ELSE "OK"

\* freeze refuses while the running image is on trial, and the boot ROM's choice
\* `part` if it is the partition this image runs from (or none)
FreezeReply(part) ==
  IF onTrial THEN "TEMPORARY" ELSE IF part = running THEN "ERROR" ELSE "OK"

\* accept_freeze for Freeze
Freeze(part, reply) ==
  \/ /\ frozen /\ reply = "OK"
     /\ KeepTransfer
  \/ /\ ~frozen /\ reply = FreezeReply(part) /\ reply # "OK"
     /\ KeepTransfer
  \/ /\ ~frozen /\ reply = FreezeReply(part) /\ reply = "OK"
     /\ frozen' = TRUE
     /\ target' = part
     /\ received' = 0 /\ flushed' = 0 /\ buf' = <<>>
     /\ startNew' = FALSE
     /\ UNCHANGED <<unfreezeResult, rebooting, last>>

\* Bugs to catch: the last write of an earlier transfer is taken for a write of this
\* one; resent writes are not recognised
ResentEver(address, n) == last = <<address, n>>
ResentNever(address, n) == FALSE

\* write_image: the client resends the last write
Resent(address, n) == received > 0 /\ last = <<address, n>>

\* The buffer holds a whole sector
Full(all) == Len(all) >= Sector

\* write_image: the data goes to the buffer, and a full buffer to the flash.
\* `got`, `done` and `kept` are received, flushed and the buffer, which a write at
\* address 0 resets.
Store(address, data, outcome, reply) ==
  LET got  == IF address = 0 THEN 0 ELSE received
      done == IF address = 0 THEN 0 ELSE flushed
      kept == IF address = 0 THEN <<>> ELSE buf
      all  == kept \o data
      full == Full(all)
      outOfOrder == address # got \/ got < done
      accepted == ~outOfOrder /\ (full => outcome = "done")
  IN /\ reply = IF outOfOrder THEN "ERROR" ELSE IF accepted THEN "OK" ELSE "TEMPORARY"
     /\ IF ~outOfOrder /\ full THEN FlushSector(done, all, outcome) ELSE NoFlush
     /\ received' = IF accepted THEN address + Len(data) ELSE got
     /\ flushed' = IF accepted /\ full THEN done + Sector ELSE done
     /\ buf' = IF ~accepted THEN kept
               ELSE IF full THEN SubSeq(all, Sector + 1, Len(all)) ELSE all
     /\ last' = IF accepted THEN <<address, Len(data)>> ELSE last

\* fw_image_start_ok fails: the image is not for this board
StartOver ==
  /\ received' = 0 /\ flushed' = 0 /\ buf' = <<>>
  /\ UNCHANGED last /\ NoFlush

\* accept_firmware_write: the client writes n cells of image i at an address
Write(i, address, n, outcome, reply) ==
  /\ UNCHANGED <<frozen, unfreezeResult, rebooting, target, startNew>>
  /\ \/ /\ ~frozen \/ address + n > PartSize
        /\ reply = "ERROR"
        /\ UNCHANGED <<received, flushed, buf, last>> /\ NoFlush
     \/ /\ frozen /\ address + n <= PartSize
        /\ \/ /\ Resent(address, n)
              /\ reply = "OK"
              /\ UNCHANGED <<received, flushed, buf, last>> /\ NoFlush
           \/ /\ ~Resent(address, n) /\ address = 0 /\ i \notin Compatible
              /\ reply = "ERROR"
              /\ StartOver
           \/ /\ ~Resent(address, n) /\ (address = 0 => i \in Compatible)
              /\ Store(address, Data(i, address, n), outcome, reply)

\* The last sector, filled up
Padded == [k \in 1..Sector |-> IF k <= Len(buf) THEN buf[k] ELSE Blank]

\* unfreeze ends the upgrade; an accepted image makes the node release its alias
\* and reboot
EndUpgrade(outcome, reply) ==
  /\ frozen' = FALSE
  /\ IF received > flushed THEN FlushSector(flushed, Padded, outcome) ELSE NoFlush
  /\ LET stored == received > flushed => outcome = "done"
         accepted == stored /\ ImageCheck(flash'[target], received)
     IN /\ reply = IF accepted THEN "OK" ELSE IF stored THEN "ERROR" ELSE "TEMPORARY"
        /\ flushed' = IF received > flushed /\ stored THEN flushed + Sector ELSE flushed
        /\ startNew' = (startNew \/ accepted)
        /\ rebooting' = accepted
  /\ buf' = <<>>
  /\ unfreezeResult' = reply
  /\ UNCHANGED <<target, received, last>>

\* A bug to catch: nothing to unfreeze is always fine
RepeatedOK == "OK"

\* The answer to an Unfreeze outside an upgrade
Repeated == unfreezeResult

\* accept_freeze for Unfreeze
Unfreeze(outcome, reply) ==
  \/ /\ ~frozen /\ reply = Repeated
     /\ KeepTransfer /\ NoFlush
  \/ frozen /\ EndUpgrade(outcome, reply)

-----------------------------------------------------------------------------
(* The client *)

Cost(fine) == IF fine THEN 0 ELSE 1

\* The node handles a request: `fine` tells whether nothing went wrong inside it,
\* `next` is what its answer makes of the client, which does not hear it if lost.
Answered(fine, next) ==
  \E heard \in BOOLEAN :
    /\ client' = IF heard THEN next ELSE client
    /\ faults' = faults + Cost(fine) + Cost(heard)
    /\ faults' <= MaxFaults
    /\ UNCHANGED clients

\* A released node answers nothing
Listening == ~rebooting

\* freeze.  The boot ROM chooses the partition; another than the running one is
\* the normal case.
ClientFreezes ==
  /\ Listening /\ client.phase = "freeze"
  /\ \E part \in Partitions, reply \in Replies :
       /\ Freeze(part, reply)
       /\ Answered(frozen \/ onTrial \/ part # running,
            CASE reply = "OK" -> [client EXCEPT !.phase = "write", !.fresh = TRUE]
              [] reply = "TEMPORARY" -> client
              [] reply = "ERROR" -> [client EXCEPT !.phase = "failed"])
  /\ UNCHANGED <<flash, bootVars>>

\* The client writes the next cells, or resends the write whose answer it missed
\* or that met a temporary error: the length it tries stays in client.len.
ClientWrites ==
  /\ Listening /\ client.phase = "write"
  /\ client.len > 0
  /\ \E outcome \in Outcomes, reply \in Replies :
       /\ Write(client.image, client.pos, client.len, outcome, reply)
       /\ outcome # "done" => reply = "TEMPORARY"
       /\ LET pos == client.pos + client.len IN
          Answered(outcome = "done",
            CASE reply = "OK" ->
                   [client EXCEPT !.pos = pos, !.len = 0,
                      !.phase = IF pos = Size[client.image] THEN "unfreeze" ELSE "write"]
              [] reply = "TEMPORARY" -> client
              [] reply = "ERROR" -> [client EXCEPT !.phase = "giveup"])
  /\ UNCHANGED <<running, trialVars>>

\* The client chooses the length of its next write
ClientPrepares(n) ==
  /\ client.phase = "write" /\ client.len = 0
  /\ client.pos + n <= Size[client.image]
  /\ client' = [client EXCEPT !.len = n]
  /\ UNCHANGED <<flash, bootVars, frozen, unfreezeResult, rebooting, transferVars,
                 faults, clients>>

\* The client ends the upgrade, after a failed transfer too
ClientUnfreezes ==
  /\ Listening /\ client.phase \in {"unfreeze", "giveup"}
  /\ \E outcome \in Outcomes, reply \in Replies :
       /\ Unfreeze(outcome, reply)
       /\ outcome # "done" => frozen /\ received > flushed
       /\ Answered(outcome = "done",
            [client EXCEPT !.phase =
               IF client.phase = "unfreeze" /\ reply = "OK" THEN "done" ELSE "failed"])
  /\ UNCHANGED <<running, trialVars>>

\* A client starts a transfer: the same one again with the same image, at any
\* time; another one when the upgrade of the one before has ended, or in the
\* middle of it if Abrupt.
NewClient(i) ==
  /\ clients < MaxClients
  /\ client.phase = "none" \/ i = client.image \/ ~frozen \/ Abrupt
  /\ client' = [image |-> i, phase |-> "freeze", pos |-> 0, len |-> 0, fresh |-> FALSE]
  /\ clients' = clients + 1
  /\ UNCHANGED <<flash, bootVars, frozen, unfreezeResult, rebooting, transferVars, faults>>

-----------------------------------------------------------------------------
(* Reboots and the trial *)

\* The node starts from partition p
Boot(p, trial) ==
  /\ running' = p /\ onTrial' = trial /\ trialTimer' = trial /\ confirm' = "off"
  /\ frozen' = FALSE /\ unfreezeResult' = "OK" /\ rebooting' = FALSE
  /\ target' = p /\ received' = 0 /\ flushed' = 0 /\ buf' = <<>>
  /\ last' = <<0, 0>> /\ startNew' = FALSE
  /\ client' = [client EXCEPT !.fresh = FALSE]

\* The boot ROM starts a confirmed image that passes its hash check
NormalBoot == \E p \in Partitions : bought[p] /\ Intact(p) /\ Boot(p, FALSE)

\* firmware_update_reboot: a flash-update boot starts the new image on trial if it
\* passes the hash check
FirmwareUpdateReboot ==
  /\ \/ startNew /\ Intact(target) /\ Boot(target, TRUE)
     \/ (startNew => ~Intact(target)) /\ NormalBoot
  /\ UNCHANGED <<flash, bought, clients>>

\* lcc_memconfig_run_timers
RunTimers == rebooting /\ FirmwareUpdateReboot /\ UNCHANGED faults

\* lcc_reboot, for the Reboot command of any tool
RebootCommand ==
  /\ ~rebooting
  /\ faults < MaxFaults
  /\ faults' = faults + 1
  /\ rebooting' = TRUE
  /\ UNCHANGED <<flash, bootVars, frozen, unfreezeResult, transferVars, client, clients>>

\* The board loses power, perhaps in the middle of flush_sector
PowerLoss ==
  /\ faults < MaxFaults
  /\ faults' = faults + 1
  /\ \/ UNCHANGED <<flash, bought>>
     \/ frozen /\ \E at \in {0, flushed} \ {PartSize} : FlushSector(at, <<>>, "damaged")
  /\ \E p \in Partitions : bought'[p] /\ Intact(p)' /\ Boot(p, FALSE)
  /\ UNCHANGED clients

\* firmware_update_node_up, each time the node has claimed an alias (while a
\* confirmation is queued, another would only repeat it)
NodeUp ==
  /\ ~rebooting /\ onTrial /\ confirm = "off"
  /\ confirm' = "timer"
  /\ UNCHANGED <<flash, bought, running, onTrial, trialTimer, frozen, unfreezeResult, rebooting,
                 transferVars, client, faults, clients>>

\* confirm_cb, whose call is dropped when the task's queue is full
ConfirmTimer ==
  /\ confirm = "timer"
  /\ \/ confirm' = "queued" /\ UNCHANGED faults
     \/ faults < MaxFaults /\ faults' = faults + 1 /\ confirm' = "off"
  /\ UNCHANGED <<flash, bought, running, onTrial, trialTimer, frozen, unfreezeResult, rebooting,
                 transferVars, client, clients>>

\* confirm_in_task: the image stays on trial if the boot ROM cannot confirm it, and
\* the timer of the trial runs on if its command queue is full
ConfirmInTask ==
  /\ confirm = "queued"
  /\ confirm' = "off"
  /\ \/ /\ bought' = [bought EXCEPT ![running] = TRUE]
        /\ onTrial' = FALSE
        /\ \/ trialTimer' = FALSE /\ UNCHANGED faults
           \/ faults < MaxFaults /\ faults' = faults + 1 /\ UNCHANGED trialTimer
     \/ /\ faults < MaxFaults /\ faults' = faults + 1
        /\ UNCHANGED <<bought, onTrial, trialTimer>>
  /\ UNCHANGED <<flash, running, frozen, unfreezeResult, rebooting, transferVars,
                 client, clients>>

\* A bug to catch: the order to reboot gets lost when the queue is full
LccTaskRebootDropped ==
  /\ rebooting' \in IF faults < MaxFaults THEN BOOLEAN ELSE {TRUE}
  /\ trialTimer' = FALSE
  /\ faults' = IF rebooting' THEN faults ELSE faults + 1
  /\ UNCHANGED <<flash, bought, running, onTrial, confirm, frozen, unfreezeResult,
                 transferVars, client, clients>>

\* lcc_task_reboot: at once, with the alias kept, when the task's queue is full
LccTaskReboot ==
  \/ /\ rebooting' = TRUE /\ trialTimer' = FALSE
     /\ UNCHANGED <<flash, bought, running, onTrial, confirm, frozen, unfreezeResult,
                    transferVars, client, faults, clients>>
  \/ /\ faults < MaxFaults /\ faults' = faults + 1
     /\ FirmwareUpdateReboot

\* trial_expired
TrialExpired ==
  /\ trialTimer
  /\ LccTaskReboot

-----------------------------------------------------------------------------
(* The specification *)

NoClient == [image |-> FirstImage, phase |-> "none", pos |-> 0, len |-> 0, fresh |-> FALSE]

Init ==
  /\ flash = [p \in Partitions |-> [k \in 1..PartSize |->
       IF p = First /\ k <= Size[FirstImage] THEN <<FirstImage, k>> ELSE Blank]]
  /\ bought = [p \in Partitions |-> p = First]
  /\ running = First /\ onTrial = FALSE /\ trialTimer = FALSE /\ confirm = "off"
  /\ frozen = FALSE /\ unfreezeResult = "OK" /\ rebooting = FALSE
  /\ target = First /\ received = 0 /\ flushed = 0 /\ buf = <<>>
  /\ last = <<0, 0>> /\ startNew = FALSE
  /\ client = NoClient
  /\ faults = 0 /\ clients = 0

Next ==
  \/ ClientFreezes
  \/ \E n \in Lens : ClientPrepares(n)
  \/ ClientWrites
  \/ ClientUnfreezes
  \/ \E i \in Images : NewClient(i)
  \/ RunTimers
  \/ RebootCommand
  \/ PowerLoss
  \/ NodeUp
  \/ ConfirmTimer
  \/ ConfirmInTask
  \/ TrialExpired

Spec == Init /\ [][Next]_vars

\* The LCC task runs its timers, the timer service runs the trial's, and a client
\* carries on with its transfer.
Fairness ==
  /\ WF_vars(RunTimers)
  /\ WF_vars(TrialExpired)
  /\ WF_vars(ClientFreezes)
  /\ WF_vars(\E n \in Lens : ClientPrepares(n))
  /\ WF_vars(ClientWrites)
  /\ WF_vars(ClientUnfreezes)

FairSpec == Spec /\ Fairness

-----------------------------------------------------------------------------
(* Properties *)

\* The image as far as it has been accepted
Content == SubSeq(flash[target], 1, flushed) \o buf

\* Whenever the power fails, there is a confirmed and complete image to start:
\* neither an upgrade nor the trial of the new image puts the last one at risk.
Bootable == \E p \in Partitions : bought[p] /\ Intact(p)

\* What the client has been told is stored is what the node holds, in its place,
\* through resends, failed flash writes, writes across sectors and new attempts.
AckedIsStored ==
  client.phase \in {"write", "unfreeze"} /\ client.fresh /\ frozen =>
    /\ client.pos <= Len(Content)
    /\ SubSeq(Content, 1, client.pos) = Data(client.image, 0, client.pos)

\* Lost answers and failed flash writes are absorbed by resending: a write is
\* rejected for good only because of the image, or because the node restarted.
OnlyBadImagesRejected ==
  [][client.phase = "write" /\ client'.phase = "giveup" /\ client.fresh =>
       client.image \notin Compatible \/ Size[client.image] > PartSize]_vars

\* A client told that its upgrade succeeded, by the node it started it on, has its
\* own image complete in the partition that is about to be started.
NoFalseSuccess ==
  [][client.phase # "done" /\ client'.phase = "done" /\ client.fresh =>
       startNew' /\ rebooting' /\ Holds(target, client.image)']_vars

\* A new image does not stay on trial: it is confirmed or the node reboots, also
\* when the confirmation or the order to reboot finds the task's queue full.
TrialEnds == onTrial ~> ~onTrial

\* A client that carries on gets a final answer.
TransferEnds ==
  client.phase \in {"freeze", "write", "giveup", "unfreeze"} ~>
    client.phase \in {"done", "failed"}

\* "a write at address 0 starts over": once the first write of a client is
\* acknowledged, its data is all the node holds.
StartsOver ==
  [][client.pos = 0 /\ client'.pos > 0 => Content' = Data(client.image, 0, client'.pos)]_vars

=============================================================================
