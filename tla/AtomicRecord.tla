---------------------------- MODULE AtomicRecord ----------------------------
(***************************************************************************)
(* What nv_storage.h promises of one region of flash: a save takes effect  *)
(* as a whole or not at all, says which, and losing power in the middle    *)
(* leaves the previous copy in place.                                      *)
(***************************************************************************)
CONSTANTS Data, None

VARIABLES
  record,   \* what a load finds
  call,     \* what is being saved, None if nothing is
  reply     \* what the last save returned: "none", "ok" or "failed"

Init ==
  /\ record \in Data \cup {None}
  /\ call = None
  /\ reply = "none"

Begin(v) ==
  /\ call = None
  /\ call' = v
  /\ reply' = "none"
  /\ UNCHANGED record

\* The save takes effect
Commit ==
  /\ call # None
  /\ record' = call
  /\ UNCHANGED <<call, reply>>

\* The save returns, truthfully
Finish ==
  /\ call # None
  /\ reply' = IF record = call THEN "ok" ELSE "failed"
  /\ call' = None
  /\ UNCHANGED record

PowerLoss ==
  /\ call' = None
  /\ reply' = "none"
  /\ UNCHANGED record

Next == (\E v \in Data : Begin(v)) \/ Commit \/ Finish \/ PowerLoss

Spec == Init /\ [][Next]_<<record, call, reply>>

=============================================================================
