-------------------------------- MODULE Alias --------------------------------
(***************************************************************************)
(* Alias allocation and the detection of duplicate node IDs, of            *)
(* lib/lcc/src/node.c: several nodes that run it on one CAN bus.           *)
(*                                                                         *)
(* wire[n][m] holds the frames of node n that node m has still to handle,  *)
(* in the order n sent them; m handles those of different nodes in any     *)
(* order.  A frame is its kind, its source alias and a node ID:            *)
(*   "CID"    the four Check ID frames                                     *)
(*   "RID"    Reserve ID                                                   *)
(*   "AMR"    Alias Map Reset                                              *)
(*   "ID"     any announcement of the node ID: Alias Map Definition,       *)
(*            Initialization Complete, Verified Node ID                    *)
(*   "VERIFY" Verify Node ID Global for the node's own ID                  *)
(*   "MSG"    any other message                                            *)
(***************************************************************************)
EXTENDS Naturals, Sequences

CONSTANTS
  Nodes,
  Id,           \* Id[n]: the node ID of n
  AliasOf,      \* AliasOf[n]: the aliases n tries in turn, starting over at the end;
                \* this firmware derives them from the ID, another may not
  MaxLost,      \* bound: frames lost
  MaxRestarts   \* bound: restarts

ASSUME AliasAssumption ==
  /\ DOMAIN Id = Nodes
  /\ DOMAIN AliasOf = Nodes
  /\ \A n \in Nodes : AliasOf[n] \in Seq(Nat \ {0}) /\ AliasOf[n] # <<>>
  /\ MaxLost \in Nat
  /\ MaxRestarts \in Nat

VARIABLES
  state,       \* state[n]: "idle", "checking", "permitted" or "released"
  step,        \* step[n]: the position in AliasOf[n], the state of its generator; 0: none yet
  conflict,    \* conflict[n]: someone used or defended n's alias while checking
  reported,    \* reported[n]: n has reported another node with its ID
  wire,        \* wire[n][m]: frames from n to m
  losses,      \* frames lost so far
  restarts     \* restarts so far

vars == <<state, step, conflict, reported, wire, losses, restarts>>

Others(n) == Nodes \ {n}

\* The alias node n is checking or using
MyAlias(n) == AliasOf[n][step[n]]

-----------------------------------------------------------------------------
(* Sending *)

Frame(kind, alias, n) == [kind |-> kind, src |-> alias, id |-> Id[n]]

\* The wires after node n has handled the next frame from m (m = n: none) and
\* has sent `frames`.  lcc_send_frame sends nothing once n is released.
Handle(n, m, frames) ==
  wire' = [i \in Nodes |-> [j \in Others(i) |->
            (IF i = m /\ j = n THEN Tail(wire[i][j]) ELSE wire[i][j])
              \o (IF i = n THEN frames ELSE <<>>)]]

Send(n, frames) == Handle(n, n, frames)

\* A bug to catch: a conflict over the last alias counts against the next
ConflictKept(n) == conflict[n]

\* Nobody has claimed the next alias yet
ConflictAfresh(n) == FALSE

\* begin_checking: n goes on to its next alias and asks whether it is in use.
\* `first` is what n sends before.
BeginChecking(n, m, first) ==
  /\ step' = [step EXCEPT ![n] = (@ % Len(AliasOf[n])) + 1]
  /\ state' = [state EXCEPT ![n] = "checking"]
  /\ conflict' = [conflict EXCEPT ![n] = ConflictAfresh(n)]
  /\ Handle(n, m, Append(first, Frame("CID", AliasOf[n][step'[n]], n)))

-----------------------------------------------------------------------------
(* The node's steps *)

\* lcc_start
LccStart(n) ==
  /\ state[n] = "idle"
  /\ BeginChecking(n, n, <<>>)
  /\ UNCHANGED <<reported, losses, restarts>>

\* 200 ms is long enough for the others to have handled the CID frames and for
\* n to have handled their answers.
Settled(n) ==
  \A m \in Others(n) :
    /\ \A i \in DOMAIN wire[n][m] : wire[n][m][i].src # MyAlias(n)
    /\ \A i \in DOMAIN wire[m][n] : wire[m][n][i].src # MyAlias(n)

\* A bug to catch: a node does not ask for others with its ID
ClaimFramesOnly(n) == [i \in 1..2 |-> Frame(<<"RID", "ID">>[i], MyAlias(n), n)]

ClaimFrames(n) == [i \in 1..3 |-> Frame(<<"RID", "ID", "VERIFY">>[i], MyAlias(n), n)]

\* claim_alias
ClaimAlias(n) ==
  /\ state' = [state EXCEPT ![n] = "permitted"]
  /\ Send(n, ClaimFrames(n))
  /\ UNCHANGED <<step, conflict>>

Contested(n) == conflict[n]

\* lcc_run_timers, when the wait after the CID frames is over
CidTimer(n) ==
  /\ state[n] = "checking"
  /\ Settled(n)
  /\ \/ Contested(n) /\ BeginChecking(n, n, <<>>)
     \/ ~Contested(n) /\ ClaimAlias(n)
  /\ UNCHANGED <<reported, losses, restarts>>

\* The application sends a message (one at a time, to bound the wires)
SendMessage(n) ==
  /\ state[n] = "permitted"
  /\ \A m \in Others(n) : wire[n][m] = <<>>
  /\ Send(n, <<Frame("MSG", MyAlias(n), n)>>)
  /\ UNCHANGED <<state, step, conflict, reported, losses, restarts>>

\* Bugs to catch: an alias is not defended; every use of it is taken for a check
DefenceNone(n) == <<>>
ChecksAlways(f) == TRUE

Defence(n) == <<Frame("RID", MyAlias(n), n)>>
Checks(f) == f.kind = "CID"

\* alias_collision: f carries the alias n is checking or using
AliasCollision(n, m, f) ==
  \/ /\ state[n] = "checking"
     /\ conflict' = [conflict EXCEPT ![n] = TRUE]
     /\ Handle(n, m, <<>>)
     /\ UNCHANGED <<state, step>>
  \/ /\ state[n] = "permitted" /\ Checks(f)
     /\ Handle(n, m, Defence(n))
     /\ UNCHANGED <<state, step, conflict>>
  \/ /\ state[n] = "permitted" /\ ~Checks(f)
     /\ BeginChecking(n, m, <<Frame("AMR", MyAlias(n), n)>>)

\* check_duplicate on an announcement f, once until the next start
Duplicate(n, f) == f.kind = "ID" /\ f.id = Id[n] /\ ~reported[n]

\* What a permitted node answers to a frame with another alias
Reply(n, f) ==
  CASE Duplicate(n, f) -> <<Frame("MSG", MyAlias(n), n)>>
    [] f.kind = "VERIFY" /\ f.id = Id[n] -> <<Frame("ID", MyAlias(n), n)>>
    [] OTHER -> <<>>

\* lcc_frame_received: n handles the next frame from m
LccFrameReceived(n, m) ==
  /\ wire[m][n] # <<>>
  /\ LET f == Head(wire[m][n]) IN
     \/ /\ state[n] \in {"idle", "released"}
        /\ Handle(n, m, <<>>)
        /\ UNCHANGED <<state, step, conflict, reported>>
     \/ /\ state[n] \in {"checking", "permitted"} /\ f.src = MyAlias(n)
        /\ AliasCollision(n, m, f)
        /\ UNCHANGED reported
     \/ /\ state[n] = "checking" /\ f.src # MyAlias(n)
        /\ Handle(n, m, <<>>)
        /\ UNCHANGED <<state, step, conflict, reported>>
     \/ /\ state[n] = "permitted" /\ f.src # MyAlias(n)
        /\ reported' = [reported EXCEPT ![n] = @ \/ Duplicate(n, f)]
        /\ Handle(n, m, Reply(n, f))
        /\ UNCHANGED <<state, step, conflict>>
  /\ UNCHANGED <<losses, restarts>>

\* lcc_release_alias, before a reboot
LccReleaseAlias(n) ==
  /\ restarts < MaxRestarts
  /\ state[n] \in {"checking", "permitted"}
  /\ state' = [state EXCEPT ![n] = "released"]
  /\ Send(n, IF state[n] = "permitted" THEN <<Frame("AMR", MyAlias(n), n)>> ELSE <<>>)
  /\ UNCHANGED <<step, conflict, reported, losses, restarts>>

\* The node starts over (lcc_init), after a reboot or a loss of power: what it
\* has not handled yet is gone
Restart(n) ==
  /\ restarts < MaxRestarts
  /\ restarts' = restarts + 1
  /\ state' = [state EXCEPT ![n] = "idle"]
  /\ step' = [step EXCEPT ![n] = 0]
  /\ conflict' = [conflict EXCEPT ![n] = FALSE]
  /\ reported' = [reported EXCEPT ![n] = FALSE]
  /\ wire' = [i \in Nodes |-> [j \in Others(i) |-> IF j = n THEN <<>> ELSE wire[i][j]]]
  /\ UNCHANGED losses

\* A frame from m is dropped because n's task queue is full
Lose(n, m) ==
  /\ losses < MaxLost
  /\ wire[m][n] # <<>>
  /\ losses' = losses + 1
  /\ Handle(n, m, <<>>)
  /\ UNCHANGED <<state, step, conflict, reported, restarts>>

-----------------------------------------------------------------------------
(* The specification *)

Init ==
  /\ state = [n \in Nodes |-> "idle"]
  /\ step = [n \in Nodes |-> 0]
  /\ conflict = [n \in Nodes |-> FALSE]
  /\ reported = [n \in Nodes |-> FALSE]
  /\ wire = [n \in Nodes |-> [m \in Others(n) |-> <<>>]]
  /\ losses = 0
  /\ restarts = 0

Next ==
  \E n \in Nodes :
    \/ LccStart(n)
    \/ CidTimer(n)
    \/ SendMessage(n)
    \/ LccReleaseAlias(n)
    \/ Restart(n)
    \/ \E m \in Others(n) : LccFrameReceived(n, m) \/ Lose(n, m)

\* Every node is started, handles what arrives and looks at its timers.  The wait
\* after the CID frames ends even if the holder of the alias keeps sending, which
\* makes Settled false again and again: hence strong fairness.
Fairness ==
  \A n \in Nodes :
    /\ WF_vars(LccStart(n))
    /\ SF_vars(CidTimer(n))
    /\ \A m \in Others(n) : WF_vars(LccFrameReceived(n, m))

Spec == Init /\ [][Next]_vars

FairSpec == Spec /\ Fairness

-----------------------------------------------------------------------------
(* Properties *)

Sharing(n, m) ==
  /\ n # m
  /\ state[n] = "permitted" /\ state[m] = "permitted"
  /\ MyAlias(n) = MyAlias(m)

\* As long as no frame is lost, two nodes never use one alias, whichever of them
\* starts, restarts or moves to another alias while the other checks or holds it.
UniqueAlias == losses = 0 => \A n, m \in Nodes : ~Sharing(n, m)

\* A lost frame may let two nodes claim one alias, but not for good.
SharingEnds == \A n, m \in Nodes : Sharing(n, m) ~> ~Sharing(n, m)

\* Every node that is not about to reboot gets an alias in the end and keeps it.
EventuallyPermitted ==
  <>[](\A n \in Nodes : state[n] \in {"permitted", "released"})

\* Two nodes with one node ID both find out and report it, even though neither of
\* them ever handles its own announcements.
DuplicatesReported ==
  \A n \in Nodes : \A m \in Others(n) :
    Id[n] = Id[m] /\ losses = 0 /\ state[n] = "permitted" /\ state[m] = "permitted"
      ~> (reported[n] \/ losses # 0 \/ state[m] # "permitted" \/ state[n] # "permitted")

=============================================================================
