------------------------------- MODULE Turnouts -------------------------------
(***************************************************************************)
(* The switch machines of src/app/turnouts.c: LCC commands, fascia inputs  *)
(* and configuration writes move the servos of module Servo, one timer     *)
(* ticks them all while any is busy, and the bus hears where they are.     *)
(*                                                                         *)
(* All of it runs in the LCC task, the timer excepted: its ticks are calls *)
(* in the task's queue, and may find the servos in another state than the  *)
(* one the timer was started for.  Commands arrive in any order between    *)
(* them.  A tick that finds the queue full is dropped: the timer then just *)
(* has not fired yet.                                                      *)
(*                                                                         *)
(* heard[i] is what the bus knows of turnout i: the last feedback event or *)
(* the answer to an Identify.  A node that is claiming an alias sends no   *)
(* events (events.c:220).                                                  *)
(***************************************************************************)
EXTENDS Servo, FiniteSets

CONSTANTS
  N,               \* number of servos
  Outputs,         \* the outputs for frogs; 0 is none
  Configs,         \* the configurations a servo may have
  InitConfig,      \* InitConfig[i]: the one it starts with
  Positions,       \* the positions configurations name
  MaxTicks,        \* bound: ticks in the queue of the LCC task
  MaxCommands,     \* bound: events and presses of an input
  MaxWrites,       \* bound: configuration writes
  MaxMoves         \* bound: aliases lost

Servos == 1..N

ConfigType ==
  [thrown_position : Positions, closed_position : Positions, center_position : Positions,
   throw_time : Nat, hold_time : Nat, enabled : BOOLEAN, reversed : BOOLEAN,
   default_state : {"thrown", "closed", "no_change"},
   frog_output : Outputs \cup {0}, fascia_input : Nat]

ASSUME TurnoutsAssumption ==
  /\ N \in Nat \ {0}
  /\ 0 \notin Outputs
  /\ Positions \subseteq Nat
  /\ Configs \subseteq ConfigType
  /\ InitConfig \in [Servos -> Configs]
  /\ MaxTicks \in Nat \ {0}
  /\ MaxCommands \in Nat
  /\ MaxWrites \in Nat
  /\ MaxMoves \in Nat

VARIABLES
  cfg,        \* cfg[i]: the configuration of servo i
  servo,      \* servo[i]: its state in servo.c
  closed,     \* closed[i]: commanded closed, else thrown
  known,      \* known[i]: false until commanded, and after centering
  gpio,       \* gpio[p]: output p is on
  timer,      \* the motion timer is running
  ticks,      \* its calls in the task's queue
  up,         \* the node has an alias
  heard,      \* heard[i]: "thrown", "closed" or "unknown", on the bus
  disturbed,  \* history: servos centered, configured anew, or that shared the output of
              \* one configured anew
  commands, writes, moves   \* what has happened so far

counts == <<commands, writes, moves>>
vars == <<cfg, servo, closed, known, gpio, timer, ticks, up, heard, disturbed, counts>>

ServoBusy(s) == \E i \in Servos : Busy(s[i])

-----------------------------------------------------------------------------
(* Moving *)

Midpoint(c) == (c.thrown_position + c.closed_position) \div 2

\* The position of a servo configured c for state `close`
Destination(c, close) ==
  IF close # c.reversed THEN c.closed_position ELSE c.thrown_position

\* servo_set_target as move() calls it
Commanded(s, c, close, throw_time) ==
  ServoSetTarget(s, Destination(c, close), throw_time, c.hold_time, c.frog_output, Midpoint(c))

Name(close) == IF close THEN "closed" ELSE "thrown"

\* The outputs after the servos in `set`, one after the other, have set theirs: servo
\* i sets pin[i] to side[i]
FrogsSet(set, old, pin, side) ==
  [p \in Outputs |->
     LET mine == {i \in set : pin[i] = p} IN
     IF mine = {} THEN old[p] ELSE side[CHOOSE i \in mine : \A j \in mine : j <= i]]

\* The servos that are at their target without a timed move, and are reported at once
Reported(s) == {i \in Servos : ~s[i].moving}

\* move() for every servo in `set`, to the state close[i]
Move(set, close) ==
  /\ servo' = [i \in Servos |->
       IF i \in set THEN Commanded(servo[i], cfg[i], close[i], cfg[i].throw_time) ELSE servo[i]]
  /\ closed' = [i \in Servos |-> IF i \in set THEN close[i] ELSE closed[i]]
  /\ known' = [i \in Servos |-> i \in set \/ known[i]]
  /\ gpio' = FrogsSet({i \in set : ~servo'[i].moving}, gpio,
       [i \in Servos |-> cfg[i].frog_output],
       [i \in Servos |-> Side(servo'[i].target, Midpoint(cfg[i]))])
  /\ heard' = [i \in Servos |->
       IF up /\ i \in set \cap Reported(servo') THEN Name(close[i]) ELSE heard[i]]
  /\ timer' = (timer \/ (set # {} /\ ServoBusy(servo')))

Command == commands < MaxCommands /\ commands' = commands + 1 /\ UNCHANGED <<writes, moves>>

\* on_throw and on_close.  A node without an alias handles no messages (node.c:363,
\* 404), but its inputs go on working.
OnThrowClose(i, close) ==
  /\ Command
  /\ up /\ cfg[i].enabled
  /\ Move({i}, [j \in Servos |-> close])
  /\ UNCHANGED <<cfg, ticks, up, disturbed>>

\* on_center
OnCenter(i) ==
  /\ Command
  /\ up /\ cfg[i].enabled
  /\ servo' = [servo EXCEPT ![i] = ServoSetTarget(@, cfg[i].center_position, 0, 0, 0, 0)]
  /\ known' = [known EXCEPT ![i] = FALSE]
  /\ disturbed' = disturbed \cup {i}
  /\ UNCHANGED <<cfg, closed, gpio, timer, ticks, up, heard>>

\* turnouts_input_pressed
TurnoutsInputPressed(input) ==
  LET set == {i \in Servos : cfg[i].enabled /\ cfg[i].fascia_input = input} IN
  /\ Command
  /\ set # {}
  /\ Move(set, [i \in Servos |-> ~closed[i]])
  /\ UNCHANGED <<cfg, ticks, up, disturbed>>

-----------------------------------------------------------------------------
(* Ticking *)

\* motion_timer_cb: a tick goes into the task's queue
MotionTimer ==
  /\ timer
  /\ ticks < MaxTicks
  /\ ticks' = ticks + 1
  /\ UNCHANGED <<cfg, servo, closed, known, gpio, timer, up, heard, disturbed, counts>>

\* A bug to catch: the timer is stopped as soon as no servo is moving
MovesOn(s) == \E i \in Servos : s[i].moving

\* The timer is still needed after a tick
TicksOn(s) == ServoBusy(s)

\* motion_tick
MotionTick ==
  /\ ticks > 0
  /\ ticks' = ticks - 1
  /\ servo' = [i \in Servos |-> ServoTick(servo[i])]
  /\ gpio' = FrogsSet({i \in Servos : SwitchesFrog(servo[i], servo[i].frog_pin)}, gpio,
       [i \in Servos |-> servo[i].frog_pin],
       [i \in Servos |-> Side(servo'[i].current, servo[i].midpoint)])
  /\ heard' = [i \in Servos |->
       IF up /\ Arrives(servo[i]) THEN Name(closed[i]) ELSE heard[i]]
  /\ timer' = (timer /\ TicksOn(servo'))
  /\ UNCHANGED <<cfg, closed, known, up, disturbed, counts>>

-----------------------------------------------------------------------------
(* Configuration and the bus *)

\* A bug to catch: a disabled servo finishes its move
DisableAtRest(s) == IF s.moving THEN s ELSE ServoDisable(s)

\* What becomes of a servo that is found disabled
Disable(s) == ServoDisable(s)

\* The servos that switch the frog output of configuration c
Sharing(c) == {j \in Servos : cfg[j].frog_output = c.frog_output /\ c.frog_output # 0}

\* app_config_written, for a write to the settings of servo i
TurnoutsConfigWritten(i, c) ==
  /\ up
  /\ writes < MaxWrites
  /\ writes' = writes + 1
  /\ cfg' = [cfg EXCEPT ![i] = c]
  /\ servo' = [j \in Servos |-> IF cfg'[j].enabled THEN servo[j] ELSE Disable(servo[j])]
  /\ known' = [j \in Servos |-> known[j] /\ cfg'[j].enabled]
  /\ disturbed' = disturbed \cup {i} \cup Sharing(cfg[i]) \cup Sharing(c)
  /\ UNCHANGED <<closed, gpio, timer, ticks, up, heard, commands, moves>>

\* command_state and feedback_state: what the node answers of turnout i
Identified(i) ==
  IF known[i] /\ ~servo[i].moving THEN Name(closed[i]) ELSE "unknown"

\* A bug to catch: a new alias goes without the Identified messages
SilentNodeUp == up' = TRUE /\ UNCHANGED heard

\* claim_alias: the events of the turnouts are all in the first batch
Announce == up' = TRUE /\ heard' = [i \in Servos |-> Identified(i)]

NodeUp ==
  /\ ~up
  /\ Announce
  /\ UNCHANGED <<cfg, servo, closed, known, gpio, timer, ticks, disturbed, counts>>

\* A collision: the node sends nothing until it has claimed another alias
AliasLost ==
  /\ up
  /\ moves < MaxMoves
  /\ moves' = moves + 1
  /\ up' = FALSE
  /\ UNCHANGED <<cfg, servo, closed, known, gpio, timer, ticks, heard, disturbed, commands, writes>>

-----------------------------------------------------------------------------
(* The specification *)

\* turnouts_init moves this servo, at once
StartMoves(i) == cfg[i].enabled /\ cfg[i].default_state # "no_change"

Init ==
  /\ cfg = InitConfig
  /\ closed = [i \in Servos |-> StartMoves(i) /\ cfg[i].default_state = "closed"]
  /\ known = [i \in Servos |-> StartMoves(i)]
  /\ servo = [i \in Servos |->
       IF StartMoves(i) THEN Commanded(ServoInit, cfg[i], closed[i], 0) ELSE ServoInit]
  /\ gpio = FrogsSet({i \in Servos : StartMoves(i)}, [p \in Outputs |-> FALSE],
       [i \in Servos |-> cfg[i].frog_output],
       [i \in Servos |-> Side(servo[i].target, Midpoint(cfg[i]))])
  /\ timer = ServoBusy(servo)
  /\ ticks = 0
  /\ up = FALSE
  /\ heard = [i \in Servos |-> "unknown"]
  /\ disturbed = {}
  /\ commands = 0 /\ writes = 0 /\ moves = 0

Next ==
  \/ \E i \in Servos : \E close \in BOOLEAN : OnThrowClose(i, close)
  \/ \E i \in Servos : OnCenter(i)
  \/ \E i \in Servos : \E c \in Configs : TurnoutsConfigWritten(i, c)
  \/ \E input \in {cfg[i].fascia_input : i \in Servos} \ {0} : TurnoutsInputPressed(input)
  \/ MotionTimer
  \/ MotionTick
  \/ NodeUp
  \/ AliasLost

\* The timer service runs the timer, and the LCC task what is in its queue
\* (lcc_task.c:167-179).
Fairness == WF_vars(MotionTimer) /\ WF_vars(MotionTick)

Spec == Init /\ [][Next]_vars

FairSpec == Spec /\ Fairness

-----------------------------------------------------------------------------
(* Properties *)

ServoType ==
  [current : Nat, target : Positions \cup {0}, step : Nat, hold_ticks : Nat,
   midpoint : Nat, frog_pin : Outputs \cup {0},
   moving : BOOLEAN, holding : BOOLEAN, active : BOOLEAN]

\* The variables have their types; a servo that moves or holds has a signal, and
\* one that holds has time left.
TypeOK ==
  /\ cfg \in [Servos -> Configs]
  /\ servo \in [Servos -> ServoType]
  /\ \A i \in Servos :
       /\ ~(servo[i].moving /\ servo[i].holding)
       /\ Busy(servo[i]) => servo[i].active
       /\ servo[i].holding => servo[i].hold_ticks > 0
  /\ closed \in [Servos -> BOOLEAN] /\ known \in [Servos -> BOOLEAN]
  /\ gpio \in [Outputs -> BOOLEAN]
  /\ timer \in BOOLEAN /\ up \in BOOLEAN
  /\ ticks \in 0..MaxTicks
  /\ heard \in [Servos -> {"thrown", "closed", "unknown"}]
  /\ disturbed \subseteq Servos

\* While any servo moves or counts down its hold time the timer runs: no tick left
\* in the queue from an earlier move stops it under a servo that still needs it.
BusyIsTicked == ServoBusy(servo) => timer

\* The bus is right about every turnout at rest: the last it heard is the state
\* commanded last, and the servo stands where that command sent it, through
\* commands that overtake each other, inputs, disabling, and losses of the alias.
BusIsRight ==
  \A i \in Servos : up /\ known[i] /\ ~servo[i].moving =>
    heard[i] = Name(closed[i]) /\ servo[i].current = servo[i].target

\* A servo that is disabled, even in the middle of a move, has no signal, is not
\* moved by the ticks still in the queue, and its state is not claimed to be known.
DisabledIsOff ==
  \A i \in Servos : ~cfg[i].enabled => ~servo[i].active /\ ~Busy(servo[i]) /\ ~known[i]

\* The frog of servo i has the polarity of the side the servo is on
FrogRight(i) ==
  servo[i].frog_pin # 0 => gpio[servo[i].frog_pin] = Side(servo[i].current, servo[i].midpoint)

\* Once a servo has been commanded, its frog has the polarity of the side it is on,
\* also in the middle of a move and when a command turns it round, unless the servo
\* was centered or configured anew, shares its output or has shared it, or has both
\* ends at 0 or 1: it counts as being at 0 before its first command, so its first move
\* would start at its midpoint already, where nothing has set the output.
FrogFollows ==
  \A i \in Servos \ disturbed :
    /\ known[i]
    /\ Midpoint(cfg[i]) > 0
    /\ \A j \in Servos \ {i} : cfg[j].frog_output # cfg[i].frog_output
    => FrogRight(i)

\* "output channel 1-4 to toggle at midpoint": a turnout at rest after a command to
\* throw or close has its frog on the side of the midpoint the servo is on.
FrogToggles ==
  \A i \in Servos : known[i] /\ ~servo[i].moving => FrogRight(i)

\* Every move ends, and so does every hold time with the signal cut off, when the
\* commands do.
MotionEnds == \A i \in Servos : Busy(servo[i]) ~> ~Busy(servo[i])

=============================================================================
