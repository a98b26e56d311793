-------------------------------- MODULE Servo --------------------------------
(***************************************************************************)
(* One servo of src/servo.c, as operators on its state: a target is set,   *)
(* timer ticks move the servo towards it, hold it there and then cut the   *)
(* signal.  Each operator has a companion for the frog output the servo    *)
(* may switch.                                                             *)
(***************************************************************************)
EXTENDS Integers

CONSTANTS
  TicksPerTenth,    \* ticks in a tenth of a second, the unit of throw_time
  TicksPerSecond    \* ticks in a second, the unit of hold_time

ASSUME ServoAssumption ==
  /\ TicksPerTenth \in Nat \ {0}
  /\ TicksPerSecond \in Nat \ {0}

\* servo_state[i]
Servo(current, target, step, hold_ticks, midpoint, frog_pin, moving, holding, active) ==
  [current |-> current, target |-> target, step |-> step, hold_ticks |-> hold_ticks,
   midpoint |-> midpoint, frog_pin |-> frog_pin,
   moving |-> moving, holding |-> holding, active |-> active]

\* servo_init
ServoInit == Servo(0, 0, 0, 0, 0, 0, FALSE, FALSE, FALSE)

\* servo_disable
ServoDisable(s) ==
  Servo(s.current, s.target, s.step, s.hold_ticks, s.midpoint, s.frog_pin, FALSE, FALSE, FALSE)

-----------------------------------------------------------------------------
(* servo_set_target *)

Distance(a, b) == IF a > b THEN a - b ELSE b - a

\* The way per tick of a move over `distance` in throw_time tenths of a second
Step(distance, throw_time) ==
  LET step == distance \div (throw_time * TicksPerTenth) IN IF step = 0 THEN 1 ELSE step

\* No timed move: the servo is there already, or is sent there at once
Instant(s, target, throw_time) == s.current = target \/ throw_time = 0

\* There is a hold time to count down; 0 holds forever
Holds(hold) == hold > 0

ServoSetTarget(s, target, throw_time, hold_time, frog_pin, midpoint) ==
  LET hold == hold_time * TicksPerSecond IN
  IF Instant(s, target, throw_time)
  THEN Servo(target, target, 0, hold, midpoint, frog_pin, FALSE, Holds(hold), TRUE)
  ELSE Servo(s.current, target, Step(Distance(s.current, target), throw_time),
             hold, midpoint, frog_pin, TRUE, FALSE, TRUE)

-----------------------------------------------------------------------------
(* servo_tick, for one servo *)

\* Where a moving servo gets
Advance(s) ==
  IF Distance(s.current, s.target) <= s.step THEN s.target
  ELSE IF s.current < s.target THEN s.current + s.step ELSE s.current - s.step

\* The servo reaches its target in this tick
Arrives(s) == ~s.holding /\ s.moving /\ Advance(s) = s.target

ServoTick(s) ==
  IF s.holding THEN
    Servo(s.current, s.target, s.step, s.hold_ticks - 1, s.midpoint, s.frog_pin,
          s.moving, s.hold_ticks > 1, s.active /\ s.hold_ticks > 1)
  ELSE IF s.moving THEN
    Servo(Advance(s), s.target, s.step, s.hold_ticks, s.midpoint, s.frog_pin,
          ~Arrives(s), Arrives(s) /\ Holds(s.hold_ticks), s.active)
  ELSE s

\* The side of the midpoint a servo at `position` is on, which is the frog's polarity
Side(position, midpoint) == position >= midpoint

\* A bug to catch: only the way up switches the frog
CrossesUp(s) == ~Side(s.current, s.midpoint) /\ Side(Advance(s), s.midpoint)

\* The tick takes the servo to its midpoint or across it
Crosses(s) ==
  \/ Side(s.current, s.midpoint) # Side(Advance(s), s.midpoint)
  \/ Advance(s) = s.midpoint

\* The tick sets output `pin`
SwitchesFrog(s, pin) == ~s.holding /\ s.moving /\ s.frog_pin = pin /\ Crosses(s)

\* The servo is moving or counts down its hold time
Busy(s) == s.moving \/ s.holding

=============================================================================
