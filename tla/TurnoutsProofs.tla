---------------------------- MODULE TurnoutsProofs ----------------------------
(***************************************************************************)
(* Proofs about the turnouts, for any number of servos, any configurations *)
(* and any bounds: the timer runs while it is needed, a disabled servo is  *)
(* off, the bus is right about every turnout at rest, and a frog follows   *)
(* its servo.                                                              *)
(***************************************************************************)
EXTENDS Turnouts, WellFoundedInduction, TLAPS

-----------------------------------------------------------------------------
(* The servo's operators *)

Flags(s) == s.moving \in BOOLEAN /\ s.holding \in BOOLEAN /\ s.active \in BOOLEAN

\* A servo that is set to a target has its flags set, and stands at the target
\* unless it moves.
LEMMA SetTargetFacts ==
  ASSUME NEW s, NEW target, NEW time, NEW hold, NEW frog, NEW mid
  PROVE  LET t == ServoSetTarget(s, target, time, hold, frog, mid) IN
         /\ Flags(t)
         /\ ~t.moving => t.current = t.target
<1> DEFINE ticks_ == hold * TicksPerSecond
           step_ == Step(Distance(s.current, target), time)
<1>1. Holds(ticks_) \in BOOLEAN
  BY DEF Holds
<1> HIDE DEF ticks_, step_
<1>2. Flags(Servo(target, target, 0, ticks_, mid, frog, FALSE, Holds(ticks_), TRUE))
  BY <1>1 DEF Servo, Flags
<1>3. Flags(Servo(s.current, target, step_, ticks_, mid, frog, TRUE, FALSE, TRUE))
  BY DEF Servo, Flags
<1>4. Servo(target, target, 0, ticks_, mid, frog, FALSE, Holds(ticks_), TRUE).current = target
      /\ Servo(target, target, 0, ticks_, mid, frog, FALSE, Holds(ticks_), TRUE).target = target
  BY DEF Servo
<1>5. Servo(s.current, target, step_, ticks_, mid, frog, TRUE, FALSE, TRUE).moving
  BY DEF Servo
<1> QED
  BY <1>2, <1>3, <1>4, <1>5 DEF ServoSetTarget, ticks_, step_

\* Centering ends every move and hold time.
LEMMA CenteredIsIdle ==
  ASSUME NEW s, NEW target
  PROVE  LET t == ServoSetTarget(s, target, 0, 0, 0, 0) IN Flags(t) /\ ~Busy(t)
<1>1. 0 * TicksPerSecond = 0
  BY ServoAssumption
<1>2. Holds(0 * TicksPerSecond) = FALSE
  BY <1>1 DEF Holds
<1>3. ServoSetTarget(s, target, 0, 0, 0, 0) =
        Servo(target, target, 0, 0 * TicksPerSecond, 0, 0, FALSE, FALSE, TRUE)
  BY <1>2 DEF ServoSetTarget, Instant
<1>4. ASSUME NEW t, t = Servo(target, target, 0, 0 * TicksPerSecond, 0, 0, FALSE, FALSE, TRUE)
      PROVE  Flags(t) /\ ~Busy(t)
  BY <1>4 DEF Servo, Flags, Busy
<1> QED
  BY <1>3, <1>4

\* A disabled servo is idle and has no signal.
LEMMA DisabledIsIdle ==
  ASSUME NEW s
  PROVE  Flags(ServoDisable(s)) /\ ~Busy(ServoDisable(s)) /\ ~ServoDisable(s).active
  BY DEF ServoDisable, Servo, Flags, Busy

\* A tick makes no idle servo busy, and leaves it alone.
LEMMA TickFacts ==
  ASSUME NEW s, Flags(s)
  PROVE  /\ Flags(ServoTick(s))
         /\ Busy(ServoTick(s)) => Busy(s)
         /\ ~Busy(s) => ServoTick(s) = s
<1>1. CASE s.holding
  <2>1. (s.hold_ticks > 1) \in BOOLEAN /\ (s.active /\ s.hold_ticks > 1) \in BOOLEAN
    OBVIOUS
  <2> QED
    BY <1>1, <2>1 DEF ServoTick, Servo, Flags, Busy
<1>2. CASE ~s.holding /\ s.moving
  <2>1. Arrives(s) \in BOOLEAN /\ (Arrives(s) /\ Holds(s.hold_ticks)) \in BOOLEAN
    BY DEF Arrives
  <2> QED
    BY <1>2, <2>1 DEF ServoTick, Servo, Flags, Busy
<1>3. CASE ~s.holding /\ ~s.moving
  BY <1>3 DEF ServoTick, Busy, Flags
<1> QED
  BY <1>1, <1>2, <1>3

\* A servo at rest after a tick was at rest before, in the same place, or arrives.
LEMMA TickEnds ==
  ASSUME NEW s, Flags(s), ~ServoTick(s).moving
  PROVE  \/ Arrives(s) /\ ServoTick(s).current = ServoTick(s).target
         \/ /\ ~s.moving /\ ~Arrives(s)
            /\ ServoTick(s).current = s.current /\ ServoTick(s).target = s.target
  BY DEF ServoTick, Servo, Flags, Holds, Arrives

-----------------------------------------------------------------------------
(* The inductive invariant *)

\* The servos' flags are Booleans: what a tick does depends on nothing else.
FlagsOK ==
  /\ servo = [i \in Servos |-> servo[i]]
  /\ \A i \in Servos : Flags(servo[i])
  /\ timer \in BOOLEAN
  /\ known \in [Servos -> BOOLEAN]

\* A servo at rest in a known state stands where it was sent, alias or not.
AtTarget == \A i \in Servos : known[i] /\ ~servo[i].moving => servo[i].current = servo[i].target

\* The bus heard the state of every such servo while the node has an alias.
Heard == \A i \in Servos : up /\ known[i] /\ ~servo[i].moving => heard[i] = Name(closed[i])

Inv == FlagsOK /\ BusyIsTicked /\ DisabledIsOff /\ AtTarget /\ Heard

LEMMA InvInit == Init => Inv
<1> SUFFICES ASSUME Init PROVE Inv
  OBVIOUS
<1> DEFINE Cmd(i) == Commanded(ServoInit, cfg[i], closed[i], 0)
<1>1. ASSUME NEW i \in Servos
      PROVE  servo[i] = IF StartMoves(i) THEN Cmd(i) ELSE ServoInit
  BY DEF Init
<1>2. ASSUME NEW i \in Servos PROVE Flags(Cmd(i)) /\ (~Cmd(i).moving => Cmd(i).current = Cmd(i).target)
  BY SetTargetFacts DEF Commanded
<1>3. Flags(ServoInit) /\ ~Busy(ServoInit) /\ ~ServoInit.active /\ ~ServoInit.moving
  BY DEF ServoInit, Servo, Flags, Busy
<1> HIDE DEF Cmd
<1>4. FlagsOK
  <2>1. servo = [i \in Servos |-> servo[i]] /\ \A i \in Servos : Flags(servo[i])
    BY <1>1, <1>2, <1>3 DEF Init
  <2>2. timer \in BOOLEAN
    BY DEF Init, ServoBusy
  <2>3. ASSUME NEW i \in Servos PROVE cfg[i] \in ConfigType
    BY TurnoutsAssumption DEF Init
  <2>4. known \in [Servos -> BOOLEAN]
    BY <2>3 DEF Init, StartMoves, ConfigType
  <2> QED
    BY <2>1, <2>2, <2>4 DEF FlagsOK
<1>5. BusyIsTicked
  BY DEF Init, BusyIsTicked
<1>6. DisabledIsOff
  BY <1>1, <1>3 DEF Init, DisabledIsOff, StartMoves
<1>7. AtTarget
  BY <1>1, <1>2 DEF Init, AtTarget
<1>8. Heard
  BY DEF Init, Heard
<1> QED
  BY <1>4, <1>5, <1>6, <1>7, <1>8 DEF Inv

-----------------------------------------------------------------------------
(* The actions preserve it *)

\* Commanded servos stand at their target unless they move.
LEMMA CommandedFacts ==
  ASSUME NEW s, NEW c, NEW close, NEW time
  PROVE  LET t == Commanded(s, c, close, time) IN
         Flags(t) /\ (~t.moving => t.current = t.target)
  BY SetTargetFacts DEF Commanded

\* A move of enabled servos.
LEMMA InvMove ==
  ASSUME Inv, NEW set \in SUBSET Servos, set # {}, NEW close,
         \A i \in set : cfg[i].enabled,
         Move(set, close), UNCHANGED <<cfg, up>>
  PROVE  Inv'
<1> DEFINE Cmd(i) == Commanded(servo[i], cfg[i], close[i], cfg[i].throw_time)
<1>1. /\ servo' = [i \in Servos |-> IF i \in set THEN Cmd(i) ELSE servo[i]]
      /\ closed' = [i \in Servos |-> IF i \in set THEN close[i] ELSE closed[i]]
      /\ known' = [i \in Servos |-> i \in set \/ known[i]]
      /\ heard' = [i \in Servos |->
           IF up /\ i \in set \cap Reported(servo') THEN Name(close[i]) ELSE heard[i]]
      /\ timer' = (timer \/ (set # {} /\ ServoBusy(servo')))
  BY DEF Move
<1>2. ASSUME NEW i \in Servos PROVE Flags(Cmd(i)) /\ (~Cmd(i).moving => Cmd(i).current = Cmd(i).target)
  BY CommandedFacts
<1> HIDE DEF Cmd
<1>3. FlagsOK'
  <2>1. servo' = [i \in Servos |-> servo'[i]]
    BY <1>1
  <2>2. ASSUME NEW i \in Servos PROVE Flags(servo'[i])
    BY <1>1, <1>2 DEF Inv, FlagsOK
  <2>3. timer' \in BOOLEAN /\ known' \in [Servos -> BOOLEAN]
    BY <1>1 DEF Inv, FlagsOK
  <2> QED
    BY <2>1, <2>2, <2>3 DEF FlagsOK
<1>4. BusyIsTicked'
  BY <1>1 DEF BusyIsTicked
<1>5. DisabledIsOff'
  BY <1>1 DEF Inv, FlagsOK, DisabledIsOff
<1>6. AtTarget'
  BY <1>1, <1>2 DEF Inv, AtTarget
<1>7. Heard'
  <2> SUFFICES ASSUME NEW i \in Servos, up', known'[i], ~servo'[i].moving
               PROVE  heard'[i] = Name(closed'[i])
    BY DEF Heard
  <2>1. CASE i \in set
    BY <1>1, <2>1 DEF Reported
  <2>2. CASE i \notin set
    BY <1>1, <2>2 DEF Inv, Heard, FlagsOK
  <2> QED
    BY <2>1, <2>2
<1> QED
  BY <1>3, <1>4, <1>5, <1>6, <1>7 DEF Inv

LEMMA InvStep == Inv /\ [Next]_vars => Inv'
<1> SUFFICES ASSUME Inv, [Next]_vars PROVE Inv'
  OBVIOUS
<1>1. ASSUME NEW i \in Servos, NEW close \in BOOLEAN, OnThrowClose(i, close) PROVE Inv'
  <2> DEFINE all == [j \in Servos |-> close]
  <2>1. Move({i}, all) /\ cfg[i].enabled /\ UNCHANGED <<cfg, up>>
    BY <1>1 DEF OnThrowClose
  <2> HIDE DEF all
  <2> QED
    BY <2>1, InvMove
<1>2. ASSUME NEW input, TurnoutsInputPressed(input) PROVE Inv'
  <2> DEFINE set == {i \in Servos : cfg[i].enabled /\ cfg[i].fascia_input = input}
             close == [i \in Servos |-> ~closed[i]]
  <2>1. Move(set, close) /\ set # {} /\ UNCHANGED <<cfg, up>>
    BY <1>2 DEF TurnoutsInputPressed
  <2>2. set \in SUBSET Servos /\ \A i \in set : cfg[i].enabled
    OBVIOUS
  <2> HIDE DEF set, close
  <2> QED
    BY <2>1, <2>2, InvMove
<1>3. ASSUME NEW i \in Servos, OnCenter(i) PROVE Inv'
  <2> DEFINE t == ServoSetTarget(servo[i], cfg[i].center_position, 0, 0, 0, 0)
  <2>1. Flags(t) /\ ~Busy(t)
    BY CenteredIsIdle
  <2>2. /\ servo' = [servo EXCEPT ![i] = t]
        /\ known' = [known EXCEPT ![i] = FALSE]
        /\ cfg[i].enabled
        /\ UNCHANGED <<cfg, closed, timer, up, heard>>
    BY <1>3 DEF OnCenter
  <2> HIDE DEF t
  <2>3. ASSUME NEW j \in Servos
        PROVE  servo'[j] = (IF j = i THEN t ELSE servo[j]) /\ known'[j] = (j # i /\ known[j])
    BY <2>2 DEF Inv, FlagsOK
  <2>4. FlagsOK'
    BY <2>1, <2>2, <2>3 DEF Inv, FlagsOK
  <2>5. BusyIsTicked'
    BY <2>1, <2>2, <2>3 DEF Inv, BusyIsTicked, ServoBusy
  <2>6. DisabledIsOff'
    BY <2>2, <2>3 DEF Inv, DisabledIsOff
  <2>7. ASSUME NEW j \in Servos, known'[j] PROVE known[j] /\ servo'[j] = servo[j]
    BY <2>3, <2>7
  <2>8. AtTarget'
    BY <2>7 DEF Inv, AtTarget
  <2>9. Heard'
    BY <2>2, <2>7 DEF Inv, Heard
  <2> QED
    BY <2>4, <2>5, <2>6, <2>8, <2>9 DEF Inv
<1>4. ASSUME NEW i \in Servos, NEW c \in Configs, TurnoutsConfigWritten(i, c) PROVE Inv'
  <2>1. ASSUME NEW j \in Servos
        PROVE  /\ servo'[j] = IF cfg'[j].enabled THEN servo[j] ELSE ServoDisable(servo[j])
               /\ known'[j] = (known[j] /\ cfg'[j].enabled)
    BY <1>4 DEF TurnoutsConfigWritten, Disable
  <2>2. ASSUME NEW j \in Servos
        PROVE  Flags(ServoDisable(servo[j])) /\ ~Busy(ServoDisable(servo[j]))
               /\ ~ServoDisable(servo[j]).active
    BY DisabledIsIdle
  <2>3. UNCHANGED <<closed, timer, up, heard>> /\ servo' = [j \in Servos |-> servo'[j]]
        /\ known' = [j \in Servos |-> known[j] /\ cfg'[j].enabled]
    BY <1>4 DEF TurnoutsConfigWritten
  <2>4. FlagsOK'
    BY <2>1, <2>2, <2>3 DEF Inv, FlagsOK
  <2>5. BusyIsTicked'
    BY <2>1, <2>2, <2>3 DEF Inv, BusyIsTicked, ServoBusy
  <2>6. DisabledIsOff'
    BY <2>1, <2>2 DEF DisabledIsOff
  <2>7. ASSUME NEW j \in Servos, known'[j] PROVE known[j] /\ servo'[j] = servo[j]
    BY <2>1, <2>7
  <2>8. AtTarget'
    BY <2>7 DEF Inv, AtTarget
  <2>9. Heard'
    BY <2>3, <2>7 DEF Inv, Heard
  <2> QED
    BY <2>4, <2>5, <2>6, <2>8, <2>9 DEF Inv
<1>5. ASSUME MotionTick PROVE Inv'
  <2>1. /\ servo' = [i \in Servos |-> ServoTick(servo[i])]
        /\ heard' = [i \in Servos |-> IF up /\ Arrives(servo[i]) THEN Name(closed[i]) ELSE heard[i]]
        /\ timer' = (timer /\ TicksOn(servo'))
        /\ UNCHANGED <<cfg, closed, known, up>>
    BY <1>5 DEF MotionTick
  <2>2. ASSUME NEW i \in Servos
        PROVE  /\ Flags(ServoTick(servo[i]))
               /\ Busy(ServoTick(servo[i])) => Busy(servo[i])
               /\ ~Busy(servo[i]) => ServoTick(servo[i]) = servo[i]
    BY TickFacts DEF Inv, FlagsOK
  <2>3. FlagsOK'
    BY <2>1, <2>2 DEF Inv, FlagsOK
  <2>4. BusyIsTicked'
    BY <2>1, <2>2 DEF Inv, BusyIsTicked, ServoBusy, TicksOn
  <2>5. DisabledIsOff'
    BY <2>1, <2>2 DEF Inv, DisabledIsOff
  <2>6. ASSUME NEW i \in Servos, known[i], ~servo'[i].moving
        PROVE  servo'[i].current = servo'[i].target /\ (up => heard'[i] = Name(closed[i]))
    <3>1. \/ Arrives(servo[i]) /\ ServoTick(servo[i]).current = ServoTick(servo[i]).target
          \/ /\ ~servo[i].moving /\ ~Arrives(servo[i])
             /\ ServoTick(servo[i]).current = servo[i].current
             /\ ServoTick(servo[i]).target = servo[i].target
      BY <2>1, <2>6, TickEnds DEF Inv, FlagsOK
    <3> QED
      BY <3>1, <2>1, <2>6 DEF Inv, AtTarget, Heard
  <2>7. AtTarget' /\ Heard'
    BY <2>1, <2>6 DEF AtTarget, Heard
  <2> QED
    BY <2>3, <2>4, <2>5, <2>7 DEF Inv
<1>6. CASE NodeUp
  <2>1. up' = TRUE /\ heard' = [i \in Servos |-> Identified(i)]
        /\ UNCHANGED <<cfg, servo, closed, known, timer>>
    BY <1>6 DEF NodeUp, Announce
  <2>2. Heard'
    BY <2>1 DEF Heard, Identified
  <2> QED
    BY <2>1, <2>2 DEF Inv, FlagsOK, BusyIsTicked, DisabledIsOff, AtTarget
<1>7. CASE AliasLost
  BY <1>7 DEF AliasLost, Inv, FlagsOK, BusyIsTicked, DisabledIsOff, AtTarget, Heard
<1>8. CASE MotionTimer
  BY <1>8 DEF MotionTimer, Inv, FlagsOK, BusyIsTicked, DisabledIsOff, AtTarget, Heard
<1>9. CASE UNCHANGED vars
  BY <1>9 DEF vars, Inv, FlagsOK, BusyIsTicked, DisabledIsOff, AtTarget, Heard
<1> QED
  BY <1>1, <1>2, <1>3, <1>4, <1>5, <1>6, <1>7, <1>8, <1>9 DEF Next

-----------------------------------------------------------------------------
(* Types *)

\* What a servo has while it moves and holds: a signal, and time left
Sound(s) ==
  /\ ~(s.moving /\ s.holding)
  /\ Busy(s) => s.active
  /\ s.holding => s.hold_ticks > 0

LEMMA StepTyped ==
  ASSUME NEW distance \in Nat, NEW time \in Nat, time # 0
  PROVE  Step(distance, time) \in Nat
<1> DEFINE ticks_ == time * TicksPerTenth
<1>1. ticks_ \in Nat \ {0}
  BY ServoAssumption
<1> HIDE DEF ticks_
<1>2. ASSUME NEW t, t = distance \div ticks_ PROVE t \in Nat
  BY <1>1, <1>2
<1> QED
  BY <1>2 DEF Step, ticks_

\* A servo set to a target has its types and is sound.
LEMMA SetTargetTyped ==
  ASSUME NEW s \in ServoType, NEW target \in Positions, NEW time \in Nat, NEW hold \in Nat,
         NEW frog \in Outputs \cup {0}, NEW mid \in Nat
  PROVE  LET t == ServoSetTarget(s, target, time, hold, frog, mid) IN t \in ServoType /\ Sound(t)
<1> DEFINE ticks_ == hold * TicksPerSecond
           step_ == Step(Distance(s.current, target), time)
<1>1. ticks_ \in Nat
  BY ServoAssumption
<1>2. target \in Nat /\ s.current \in Nat
  BY TurnoutsAssumption DEF ServoType
<1>3. Distance(s.current, target) \in Nat
  BY <1>2 DEF Distance
<1>4. time # 0 => step_ \in Nat
  BY <1>3, StepTyped
<1> HIDE DEF ticks_, step_
<1>5. ASSUME NEW t, t = Servo(target, target, 0, ticks_, mid, frog, FALSE, Holds(ticks_), TRUE)
      PROVE  t \in ServoType /\ Sound(t)
  <2>1. ASSUME NEW h \in BOOLEAN, t = Servo(target, target, 0, ticks_, mid, frog, FALSE, h, TRUE)
        PROVE  t \in ServoType
    BY <1>1, <1>2, <2>1 DEF Servo, ServoType
  <2>2. t \in ServoType
    <3>1. Holds(ticks_) \in BOOLEAN
      BY DEF Holds
    <3> QED
      BY <1>5, <2>1, <3>1
  <2>3. Sound(t)
    BY <1>5 DEF Servo, Sound, Busy, Holds
  <2> QED
    BY <2>2, <2>3
<1>6. ASSUME NEW t, time # 0, t = Servo(s.current, target, step_, ticks_, mid, frog, TRUE, FALSE, TRUE)
      PROVE  t \in ServoType /\ Sound(t)
  BY <1>1, <1>2, <1>4, <1>6 DEF Servo, ServoType, Sound, Busy
<1> QED
  BY <1>5, <1>6 DEF ServoSetTarget, Instant, ticks_, step_

LEMMA DisableTyped ==
  ASSUME NEW s \in ServoType
  PROVE  ServoDisable(s) \in ServoType /\ Sound(ServoDisable(s))
  BY DEF ServoDisable, Servo, ServoType, Sound, Busy

LEMMA TickTyped ==
  ASSUME NEW s \in ServoType, Sound(s)
  PROVE  ServoTick(s) \in ServoType /\ Sound(ServoTick(s))
<1>1. s.target \in Nat /\ s.current \in Nat /\ s.step \in Nat /\ s.hold_ticks \in Nat
  <2>1. s.target \in Positions \cup {0}
    BY DEF ServoType
  <2>2. s.current \in Nat /\ s.step \in Nat /\ s.hold_ticks \in Nat
    BY DEF ServoType
  <2>3. Positions \subseteq Nat
    BY TurnoutsAssumption
  <2>4. s.target \in Nat
    <3>1. ASSUME NEW t \in Positions \cup {0} PROVE t \in Nat
      BY <2>3
    <3> QED
      BY <2>1, <3>1
  <2> QED
    BY <2>2, <2>4
<1>2. Advance(s) \in Nat
  BY <1>1 DEF Advance, Distance
<1>3. CASE s.holding
  <2>1. ASSUME NEW t,
               t = Servo(s.current, s.target, s.step, s.hold_ticks - 1, s.midpoint, s.frog_pin,
                         s.moving, s.hold_ticks > 1, s.active /\ s.hold_ticks > 1)
        PROVE  t \in ServoType /\ Sound(t)
    BY <1>1, <1>3, <2>1 DEF Servo, ServoType, Sound, Busy
  <2> QED
    BY <1>3, <2>1 DEF ServoTick
<1>4. CASE ~s.holding /\ s.moving
  <2>1. Arrives(s) \in BOOLEAN /\ (Arrives(s) /\ Holds(s.hold_ticks)) \in BOOLEAN
    BY DEF Arrives
  <2>2. ASSUME NEW t,
               t = Servo(Advance(s), s.target, s.step, s.hold_ticks, s.midpoint, s.frog_pin,
                         ~Arrives(s), Arrives(s) /\ Holds(s.hold_ticks), s.active)
        PROVE  t \in ServoType /\ Sound(t)
    BY <1>1, <1>2, <1>4, <2>1, <2>2 DEF Servo, ServoType, Sound, Busy, Holds
  <2> QED
    BY <1>4, <2>2 DEF ServoTick
<1>5. CASE ~s.holding /\ ~s.moving
  BY <1>5 DEF ServoTick
<1> QED
  BY <1>3, <1>4, <1>5

\* The outputs stay Booleans whatever sets them.
LEMMA Last ==
  ASSUME NEW mine \in SUBSET Servos, mine # {}
  PROVE  \E i \in mine : \A j \in mine : j <= i
<1> DEFINE Below == {N - i : i \in mine}
           Less == OpToRel(<, Nat)
<1>1. mine \subseteq Nat /\ \A i \in mine : i <= N
  BY TurnoutsAssumption DEF Servos
<1>2. Below \subseteq Nat /\ Below # {}
  <2>1. ASSUME NEW i \in mine PROVE N - i \in Nat
    BY <1>1, TurnoutsAssumption
  <2> QED
    BY <2>1
<1>3. PICK x \in Below : \A y \in Below : <<y, x>> \notin Less
  BY <1>2, NatLessThanWellFounded, WFMin
<1>4. PICK i \in mine : x = N - i
  BY <1>3
<1>5. ASSUME NEW j \in mine PROVE j <= i
  <2>1. N - j \in Nat /\ x \in Nat /\ ~(N - j < x)
    BY <1>2, <1>3 DEF OpToRel
  <2> QED
    BY <2>1, <1>1, <1>4, TurnoutsAssumption
<1> QED
  BY <1>4, <1>5

LEMMA FrogsTyped ==
  ASSUME NEW set \in SUBSET Servos, NEW old \in [Outputs -> BOOLEAN], NEW pin,
         NEW side, \A i \in Servos : side[i] \in BOOLEAN
  PROVE  FrogsSet(set, old, pin, side) \in [Outputs -> BOOLEAN]
<1>1. ASSUME NEW mine \in SUBSET Servos, mine # {}
      PROVE  side[CHOOSE i \in mine : \A j \in mine : j <= i] \in BOOLEAN
  BY <1>1, Last
<1>2. ASSUME NEW p \in Outputs PROVE old[p] \in BOOLEAN
  OBVIOUS
<1>3. ASSUME NEW p \in Outputs PROVE {i \in set : pin[i] = p} \in SUBSET Servos
  OBVIOUS
<1> QED
  BY <1>1, <1>2, <1>3 DEF FrogsSet

LEMMA CommandedTyped ==
  ASSUME NEW s \in ServoType, NEW c \in ConfigType, NEW close \in BOOLEAN, NEW time \in Nat
  PROVE  Commanded(s, c, close, time) \in ServoType /\ Sound(Commanded(s, c, close, time))
<1>1. Destination(c, close) \in Positions /\ c.hold_time \in Nat /\ c.frog_output \in Outputs \cup {0}
  BY DEF Destination, ConfigType
<1>2. Midpoint(c) \in Nat
  <2>1. c.thrown_position \in Positions /\ c.closed_position \in Positions
    BY DEF ConfigType
  <2>2. Positions \subseteq Nat
    BY TurnoutsAssumption
  <2>3. ASSUME NEW a \in Nat, NEW b \in Nat PROVE (a + b) \div 2 \in Nat
    OBVIOUS
  <2> QED
    BY <2>1, <2>2, <2>3 DEF Midpoint
<1> QED
  BY <1>1, <1>2, SetTargetTyped DEF Commanded

\* The part of the types that moves
ServosOK ==
  /\ servo \in [Servos -> ServoType]
  /\ \A i \in Servos : Sound(servo[i])
  /\ closed \in [Servos -> BOOLEAN] /\ known \in [Servos -> BOOLEAN]
  /\ gpio \in [Outputs -> BOOLEAN] /\ timer \in BOOLEAN
  /\ heard \in [Servos -> {"thrown", "closed", "unknown"}]

\* The rest of them
TaskOK ==
  /\ cfg \in [Servos -> Configs]
  /\ up \in BOOLEAN /\ ticks \in 0..MaxTicks /\ disturbed \subseteq Servos

LEMMA TypesSplit == TypeOK <=> ServosOK /\ TaskOK
  BY DEF TypeOK, ServosOK, TaskOK, Sound

LEMMA TypesSplitAfter == TypeOK' <=> ServosOK' /\ TaskOK'
  BY DEF TypeOK, ServosOK, TaskOK, Sound

LEMMA Configured ==
  ASSUME TaskOK, NEW i \in Servos
  PROVE  cfg[i] \in ConfigType
  BY TurnoutsAssumption DEF TaskOK

LEMMA MoveTyped ==
  ASSUME ServosOK, TaskOK, NEW set \in SUBSET Servos, NEW close,
         \A i \in Servos : close[i] \in BOOLEAN, Move(set, close)
  PROVE  ServosOK'
<1>1. ASSUME NEW i \in Servos
      PROVE  LET t == Commanded(servo[i], cfg[i], close[i], cfg[i].throw_time) IN
             t \in ServoType /\ Sound(t)
  <2>1. cfg[i] \in ConfigType /\ cfg[i].throw_time \in Nat
    BY Configured DEF ConfigType
  <2> QED
    BY <2>1, CommandedTyped DEF ServosOK
<1>2. servo' \in [Servos -> ServoType] /\ \A i \in Servos : Sound(servo'[i])
  BY <1>1 DEF Move, ServosOK
<1>3. closed' \in [Servos -> BOOLEAN] /\ known' \in [Servos -> BOOLEAN]
  BY DEF Move, ServosOK
<1>4. gpio' \in [Outputs -> BOOLEAN]
  <2> DEFINE turned == {i \in set : ~servo'[i].moving}
             pin == [i \in Servos |-> cfg[i].frog_output]
             side == [i \in Servos |-> Side(servo'[i].target, Midpoint(cfg[i]))]
  <2>1. gpio' = FrogsSet(turned, gpio, pin, side)
    BY DEF Move
  <2>2. turned \in SUBSET Servos /\ \A i \in Servos : side[i] \in BOOLEAN
    BY DEF Side
  <2> HIDE DEF turned, pin, side
  <2> QED
    BY <2>1, <2>2, FrogsTyped DEF ServosOK
<1>5. timer' \in BOOLEAN /\ heard' \in [Servos -> {"thrown", "closed", "unknown"}]
  BY DEF Move, ServosOK, ServoBusy, Name
<1> QED
  BY <1>2, <1>3, <1>4, <1>5 DEF ServosOK

LEMMA TypesInit == Init => TypeOK
<1> SUFFICES ASSUME Init PROVE ServosOK /\ TaskOK
  BY TypesSplit
<1>1. TaskOK
  <2>1. MaxTicks \in Nat /\ InitConfig \in [Servos -> Configs]
    BY TurnoutsAssumption
  <2>2. cfg = InitConfig /\ ticks = 0 /\ up \in BOOLEAN /\ disturbed = {}
    BY DEF Init
  <2> QED
    BY <2>1, <2>2 DEF TaskOK
<1>2. ASSUME NEW i \in Servos
      PROVE  StartMoves(i) \in BOOLEAN /\ closed[i] \in BOOLEAN
  <2>1. cfg[i] \in ConfigType
    BY <1>1, Configured
  <2> QED
    BY <2>1 DEF Init, StartMoves, ConfigType
<1>3. closed \in [Servos -> BOOLEAN] /\ known \in [Servos -> BOOLEAN]
  BY <1>2 DEF Init
<1>4. ServoInit \in ServoType /\ Sound(ServoInit)
  BY DEF ServoInit, Servo, ServoType, Sound, Busy
<1>5. ASSUME NEW i \in Servos
      PROVE  LET t == Commanded(ServoInit, cfg[i], closed[i], 0) IN t \in ServoType /\ Sound(t)
  BY <1>1, <1>2, <1>4, Configured, CommandedTyped
<1>6. servo \in [Servos -> ServoType] /\ \A i \in Servos : Sound(servo[i])
  BY <1>4, <1>5 DEF Init
<1>7. gpio \in [Outputs -> BOOLEAN]
  <2> DEFINE off == [p \in Outputs |-> FALSE]
             turned == {i \in Servos : StartMoves(i)}
             pin == [i \in Servos |-> cfg[i].frog_output]
             side == [i \in Servos |-> Side(servo[i].target, Midpoint(cfg[i]))]
  <2>1. gpio = FrogsSet(turned, off, pin, side)
    BY DEF Init
  <2>2. turned \in SUBSET Servos /\ off \in [Outputs -> BOOLEAN] /\ \A i \in Servos : side[i] \in BOOLEAN
    BY DEF Side
  <2> HIDE DEF off, turned, pin, side
  <2> QED
    BY <2>1, <2>2, FrogsTyped
<1>8. timer \in BOOLEAN /\ heard \in [Servos -> {"thrown", "closed", "unknown"}]
  BY DEF Init, ServoBusy
<1> QED
  BY <1>1, <1>3, <1>6, <1>7, <1>8 DEF ServosOK

LEMMA TypesStep == TypeOK /\ [Next]_vars => TypeOK'
<1> SUFFICES ASSUME ServosOK, TaskOK, [Next]_vars PROVE ServosOK' /\ TaskOK'
  BY TypesSplit, TypesSplitAfter
<1>1. ASSUME NEW i \in Servos, NEW close \in BOOLEAN, OnThrowClose(i, close)
      PROVE  ServosOK' /\ TaskOK'
  <2> DEFINE want == [j \in Servos |-> close]
  <2>1. Move({i}, want) /\ \A j \in Servos : want[j] \in BOOLEAN
    BY <1>1 DEF OnThrowClose
  <2> HIDE DEF want
  <2> QED
    BY <1>1, <2>1, MoveTyped DEF OnThrowClose, TaskOK
<1>2. ASSUME NEW i \in Servos, OnCenter(i) PROVE ServosOK' /\ TaskOK'
  <2> DEFINE t == ServoSetTarget(servo[i], cfg[i].center_position, 0, 0, 0, 0)
  <2>1. t \in ServoType /\ Sound(t)
    BY Configured, SetTargetTyped DEF ServosOK, ConfigType
  <2> HIDE DEF t
  <2>2. servo' = [servo EXCEPT ![i] = t]
    BY <1>2 DEF OnCenter, t
  <2>3. servo' \in [Servos -> ServoType] /\ \A j \in Servos : Sound(servo'[j])
    BY <2>1, <2>2 DEF ServosOK
  <2> QED
    BY <1>2, <2>3 DEF OnCenter, ServosOK, TaskOK
<1>3. ASSUME NEW i \in Servos, NEW c \in Configs, TurnoutsConfigWritten(i, c)
      PROVE  ServosOK' /\ TaskOK'
  <2>1. TaskOK'
    BY <1>3 DEF TurnoutsConfigWritten, Sharing, TaskOK
  <2>2. ASSUME NEW j \in Servos PROVE cfg'[j].enabled \in BOOLEAN
    BY <2>1, TurnoutsAssumption DEF TaskOK, ConfigType
  <2>3. servo' \in [Servos -> ServoType] /\ \A j \in Servos : Sound(servo'[j])
    BY <1>3, DisableTyped DEF TurnoutsConfigWritten, Disable, ServosOK
  <2>4. known' \in [Servos -> BOOLEAN]
    BY <1>3, <2>2 DEF TurnoutsConfigWritten, ServosOK
  <2> QED
    BY <1>3, <2>1, <2>3, <2>4 DEF TurnoutsConfigWritten, ServosOK
<1>4. ASSUME NEW input, TurnoutsInputPressed(input) PROVE ServosOK' /\ TaskOK'
  <2> DEFINE set == {i \in Servos : cfg[i].enabled /\ cfg[i].fascia_input = input}
             want == [i \in Servos |-> ~closed[i]]
  <2>1. Move(set, want) /\ set \in SUBSET Servos /\ \A j \in Servos : want[j] \in BOOLEAN
    BY <1>4 DEF TurnoutsInputPressed
  <2> HIDE DEF set, want
  <2> QED
    BY <1>4, <2>1, MoveTyped DEF TurnoutsInputPressed, TaskOK
<1>5. CASE MotionTimer
  BY <1>5, TurnoutsAssumption DEF MotionTimer, ServosOK, TaskOK
<1>6. CASE MotionTick
  <2>1. servo' \in [Servos -> ServoType] /\ \A j \in Servos : Sound(servo'[j])
    BY <1>6, TickTyped DEF MotionTick, ServosOK
  <2>2. gpio' \in [Outputs -> BOOLEAN]
    <3> DEFINE turned == {i \in Servos : SwitchesFrog(servo[i], servo[i].frog_pin)}
               pin == [i \in Servos |-> servo[i].frog_pin]
               side == [i \in Servos |-> Side(servo'[i].current, servo[i].midpoint)]
    <3>1. gpio' = FrogsSet(turned, gpio, pin, side)
      BY <1>6 DEF MotionTick
    <3>2. turned \in SUBSET Servos /\ \A i \in Servos : side[i] \in BOOLEAN
      BY DEF Side
    <3> HIDE DEF turned, pin, side
    <3> QED
      BY <3>1, <3>2, FrogsTyped DEF ServosOK
  <2>3. timer' \in BOOLEAN /\ heard' \in [Servos -> {"thrown", "closed", "unknown"}]
    BY <1>6 DEF MotionTick, ServosOK, TicksOn, ServoBusy, Name
  <2>4. TaskOK'
    BY <1>6, TurnoutsAssumption DEF MotionTick, TaskOK
  <2> QED
    BY <1>6, <2>1, <2>2, <2>3, <2>4 DEF MotionTick, ServosOK
<1>7. CASE NodeUp
  BY <1>7 DEF NodeUp, Announce, Identified, Name, ServosOK, TaskOK
<1>8. CASE AliasLost
  BY <1>8 DEF AliasLost, ServosOK, TaskOK
<1>9. CASE UNCHANGED vars
  BY <1>9 DEF vars, ServosOK, TaskOK
<1> QED
  BY <1>1, <1>2, <1>3, <1>4, <1>5, <1>6, <1>7, <1>8, <1>9 DEF Next

-----------------------------------------------------------------------------
(* Frogs *)

\* No other servo is configured to switch the frog of servo i, which is away from the
\* very bottom of the range
OwnsFrog(i) ==
  /\ Midpoint(cfg[i]) > 0
  /\ cfg[i].frog_output # 0 => \A j \in Servos \ {i} : cfg[j].frog_output # cfg[i].frog_output

\* Nor has another servo still to do so from an earlier configuration
NobodyElse(i) ==
  cfg[i].frog_output # 0 => \A j \in Servos \ {i} : servo[j].frog_pin # cfg[i].frog_output

\* A servo in a known state switches its own frog; one that was never commanded has
\* stayed where it was, with the output off.
OwnFrog(i) ==
  IF known[i]
  THEN servo[i].frog_pin = cfg[i].frog_output /\ servo[i].midpoint = Midpoint(cfg[i]) /\ FrogRight(i)
  ELSE /\ servo[i].frog_pin = 0 /\ servo[i].current = 0 /\ ~servo[i].moving
       /\ cfg[i].frog_output # 0 => ~gpio[cfg[i].frog_output]

FrogInv == \A i \in Servos \ disturbed : OwnsFrog(i) => NobodyElse(i) /\ OwnFrog(i)

\* An output that only servo i sets, or none
LEMMA FrogAlone ==
  ASSUME NEW i \in Servos, NEW p \in Outputs, NEW set, NEW old, NEW pin, NEW side,
         \A j \in set : pin[j] = p => j = i
  PROVE  /\ i \in set /\ pin[i] = p => FrogsSet(set, old, pin, side)[p] = side[i]
         /\ ~(i \in set /\ pin[i] = p) => FrogsSet(set, old, pin, side)[p] = old[p]
<1>. DEFINE mine == {j \in set : pin[j] = p}
<1>1. FrogsSet(set, old, pin, side)[p] =
        IF mine = {} THEN old[p] ELSE side[CHOOSE k \in mine : \A j \in mine : j <= k]
  BY DEF FrogsSet
<1>2. CASE i \in set /\ pin[i] = p
  <2>1. mine = {i}
    BY <1>2
  <2>2. i <= i
    BY TurnoutsAssumption DEF Servos
  <2>3. (CHOOSE k \in {i} : \A j \in {i} : j <= k) = i
    BY <2>2
  <2>. HIDE DEF mine
  <2>. QED
    BY <1>1, <1>2, <2>1, <2>3
<1>3. CASE ~(i \in set /\ pin[i] = p)
  <2>1. mine = {}
    BY <1>3
  <2>. QED
    BY <1>1, <1>3, <2>1
<1>. QED
  BY <1>2, <1>3

\* What a command does to a servo's frog
LEMMA CommandedFrog ==
  ASSUME NEW s, NEW c, NEW close, NEW time
  PROVE  LET t == Commanded(s, c, close, time) IN
         /\ t.frog_pin = c.frog_output /\ t.midpoint = Midpoint(c)
         /\ t.moving => t.current = s.current
         /\ ~t.moving => t.current = t.target
         /\ time = 0 => ~t.moving
  BY DEF Commanded, ServoSetTarget, Servo, Instant

\* A tick of a servo that does not switch its frog leaves it on its side
LEMMA TickFrog ==
  ASSUME NEW s, Flags(s)
  PROVE  LET t == ServoTick(s) IN
         /\ t.frog_pin = s.frog_pin /\ t.midpoint = s.midpoint
         /\ ~SwitchesFrog(s, s.frog_pin) => Side(t.current, s.midpoint) = Side(s.current, s.midpoint)
         /\ ~s.moving => t.current = s.current /\ ~t.moving
  BY DEF ServoTick, Servo, SwitchesFrog, Crosses, Flags

LEMMA DisabledFrog ==
  ASSUME NEW s
  PROVE  LET t == ServoDisable(s) IN
         t.frog_pin = s.frog_pin /\ t.midpoint = s.midpoint /\ t.current = s.current /\ ~t.moving
  BY DEF ServoDisable, Servo

LEMMA FrogInit == Init => FrogInv
<1> SUFFICES ASSUME Init, NEW i \in Servos, OwnsFrog(i) PROVE NobodyElse(i) /\ OwnFrog(i)
  BY DEF FrogInv
<1>. DEFINE Cmd(j) == Commanded(ServoInit, cfg[j], closed[j], 0)
            off == [p \in Outputs |-> FALSE]
            turned == {j \in Servos : StartMoves(j)}
            pin == [j \in Servos |-> cfg[j].frog_output]
            side == [j \in Servos |-> Side(servo[j].target, Midpoint(cfg[j]))]
<1>1. /\ gpio = FrogsSet(turned, off, pin, side)
      /\ known[i] <=> StartMoves(i)
      /\ \A j \in Servos : servo[j] = IF StartMoves(j) THEN Cmd(j) ELSE ServoInit
  BY DEF Init
<1>2. \A j \in Servos :
        /\ Cmd(j).frog_pin = cfg[j].frog_output /\ Cmd(j).midpoint = Midpoint(cfg[j])
        /\ ~Cmd(j).moving /\ Cmd(j).current = Cmd(j).target
  BY CommandedFrog
<1>3. ServoInit.frog_pin = 0 /\ ServoInit.current = 0 /\ ~ServoInit.moving
  BY DEF ServoInit, Servo
<1>. HIDE DEF Cmd
<1>4. NobodyElse(i)
  BY <1>1, <1>2, <1>3 DEF NobodyElse, OwnsFrog
<1>5. cfg[i].frog_output \in Outputs \cup {0}
  BY TypesInit, Configured, TypesSplit DEF ConfigType
<1>6. ASSUME cfg[i].frog_output # 0
      PROVE  gpio[cfg[i].frog_output] = IF StartMoves(i) THEN side[i] ELSE FALSE
  <2>1. \A j \in turned : pin[j] = cfg[i].frog_output => j = i
    BY <1>6 DEF OwnsFrog
  <2>2. off[cfg[i].frog_output] = FALSE
    BY <1>5, <1>6
  <2>3. i \in turned <=> StartMoves(i)
    OBVIOUS
  <2>4. pin[i] = cfg[i].frog_output
    OBVIOUS
  <2>5. turned \in SUBSET Servos /\ cfg[i].frog_output \in Outputs
    BY <1>5, <1>6
  <2>. HIDE DEF off, turned, pin, side
  <2>. DEFINE p == cfg[i].frog_output
  <2>6. \A j \in turned : pin[j] = p => j = i
    BY <2>1
  <2>7. p \in Outputs /\ pin[i] = p /\ gpio = FrogsSet(turned, off, pin, side)
    BY <1>1, <2>4, <2>5
  <2>. HIDE DEF p
  <2>8. /\ i \in turned => gpio[p] = side[i]
        /\ i \notin turned => gpio[p] = off[p]
    BY <2>5, <2>6, <2>7, FrogAlone
  <2>. QED
    BY <2>2, <2>3, <2>8 DEF p
<1>7. CASE StartMoves(i)
  <2>1. /\ servo[i].frog_pin = cfg[i].frog_output /\ servo[i].midpoint = Midpoint(cfg[i])
        /\ servo[i].current = servo[i].target
    BY <1>1, <1>2, <1>7
  <2>2. cfg[i].frog_output # 0 => gpio[cfg[i].frog_output] = Side(servo[i].target, Midpoint(cfg[i]))
    BY <1>6, <1>7
  <2>. QED
    BY <1>1, <1>4, <1>7, <2>1, <2>2 DEF OwnFrog, FrogRight
<1>8. CASE ~StartMoves(i)
  BY <1>1, <1>3, <1>4, <1>6, <1>8 DEF OwnFrog
<1>. QED
  BY <1>7, <1>8

LEMMA FrogMove ==
  ASSUME TypeOK, FrogInv, NEW set \in SUBSET Servos, NEW close, Move(set, close),
         UNCHANGED <<cfg, disturbed>>
  PROVE  FrogInv'
<1>. SUFFICES ASSUME NEW i \in Servos \ disturbed, OwnsFrog(i)
              PROVE  NobodyElse(i)' /\ OwnFrog(i)'
  BY DEF FrogInv, OwnsFrog
<1>. DEFINE Cmd(j) == Commanded(servo[j], cfg[j], close[j], cfg[j].throw_time)
            turned == {j \in set : ~servo'[j].moving}
            pin == [j \in Servos |-> cfg[j].frog_output]
            side == [j \in Servos |-> Side(servo'[j].target, Midpoint(cfg[j]))]
            p == cfg[i].frog_output
<1>1. /\ gpio' = FrogsSet(turned, gpio, pin, side)
      /\ known'[i] <=> i \in set \/ known[i]
      /\ \A j \in Servos : servo'[j] = IF j \in set THEN Cmd(j) ELSE servo[j]
  BY DEF Move
<1>2. \A j \in Servos :
        /\ Cmd(j).frog_pin = cfg[j].frog_output /\ Cmd(j).midpoint = Midpoint(cfg[j])
        /\ Cmd(j).moving => Cmd(j).current = servo[j].current
        /\ ~Cmd(j).moving => Cmd(j).current = Cmd(j).target
  BY CommandedFrog
<1>3. NobodyElse(i) /\ OwnFrog(i)
  BY DEF FrogInv
<1>4. cfg[i] \in Configs /\ p \in Outputs \cup {0}
  BY Configured, TypesSplit DEF TaskOK, ConfigType
<1>5. Midpoint(cfg[i]) \in Int /\ Midpoint(cfg[i]) > 0
  <2>1. cfg[i].thrown_position \in Nat /\ cfg[i].closed_position \in Nat
    BY <1>4, TurnoutsAssumption DEF ConfigType
  <2>. QED
    BY <1>4, <2>1 DEF OwnsFrog, Midpoint
<1>6. \A j \in turned : pin[j] = p /\ p # 0 => j = i
  BY DEF OwnsFrog
<1>7. i \in turned <=> i \in set /\ ~servo'[i].moving
  OBVIOUS
<1>8. pin[i] = p /\ side[i] = Side(servo'[i].target, Midpoint(cfg[i]))
  OBVIOUS
<1>9. NobodyElse(i)'
  BY <1>1, <1>2, <1>3 DEF NobodyElse, OwnsFrog
<1>. HIDE DEF Cmd, turned, pin, side, p
<1>10. p # 0 => gpio'[p] = IF i \in turned THEN side[i] ELSE gpio[p]
  <2>. SUFFICES ASSUME p # 0 PROVE gpio'[p] = IF i \in turned THEN side[i] ELSE gpio[p]
    OBVIOUS
  <2>1. p \in Outputs /\ pin[i] = p /\ gpio' = FrogsSet(turned, gpio, pin, side)
    BY <1>1, <1>4, <1>8
  <2>2. \A j \in turned : pin[j] = p => j = i
    BY <1>6
  <2>3. /\ i \in turned => gpio'[p] = side[i]
        /\ i \notin turned => gpio'[p] = gpio[p]
    BY <2>1, <2>2, FrogAlone
  <2>. QED
    BY <2>3
<1>11. CASE i \notin set
  <2>1. servo'[i] = servo[i] /\ known'[i] = known[i] /\ (p # 0 => gpio'[p] = gpio[p])
    BY <1>1, <1>7, <1>10, <1>11, TypesSplit, TypesSplitAfter DEF Move, ServosOK
  <2>. QED
    BY <1>3, <1>9, <2>1 DEF OwnFrog, FrogRight, p
<1>12. CASE i \in set /\ ~servo'[i].moving
  <2>1. /\ known'[i] /\ servo'[i].frog_pin = p /\ servo'[i].midpoint = Midpoint(cfg[i])
        /\ servo'[i].current = servo'[i].target
    BY <1>1, <1>2, <1>12 DEF p
  <2>2. p # 0 => gpio'[p] = Side(servo'[i].target, Midpoint(cfg[i]))
    BY <1>7, <1>8, <1>10, <1>12
  <2>. QED
    BY <1>9, <2>1, <2>2 DEF OwnFrog, FrogRight, p
<1>13. CASE i \in set /\ servo'[i].moving
  <2>1. /\ known'[i] /\ servo'[i].frog_pin = p /\ servo'[i].midpoint = Midpoint(cfg[i])
        /\ servo'[i].current = servo[i].current
    BY <1>1, <1>2, <1>13 DEF p
  <2>2. p # 0 => gpio'[p] = gpio[p]
    BY <1>7, <1>10, <1>13
  <2>3. p # 0 => gpio[p] = Side(servo[i].current, Midpoint(cfg[i]))
    <3>1. CASE known[i]
      BY <1>3, <3>1 DEF OwnFrog, FrogRight, p
    <3>2. CASE ~known[i]
      <4>1. servo[i].current = 0 /\ (p # 0 => ~gpio[p])
        BY <1>3, <3>2 DEF OwnFrog, p
      <4>2. p # 0 => gpio[p] = FALSE
        BY <1>4, <4>1, TypesSplit DEF ServosOK
      <4>3. Side(servo[i].current, Midpoint(cfg[i])) = FALSE
        BY <1>5, <4>1 DEF Side
      <4>. QED
        BY <4>2, <4>3
    <3>. QED
      BY <3>1, <3>2
  <2>. QED
    BY <1>9, <2>1, <2>2, <2>3 DEF OwnFrog, FrogRight, p
<1>. QED
  BY <1>9, <1>11, <1>12, <1>13

LEMMA FrogCenter ==
  ASSUME TypeOK, FrogInv, NEW c \in Servos, OnCenter(c)
  PROVE  FrogInv'
<1>. SUFFICES ASSUME NEW i \in Servos \ disturbed', OwnsFrog(i)'
              PROVE  NobodyElse(i)' /\ OwnFrog(i)'
  BY DEF FrogInv
<1>. DEFINE t == ServoSetTarget(servo[c], cfg[c].center_position, 0, 0, 0, 0)
<1>1. /\ servo' = [servo EXCEPT ![c] = t] /\ known' = [known EXCEPT ![c] = FALSE]
      /\ disturbed' = disturbed \cup {c} /\ UNCHANGED <<cfg, gpio>>
  BY DEF OnCenter
<1>2. t.frog_pin = 0
  BY DEF ServoSetTarget, Servo
<1>. HIDE DEF t
<1>3. i # c /\ i \in Servos \ disturbed /\ OwnsFrog(i)
  BY <1>1 DEF OwnsFrog
<1>4. NobodyElse(i) /\ OwnFrog(i)
  BY <1>3 DEF FrogInv
<1>5. /\ servo'[i] = servo[i] /\ known'[i] = known[i]
      /\ \A j \in Servos : servo'[j] = IF j = c THEN t ELSE servo[j]
  BY <1>1, <1>3, TypesSplit DEF ServosOK
<1>6. NobodyElse(i)'
  BY <1>1, <1>2, <1>4, <1>5 DEF NobodyElse
<1>7. OwnFrog(i)'
  BY <1>1, <1>4, <1>5 DEF OwnFrog, FrogRight
<1>. QED
  BY <1>6, <1>7

LEMMA FrogWritten ==
  ASSUME TypeOK, Inv, FrogInv, NEW w \in Servos, NEW c \in Configs, TurnoutsConfigWritten(w, c)
  PROVE  FrogInv'
<1>. SUFFICES ASSUME NEW i \in Servos \ disturbed', OwnsFrog(i)'
              PROVE  NobodyElse(i)' /\ OwnFrog(i)'
  BY DEF FrogInv
<1>1. /\ cfg' = [cfg EXCEPT ![w] = c] /\ UNCHANGED gpio
      /\ disturbed' = disturbed \cup {w} \cup Sharing(cfg[w]) \cup Sharing(c)
      /\ \A j \in Servos :
           /\ servo'[j] = IF cfg'[j].enabled THEN servo[j] ELSE ServoDisable(servo[j])
           /\ known'[j] = (known[j] /\ cfg'[j].enabled)
  BY DEF TurnoutsConfigWritten, Disable
<1>2. /\ i # w /\ i \in Servos \ disturbed /\ i \notin Sharing(cfg[w]) /\ i \notin Sharing(c)
      /\ \A j \in Servos : cfg'[j] = IF j = w THEN c ELSE cfg[j]
  BY <1>1, TypesSplit DEF TaskOK
<1>3. OwnsFrog(i)
  BY <1>2 DEF OwnsFrog, Sharing
<1>4. NobodyElse(i) /\ OwnFrog(i)
  BY <1>2, <1>3 DEF FrogInv
<1>5. \A j \in Servos : servo'[j].frog_pin = servo[j].frog_pin
  BY <1>1, DisabledFrog
<1>6. NobodyElse(i)'
  BY <1>2, <1>4, <1>5 DEF NobodyElse
<1>7. known[i] => cfg[i].enabled
  BY DEF Inv, DisabledIsOff
<1>8. known'[i] <=> known[i]
  BY <1>1, <1>2, <1>7
<1>9. /\ servo'[i].midpoint = servo[i].midpoint /\ servo'[i].current = servo[i].current
      /\ ~servo[i].moving => ~servo'[i].moving
  BY <1>1, DisabledFrog
<1>10. OwnFrog(i)'
  BY <1>1, <1>2, <1>4, <1>5, <1>8, <1>9 DEF OwnFrog, FrogRight
<1>. QED
  BY <1>6, <1>10

LEMMA FrogTick ==
  ASSUME TypeOK, Inv, FrogInv, MotionTick
  PROVE  FrogInv'
<1>. SUFFICES ASSUME NEW i \in Servos \ disturbed, OwnsFrog(i)
              PROVE  NobodyElse(i)' /\ OwnFrog(i)'
  BY DEF FrogInv, OwnsFrog, MotionTick
<1>. DEFINE turned == {j \in Servos : SwitchesFrog(servo[j], servo[j].frog_pin)}
            pin == [j \in Servos |-> servo[j].frog_pin]
            side == [j \in Servos |-> Side(servo'[j].current, servo[j].midpoint)]
            p == cfg[i].frog_output
<1>1. /\ gpio' = FrogsSet(turned, gpio, pin, side) /\ UNCHANGED <<cfg, known>>
      /\ \A j \in Servos : servo'[j] = ServoTick(servo[j])
  BY DEF MotionTick
<1>2. NobodyElse(i) /\ OwnFrog(i)
  BY DEF FrogInv
<1>3. p \in Outputs \cup {0}
  BY Configured, TypesSplit DEF ConfigType
<1>4. \A j \in Servos : servo'[j].frog_pin = servo[j].frog_pin
  BY <1>1, TickFrog DEF Inv, FlagsOK
<1>5. /\ servo'[i].midpoint = servo[i].midpoint
      /\ ~SwitchesFrog(servo[i], servo[i].frog_pin) =>
           Side(servo'[i].current, servo[i].midpoint) = Side(servo[i].current, servo[i].midpoint)
      /\ ~servo[i].moving => servo'[i].current = servo[i].current /\ ~servo'[i].moving
  BY <1>1, TickFrog DEF Inv, FlagsOK
<1>6. \A j \in turned : pin[j] = p /\ p # 0 => j = i
  BY <1>2 DEF NobodyElse
<1>7. i \in turned <=> SwitchesFrog(servo[i], servo[i].frog_pin)
  OBVIOUS
<1>8. pin[i] = servo[i].frog_pin /\ side[i] = Side(servo'[i].current, servo[i].midpoint)
  OBVIOUS
<1>9. NobodyElse(i)'
  BY <1>1, <1>2, <1>4 DEF NobodyElse
<1>. HIDE DEF turned, pin, side, p
<1>10. p # 0 => gpio'[p] = IF i \in turned /\ pin[i] = p THEN side[i] ELSE gpio[p]
  <2>. SUFFICES ASSUME p # 0
                PROVE  gpio'[p] = IF i \in turned /\ pin[i] = p THEN side[i] ELSE gpio[p]
    OBVIOUS
  <2>1. p \in Outputs /\ gpio' = FrogsSet(turned, gpio, pin, side)
    BY <1>1, <1>3
  <2>2. \A j \in turned : pin[j] = p => j = i
    BY <1>6
  <2>3. /\ i \in turned /\ pin[i] = p => gpio'[p] = side[i]
        /\ ~(i \in turned /\ pin[i] = p) => gpio'[p] = gpio[p]
    BY <2>1, <2>2, FrogAlone
  <2>. QED
    BY <2>3
<1>11. CASE known[i]
  <2>1. /\ servo[i].frog_pin = p /\ servo[i].midpoint = Midpoint(cfg[i])
        /\ p # 0 => gpio[p] = Side(servo[i].current, servo[i].midpoint)
    BY <1>2, <1>11 DEF OwnFrog, FrogRight, p
  <2>2. p # 0 => gpio'[p] = Side(servo'[i].current, servo[i].midpoint)
    <3>1. CASE i \in turned
      BY <1>8, <1>10, <2>1, <3>1
    <3>2. CASE i \notin turned
      BY <1>5, <1>7, <1>10, <2>1, <3>2
    <3>. QED
      BY <3>1, <3>2
  <2>. QED
    BY <1>1, <1>4, <1>5, <1>9, <1>11, <2>1, <2>2 DEF OwnFrog, FrogRight, p
<1>12. CASE ~known[i]
  <2>1. servo[i].frog_pin = 0 /\ servo[i].current = 0 /\ ~servo[i].moving /\ (p # 0 => ~gpio[p])
    BY <1>2, <1>12 DEF OwnFrog, p
  <2>2. p # 0 => gpio'[p] = gpio[p]
    BY <1>8, <1>10, <2>1
  <2>. QED
    BY <1>1, <1>4, <1>5, <1>9, <1>12, <2>1, <2>2 DEF OwnFrog, p
<1>. QED
  BY <1>11, <1>12

LEMMA FrogStep == TypeOK /\ Inv /\ FrogInv /\ [Next]_vars => FrogInv'
<1> SUFFICES ASSUME TypeOK, Inv, FrogInv, [Next]_vars PROVE FrogInv'
  OBVIOUS
<1>1. ASSUME NEW i \in Servos, NEW close \in BOOLEAN, OnThrowClose(i, close) PROVE FrogInv'
  BY <1>1, FrogMove DEF OnThrowClose
<1>2. ASSUME NEW i \in Servos, OnCenter(i) PROVE FrogInv'
  BY <1>2, FrogCenter
<1>3. ASSUME NEW i \in Servos, NEW c \in Configs, TurnoutsConfigWritten(i, c) PROVE FrogInv'
  BY <1>3, FrogWritten
<1>4. ASSUME NEW input, TurnoutsInputPressed(input) PROVE FrogInv'
  <2> DEFINE set == {i \in Servos : cfg[i].enabled /\ cfg[i].fascia_input = input}
             want == [i \in Servos |-> ~closed[i]]
  <2>1. Move(set, want) /\ set \in SUBSET Servos /\ UNCHANGED <<cfg, disturbed>>
    BY <1>4 DEF TurnoutsInputPressed
  <2> HIDE DEF set, want
  <2> QED
    BY <2>1, FrogMove
<1>5. CASE MotionTick
  BY <1>5, FrogTick
<1>6. CASE UNCHANGED <<cfg, servo, known, gpio, disturbed>>
  BY <1>6 DEF FrogInv, OwnsFrog, NobodyElse, OwnFrog, FrogRight
<1> QED
  BY <1>1, <1>2, <1>3, <1>4, <1>5, <1>6 DEF Next, MotionTimer, NodeUp, AliasLost, vars

-----------------------------------------------------------------------------
(* The theorems *)

\* Whatever the configurations, bounds and frog outputs: a servo that moves or holds
\* has a signal and time left, never moves and holds at once, and stays in its range.
THEOREM TurnoutsTyped == Spec => []TypeOK
  BY TypesInit, TypesStep, PTL DEF Spec

LEMMA Invariance == Spec => []Inv
  BY InvInit, InvStep, PTL DEF Spec

\* Whatever the configurations and however ticks, commands and configuration writes
\* follow each other: while a servo moves or holds, motion_timer runs.
THEOREM TimerRunsWhileBusy == Spec => []BusyIsTicked
<1>1. Inv => BusyIsTicked
  BY DEF Inv
<1> QED
  BY Invariance, <1>1, PTL

\* A servo whose configuration is disabled has no signal and does not move.
THEOREM DisabledServosAreOff == Spec => []DisabledIsOff
<1>1. Inv => DisabledIsOff
  BY DEF Inv
<1> QED
  BY Invariance, <1>1, PTL

\* The last the bus heard of a turnout at rest is the state it was last sent to, and
\* the servo stands there.
THEOREM FeedbackIsRight == Spec => []BusIsRight
<1>1. Inv => BusIsRight
  BY DEF Inv, AtTarget, Heard, BusIsRight
<1> QED
  BY Invariance, <1>1, PTL

\* Whatever the configurations, and however commands, ticks and writes follow each
\* other: a frog that is not shared has the polarity of the side its servo is on.
THEOREM FrogsFollow == Spec => []FrogFollows
<1>1. TypeOK /\ FrogInv => FrogFollows
  <2>. SUFFICES ASSUME TypeOK, FrogInv, NEW i \in Servos \ disturbed, known[i],
                       Midpoint(cfg[i]) > 0,
                       \A j \in Servos \ {i} : cfg[j].frog_output # cfg[i].frog_output
                PROVE  FrogRight(i)
    BY DEF FrogFollows
  <2>1. OwnsFrog(i)
    BY DEF OwnsFrog
  <2>. QED
    BY <2>1 DEF FrogInv, OwnFrog
<1> QED
  BY <1>1, FrogInit, FrogStep, TurnoutsTyped, Invariance, PTL DEF Spec

=============================================================================
