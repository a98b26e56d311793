------------------------------ MODULE MCTurnouts ------------------------------
(* Two servos.  The way of 5 takes the first one steps of 2, 2 and 1 that hit the
   midpoint in one direction and jump over it in the other. *)
EXTENDS Turnouts

Config(throw, hold, on, reversed, default, frog, fascia) ==
  [thrown_position |-> 1, closed_position |-> 6, center_position |-> 3,
   throw_time |-> throw, hold_time |-> hold, enabled |-> on, reversed |-> reversed,
   default_state |-> default, frog_output |-> frog, fascia_input |-> fascia]

First == Config(2, 1, TRUE, FALSE, "closed", 1, 1)
Second == Config(1, 0, TRUE, TRUE, "no_change", 2, 1)
MCInitConfig == <<First, Second>>
MCConfigs ==
  {First, Second, Config(0, 1, TRUE, FALSE, "thrown", 2, 0), Config(1, 1, FALSE, FALSE, "thrown", 0, 0)}

=============================================================================
