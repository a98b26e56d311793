------------------------------ MODULE MCLayout ------------------------------
(***************************************************************************)
(* A model of Layout for TLC: a crossover of two switches, the second one  *)
(* driven by the feedback of the first, and a signal head on each, red     *)
(* when it is thrown and flashing yellow when it is closed.                *)
(***************************************************************************)
EXTENDS Layout

MCCommand ==
  <<[c \in BOOLEAN |-> IF c THEN "close" ELSE "throw"],
    [c \in BOOLEAN |-> IF c THEN "is_closed" ELSE "is_thrown"]>>
MCFeedback ==
  <<[c \in BOOLEAN |-> IF c THEN "is_closed" ELSE "is_thrown"],
    [c \in BOOLEAN |-> IF c THEN "caution" ELSE "stop"]>>

\* A head with the events for red and for flashing yellow, the lamps it has
Wired(red, yellow, lamps, on) ==
  [enabled |-> on, power_on_aspect |-> "red", lamps |-> lamps,
   aspect_events |-> [a \in Aspects |-> CASE a = "red"             -> red
                                          [] a = "flashing_yellow" -> yellow
                                          [] OTHER                 -> NoEvent]]

MCInitConfig ==
  <<Wired("is_thrown", "is_closed", {"red", "yellow"}, TRUE),
    Wired("stop", "caution", {"red", "yellow"}, TRUE)>>
\* It asks for everything, or for one event that both sides know
MCRequests ==
  {[type |-> "identify"]} \cup
  {[type |-> "matching", id |-> "caution", producers |-> producers] : producers \in BOOLEAN}

\* The host takes head 1 out of use, and the yellow lamp from head 2
MCConfigs ==
  <<{Wired("is_thrown", "is_closed", {"red", "yellow"}, FALSE)},
    {Wired("stop", "caution", {"red"}, TRUE)}>>

\* As the theorem about the host asks
ASSUME MCDistinctEvents == DistinctEvents
=============================================================================
