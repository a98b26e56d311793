----------------------------- MODULE MCRailCom -----------------------------
(***************************************************************************)
(* A model of RailComReports for TLC: one block, and two locomotives of    *)
(* which one half each makes the address of a third.                       *)
(***************************************************************************)
EXTENDS RailComReports

MCTrains == {[hi |-> 0, lo |-> 3, orient |-> "A"],
             [hi |-> 128, lo |-> 200, orient |-> "B"]}
=============================================================================
