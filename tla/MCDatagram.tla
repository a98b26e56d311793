----------------------------- MODULE MCDatagram -----------------------------
(* Instances of Datagram for TLC: two clients that send to one server. *)
EXTENDS Datagram

CONSTANTS a, b, s

MCNodes == {a, b, s}
MCRoutes == {<<a, s>>, <<b, s>>}
MCMovers == {a}
MCNobody == {}
MCLengths == {1, 3}

=============================================================================
