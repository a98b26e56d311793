---------------------------- MODULE MCMemoryConfig ----------------------------
(* Two tools and a node with a writable and a read-only space. *)
EXTENDS MemoryConfig

CONSTANTS a, b, s

MCNodes == {a, b, s}
MCRoutes == {<<a, s>>, <<b, s>>, <<s, a>>, <<s, b>>}
MCNobody == {}
MCLengths == {1, 2}

Request(cmd, space) == [cmd |-> cmd, space |-> space, inside |-> TRUE, len |-> 2]

MCRequests ==
  ({a} \X {Request("read", "config"), Request("lock", "config"), Request("unlock", "config")})
  \cup
  ({b} \X {Request("write", "config"), Request("write", "cdi"), Request("lock", "config"),
           Request("read", "unknown"), Request("info", "cdi"), Request("options", "config")})

=============================================================================
