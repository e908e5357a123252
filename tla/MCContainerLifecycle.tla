------------------------ MODULE MCContainerLifecycle ------------------------
(* A node publishes two ports the kernel chooses; the other asks for a port, *)
(* and in some calls for one that is not a number as well.                   *)
EXTENDS ContainerLifecycle
CONSTANTS n1, n2
Port(name, o) == [port |-> name, override |-> o]
Published1 == [n \in Nodes |->
  IF n = n1 THEN {{Port("rpc", Random), Port("p2p", Random)}}
  ELSE {{Port("rpc", 1)}, {Port("rpc", 1), Port("p2p", NotANumber)}}]
=============================================================================
