------------------------------ MODULE MCPacket ------------------------------
(* Instances of the packet layer for TLC. *)
EXTENDS PacketService, TLC

Symmetry == Permutations(Clients) \cup Permutations(Nodes)
=============================================================================
