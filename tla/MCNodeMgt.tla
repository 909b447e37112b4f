------------------------------ MODULE MCNodeMgt ------------------------------
(* Instances of the node table for TLC. *)
EXTENDS NodeMgtInv, TLC

CONSTANTS a, b, bridge

\* The configuration names a twice: the second entry is never found.
MCConfigured == <<a, a>>
MCGroups == [id \in {a, b, bridge} |-> IF id = a THEN <<128>> ELSE <<>>]
=============================================================================
