---------------------------- MODULE MCDirectory ----------------------------
(* Instances of the directory for TLC. *)
EXTENDS Directory

CONSTANTS n, g, t, v, u1, u2

MCGroupType == [x \in Groups |-> t]
=============================================================================
