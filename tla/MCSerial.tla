------------------------------ MODULE MCSerial ------------------------------
(* An instance of the framing for TLC: all messages of up to two bytes. *)
EXTENDS Serial, TLC

MCMessages == UNION {[1..n -> Byte] : n \in 0..UB_PACKETLEN}
=============================================================================
