------------------------------ MODULE MCUbnetd ------------------------------
(* The instance of the address daemon for TLC. *)
EXTENDS Ubnetd
=============================================================================
