----------------------------- MODULE MCTCPClient -----------------------------
(* TCPClient for TLC; it has no constants. *)
EXTENDS TCPClient, TLC
==============================================================================
