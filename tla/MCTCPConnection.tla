--------------------------- MODULE MCTCPConnection ---------------------------
(* Small instances of TCPConnection for TLC. *)
EXTENDS TCPConnection, TLC
==============================================================================
