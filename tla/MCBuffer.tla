------------------------------ MODULE MCBuffer ------------------------------
(* Small instances of Buffer for TLC. *)
EXTENDS Buffer, SequencesExt

\* One call adds two bytes at most.
MCData == BoundedSeq(Byte, 2)
==============================================================================
