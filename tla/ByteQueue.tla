------------------------------ MODULE ByteQueue ------------------------------
(***************************************************************************)
(* What a Buffer promises: a queue of bytes that is appended to at its end *)
(* and retrieved from, or prepended to, at its front.  Nothing is said of  *)
(* the vector that holds them, of its size or of where in it they are.     *)
(***************************************************************************)
EXTENDS Naturals, Sequences

CONSTANTS
  Name,   \* the buffers
  Data    \* the sequences of bytes that one call adds

VARIABLE bytes    \* per buffer, the bytes it holds

Init == bytes = [n \in Name |-> <<>>]

AddBehind(n, data)  == bytes' = [bytes EXCEPT ![n] = @ \o data]
AddInFront(n, data) == bytes' = [bytes EXCEPT ![n] = data \o @]

Retrieve(n) ==
  \E len \in 0 .. Len(bytes[n]) :
    bytes' = [bytes EXCEPT ![n] = SubSeq(@, len + 1, Len(@))]

Swap(m, n) == bytes' = [bytes EXCEPT ![m] = bytes[n], ![n] = bytes[m]]

Next ==
  \E n \in Name :
    \/ \E data \in Data : AddBehind(n, data) \/ AddInFront(n, data)
    \/ Retrieve(n)
    \/ \E m \in Name : Swap(m, n)

Spec == Init /\ [][Next]_bytes
==============================================================================
