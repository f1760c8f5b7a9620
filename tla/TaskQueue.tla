------------------------------ MODULE TaskQueue ------------------------------
(***************************************************************************)
(* What EventLoop promises to whoever hands it a closure: the closures are *)
(* kept in one queue in the order they were queued and each one is run at  *)
(* most once, from the front.  Nothing is said of wakeups, epoll, batches. *)
(***************************************************************************)
EXTENDS Sequences

CONSTANT
  Batch       \* the sequences of closures that one step may queue

VARIABLES
  queue,      \* closures queued and not yet run, oldest first
  stopped     \* loop() has returned: nothing is run any more

vars == <<queue, stopped>>

Init ==
  /\ queue = <<>>
  /\ stopped = FALSE

\* Any thread, or a callback on the loop thread, queues closures.
Enqueue ==
  /\ \E s \in Batch : queue' = queue \o s
  /\ UNCHANGED stopped

\* The oldest closure runs; it may itself queue more, behind all the others.
Run ==
  /\ ~stopped
  /\ queue # <<>>
  /\ \E s \in Batch : queue' = Tail(queue) \o s
  /\ UNCHANGED stopped

Stop ==
  /\ stopped' = TRUE
  /\ UNCHANGED queue

Next == Enqueue \/ Run \/ Stop

Spec == Init /\ [][Next]_vars
==============================================================================
