--------------------------- MODULE EventLoopThread ---------------------------
(***************************************************************************)
(* Threads whose stack holds an EventLoop, and the thread that starts and  *)
(* stops them.  startLoop() creates the thread and waits on a condition    *)
(* variable for the pointer to its loop; the thread stores the pointer and *)
(* notifies, without the mutex, and enters loop().  quit() from outside    *)
(* sets m_quit and then writes to the loop's eventfd.                      *)
(*                                                                         *)
(* TCPServer starts and stops the loops of its own threads in the same     *)
(* steps, so these are its actions too.                                    *)
(***************************************************************************)
EXTENDS Naturals

CONSTANT LoopThread

VARIABLES
  caller,   \* per thread: where the one that starts and stops it is
  place,    \* per thread: where it is itself
  pointer,  \* the threads whose loop's address has been stored
  quit,     \* the loops whose m_quit is set
  eventfd,  \* the loops whose m_wakeupFd is readable
  missed,   \* the threads whose notify_one() came just before the wait for it
  failed    \* "none", or why the process is gone

loopVars == <<caller, place, pointer, quit, eventfd, missed, failed>>

Callers == {"none", "sleepy", "asleep", "woken", "spurious", "returned",
            "wakeup", "join", "joined"}

\* "blocked": the base loop's thread inside startInLoop() of TCPServer.
Places  == {"none", "store", "notify", "listen", "test", "poll", "left", "dead", "blocked"}

LoopTypeOK ==
  /\ caller \in [LoopThread -> Callers]
  /\ place \in [LoopThread -> Places]
  /\ pointer \subseteq LoopThread /\ quit \subseteq LoopThread
  /\ eventfd \subseteq LoopThread /\ missed \subseteq LoopThread

LoopInit ==
  /\ caller = [t \in LoopThread |-> "none"]
  /\ place = [t \in LoopThread |-> "none"]
  /\ pointer = {} /\ quit = {} /\ eventfd = {} /\ missed = {}
  /\ failed = "none"

CallerGoes(t, to) == caller' = [caller EXCEPT ![t] = to]
Goes(t, to) == place' = [place EXCEPT ![t] = to]
------------------------------------------------------------------------------
(* The thread *)

\* Seeded fault: the notification comes before the pointer.
StoreLoopLate(t) ==
  /\ place[t] \in {"store", "listen", "test"} /\ t \notin pointer
  /\ IF place[t] = "store" THEN Goes(t, "notify") /\ UNCHANGED pointer
                           ELSE pointer' = pointer \cup {t} /\ UNCHANGED place
  /\ UNCHANGED <<caller, quit, eventfd, missed, failed>>

\* EventLoop loop; m_loop = &loop;
StoreLoop(t) ==
  /\ place[t] = "store"
  /\ pointer' = pointer \cup {t}
  /\ Goes(t, "notify")
  /\ UNCHANGED <<caller, quit, eventfd, missed, failed>>

\* Seeded fault: the pointer is stored and nobody is told.
NotifyNever(t, sharers, next) ==
  /\ place[t] = "notify"
  /\ Goes(t, next)
  /\ UNCHANGED <<caller, pointer, quit, eventfd, missed, failed>>

\* m_cond.notify_one(): sharers are the threads awaited on that m_cond.
Notify(t, sharers, next) ==
  /\ place[t] = "notify"
  /\ Goes(t, next)
  /\ LET W == {u \in sharers : caller[u] = "asleep"}
     IN IF W # {} THEN (\E u \in W : CallerGoes(u, "woken")) ELSE UNCHANGED caller
  /\ missed' = IF caller[t] = "sleepy" THEN missed \cup {t} ELSE missed
  /\ UNCHANGED <<pointer, quit, eventfd, failed>>

\* while (!m_quit)
LoopTest(t) ==
  /\ place[t] = "test"
  /\ Goes(t, IF t \in quit THEN "left" ELSE "poll")
  /\ UNCHANGED <<caller, pointer, quit, eventfd, missed, failed>>

\* The eventfd ends epoll_wait and is read.
Wake(t) ==
  /\ place[t] = "poll" /\ t \in eventfd
  /\ eventfd' = eventfd \ {t}
  /\ Goes(t, "test")
  /\ UNCHANGED <<caller, pointer, quit, missed, failed>>

\* The thread returns; its loop is destroyed.
LoopEnds(t) ==
  /\ place[t] = "left"
  /\ Goes(t, "dead")
  /\ eventfd' = eventfd \ {t}
  /\ UNCHANGED <<caller, pointer, quit, missed>>

EndThread(t) == LoopEnds(t) /\ UNCHANGED failed
------------------------------------------------------------------------------
(* The one that starts and stops it *)

\* The thread is created; what the caller does next is its own: startLoop()
\* waits, TCPServer tests the pointer first.
StartThread(t, next) ==
  /\ caller[t] = "none"
  /\ CallerGoes(t, next)
  /\ Goes(t, "store")
  /\ UNCHANGED <<pointer, quit, eventfd, missed, failed>>

\* m_cond.wait(guard): only now is the caller in the wait set.
Sleep(t) ==
  /\ caller[t] = "sleepy"
  /\ CallerGoes(t, "asleep")
  /\ UNCHANGED <<place, pointer, quit, eventfd, missed, failed>>

\* A condition variable may wake its waiter for no reason.
Spurious(t) ==
  /\ caller[t] = "asleep"
  /\ CallerGoes(t, "spurious")
  /\ UNCHANGED <<place, pointer, quit, eventfd, missed, failed>>

\* return m_loop; a caller that is given no loop goes wrong at once.
Return(t) ==
  /\ caller[t] \in {"woken", "spurious"}
  /\ CallerGoes(t, "returned")
  /\ failed' = IF t \in pointer THEN failed ELSE "no loop"
  /\ UNCHANGED <<place, pointer, quit, eventfd, missed>>

\* quit() from another thread, in two steps.
SetQuit(t) ==
  /\ caller[t] = "returned"
  /\ CallerGoes(t, "wakeup")
  /\ quit' = quit \cup {t}
  /\ failed' = IF t \in quit THEN "quit twice" ELSE failed
  /\ UNCHANGED <<place, pointer, eventfd, missed>>

\* Seeded fault: quit() without wakeup().
QuitSilently(t) ==
  /\ caller[t] = "wakeup"
  /\ CallerGoes(t, "join")
  /\ UNCHANGED <<place, pointer, quit, eventfd, missed, failed>>

\* The loop may have seen m_quit and be destroyed before wakeup() uses it.
WriteWakeup(t) ==
  /\ caller[t] = "wakeup"
  /\ CallerGoes(t, "join")
  /\ IF place[t] = "dead" THEN failed' = "dead loop" /\ UNCHANGED eventfd
                          ELSE eventfd' = eventfd \cup {t} /\ UNCHANGED failed
  /\ UNCHANGED <<place, pointer, quit, missed>>

Join(t) ==
  /\ caller[t] = "join" /\ place[t] = "dead"
  /\ CallerGoes(t, "joined")
  /\ UNCHANGED <<place, pointer, quit, eventfd, missed, failed>>
==============================================================================
