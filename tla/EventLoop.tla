------------------------------ MODULE EventLoop ------------------------------
(***************************************************************************)
(* One EventLoop: the thread inside loop(), the Epoller it blocks in, the  *)
(* eventfd that wakes it, and the other threads that hand it closures with *)
(* queueInLoop() or stop it with quit().                                   *)
(*                                                                         *)
(* One iteration of loop() is: Poll, the handlers of the active channels,  *)
(* SwapTasks, one RunTask per closure, LoopTest.  Handlers and closures    *)
(* are the application's: a callback may queue closures, call quit() and   *)
(* register or remove channels.  runInLoop() is queueInLoop() from another *)
(* thread and a plain call on the loop thread.                             *)
(***************************************************************************)
EXTENDS Naturals, Sequences, FiniteSets, Functions

CONSTANTS
  Thread,       \* the threads other than the loop's
  Channel,      \* the channels of sockets and timers
  Wakeup,       \* m_wakeupChannel
  Task,         \* the closures that may be queued
  Posts,        \* what one callback may queue: sequences of closures
  InitEvents,   \* initial m_events.size() of the Epoller
  MaxPending    \* bound: closures waiting in m_pendingTasks

ASSUME LoopAssumption ==
  /\ Wakeup \notin Channel
  /\ Posts \subseteq Seq(Task) /\ <<>> \in Posts
  /\ InitEvents \in Nat \ {0}
  /\ MaxPending \in Nat

VARIABLES
  pc,           \* the loop thread: "poll", "dispatch", "run" or "exited"
  active,       \* m_activeChannels still to be handled
  ready,        \* channels with an event the kernel would report
  maxEvents,    \* m_events.size(): the most events one epoll_wait returns
  eventfd,      \* the counter of m_wakeupFd is not zero
  pendingTasks, \* m_pendingTasks
  tasks,        \* the swapped-out batch: what is left of it to run
  quit,         \* m_quit
  tpc           \* per thread: "idle", or "wakeup" before ::write(m_wakeupFd)

vars == <<pc, active, ready, maxEvents, eventfd, pendingTasks, tasks, quit, tpc>>

TypeOK ==
  /\ pc \in {"poll", "dispatch", "run", "exited"}
  /\ active \subseteq Channel \cup {Wakeup}
  /\ ready \subseteq Channel
  /\ maxEvents \in Nat \ {0}
  /\ eventfd \in BOOLEAN
  /\ pendingTasks \in Seq(Task)
  /\ tasks \in Seq(Task)
  /\ quit \in BOOLEAN
  /\ tpc \in [Thread -> {"idle", "wakeup"}]

\* loop() is entered at its while test, as after an empty batch.
Init ==
  /\ pc = "run"
  /\ active = {}
  /\ ready = {}
  /\ maxEvents = InitEvents
  /\ eventfd = FALSE
  /\ pendingTasks = <<>>
  /\ tasks = <<>>
  /\ quit = FALSE
  /\ tpc = [th \in Thread |-> "idle"]
------------------------------------------------------------------------------
(* The loop thread *)

\* What epoll_wait would report: level-triggered, so all that is ready now.
Readable == ready \cup (IF eventfd THEN {Wakeup} ELSE {})

\* Seeded faults for the runs: the event array never grows, or one too small.
GrowNever(size, n) == size
GrowOffByOne(size, n) == IF n = size THEN 2 * (size - 1) ELSE size

\* A full array of events is doubled for the next poll.
Grow(size, n) == IF n = size THEN 2 * size ELSE size

\* epoll_wait returns min(|Readable|, maxEvents) channels.  Which ones, and
\* in which order they are handled, is left to the kernel.
Poll ==
  /\ pc = "poll"
  /\ \E S \in SUBSET Readable :
       /\ S # {}
       /\ \/ S = Readable /\ Cardinality(S) <= maxEvents
          \/ Cardinality(S) = maxEvents
       /\ active' = S
       /\ maxEvents' = Grow(maxEvents, Cardinality(S))
  /\ pc' = "dispatch"
  /\ UNCHANGED <<eventfd, pendingTasks, tasks, quit, tpc>>

\* epoll_wait fails with EINTR while it blocks: no channel is active.
PollInterrupted ==
  /\ pc = "poll"
  /\ Readable = {}
  /\ pc' = "dispatch"
  /\ active' = {}
  /\ UNCHANGED <<maxEvents, eventfd, pendingTasks, tasks, quit, tpc>>

\* EventLoop::handleRead: the read of the eventfd resets its counter.
HandleWakeup ==
  /\ pc = "dispatch"
  /\ Wakeup \in active
  /\ eventfd' = FALSE
  /\ active' = active \ {Wakeup}
  /\ UNCHANGED <<pc, maxEvents, pendingTasks, tasks, quit, tpc>>

\* Seeded fault: a closure queued on the loop thread without a wakeup.
PostSilently(s) ==
  /\ pendingTasks' = pendingTasks \o s
  /\ eventfd' = eventfd

\* queueInLoop(), once per closure of s, called on the loop thread.
Post(s) ==
  /\ pendingTasks' = pendingTasks \o s
  /\ eventfd' = (eventfd \/ s # <<>>)

\* The application's part of a callback.
Callback ==
  /\ \E s \in Posts : /\ Len(pendingTasks) + Len(s) <= MaxPending
                      /\ Post(s)
  /\ quit' \in {quit, TRUE}
  /\ ready' \in SUBSET Channel

\* Channel::handleEvents of an active channel calls one of its callbacks.
HandleEvents(c) ==
  /\ pc = "dispatch"
  /\ c \in active \cap Channel
  /\ Callback
  /\ UNCHANGED <<pc, active, maxEvents, tasks, tpc>>

\* handleEvents returns; an event it did not consume is still ready.
HandlerReturns(c) ==
  /\ pc = "dispatch"
  /\ c \in active \cap Channel
  /\ active' = active \ {c}
  /\ UNCHANGED <<pc, maxEvents, eventfd, pendingTasks, tasks, quit, tpc>>

\* Seeded fault: the pending closures are copied where they should be swapped.
CopyTasks ==
  /\ pc = "dispatch"
  /\ active = {}
  /\ pc' = "run"
  /\ tasks' = pendingTasks
  /\ UNCHANGED <<active, maxEvents, eventfd, pendingTasks, quit, tpc>>

\* The pending closures are taken under m_mutex.
SwapTasks ==
  /\ pc = "dispatch"
  /\ active = {}
  /\ pc' = "run"
  /\ tasks' = pendingTasks
  /\ pendingTasks' = <<>>
  /\ UNCHANGED <<active, maxEvents, eventfd, quit, tpc>>

TakeTask ==
  /\ pc = "run"
  /\ tasks # <<>>
  /\ tasks' = Tail(tasks)
  /\ UNCHANGED <<pc, active, maxEvents, tpc>>

RunTask == TakeTask /\ Callback

\* while (!m_quit)
LoopTest ==
  /\ pc = "run"
  /\ tasks = <<>>
  /\ pc' = IF quit THEN "exited" ELSE "poll"
  /\ UNCHANGED <<active, maxEvents, eventfd, pendingTasks, tasks, quit, tpc>>
------------------------------------------------------------------------------
(* The other threads *)

\* Seeded fault: queueInLoop() that returns without its wakeup().
QueueWithoutWakeup(th, t) ==
  /\ tpc[th] = "idle"
  /\ Len(pendingTasks) < MaxPending
  /\ pendingTasks' = Append(pendingTasks, t)
  /\ UNCHANGED <<pc, active, maxEvents, eventfd, tasks, quit, tpc>>

\* queueInLoop(): the push under m_mutex; the wakeup is a later step.
QueueInLoop(th, t) ==
  /\ tpc[th] = "idle"
  /\ Len(pendingTasks) < MaxPending
  /\ pendingTasks' = Append(pendingTasks, t)
  /\ tpc' = [tpc EXCEPT ![th] = "wakeup"]
  /\ UNCHANGED <<pc, active, maxEvents, eventfd, tasks, quit>>

\* Seeded fault: quit() that only sets the flag.
QuitWithoutWakeup(th) ==
  /\ tpc[th] = "idle"
  /\ ~quit
  /\ quit' = TRUE
  /\ UNCHANGED <<pc, active, maxEvents, eventfd, pendingTasks, tasks, tpc>>

\* quit(): its assertion !m_quit is the caller's obligation, so it is called
\* once; the store comes before the wakeup.
Quit(th) ==
  /\ tpc[th] = "idle"
  /\ ~quit
  /\ quit' = TRUE
  /\ tpc' = [tpc EXCEPT ![th] = "wakeup"]
  /\ UNCHANGED <<pc, active, maxEvents, eventfd, pendingTasks, tasks>>

\* wakeup(): the ::write to m_wakeupFd.
WriteWakeup(th) ==
  /\ tpc[th] = "wakeup"
  /\ eventfd' = TRUE
  /\ tpc' = [tpc EXCEPT ![th] = "idle"]
  /\ UNCHANGED <<pc, active, maxEvents, pendingTasks, tasks, quit>>

\* The peer, a clock or the kernel makes a channel ready.
Arrive(c) ==
  /\ ready' = ready \cup {c}
  /\ UNCHANGED <<pc, active, maxEvents, eventfd, pendingTasks, tasks, quit, tpc>>
------------------------------------------------------------------------------
LoopThread ==
  \/ /\ Poll \/ HandleWakeup \/ SwapTasks \/ LoopTest
     /\ UNCHANGED ready
  \/ RunTask
  \/ \E c \in Channel : HandlerReturns(c) /\ UNCHANGED ready

OtherThread(th) ==
  /\ \/ \E t \in Task : QueueInLoop(th, t)
     \/ Quit(th)
     \/ WriteWakeup(th)
  /\ UNCHANGED ready

Next ==
  \/ LoopThread
  \/ PollInterrupted /\ UNCHANGED ready
  \/ \E c \in Channel : HandleEvents(c) \/ Arrive(c)
  \/ \E th \in Thread : OtherThread(th)

Safety == Init /\ [][Next]_vars

\* The scheduler runs every thread that can run, and callbacks return.  No
\* thread has to call queueInLoop() or quit(), and no event has to arrive.
Fairness ==
  /\ WF_vars(LoopThread)
  /\ \A th \in Thread : WF_vars(WriteWakeup(th) /\ UNCHANGED ready)

Spec == Safety /\ Fairness
------------------------------------------------------------------------------
(* Properties *)

\* A thread is between the push (or the store to m_quit) and its wakeup.
WakeupComing == eventfd \/ \E th \in Thread : tpc[th] = "wakeup"

\* No lost wakeup: the loop never blocks in epoll_wait, nor runs a batch on
\* its way there, with a closure pending (nor blocks after quit()) unless the
\* eventfd is readable or about to be.  Only between the read of the eventfd
\* and the swap may a closure be pending with no wakeup to come.
NoLostWakeup ==
  /\ pc \in {"poll", "run"} /\ pendingTasks # <<>> => WakeupComing
  /\ pc = "poll" /\ quit => WakeupComing

\* Refinement: the batch being run and the pending closures are one queue.
Queue == INSTANCE TaskQueue WITH
  Batch   <- Posts \cup {<<t>> : t \in Task},
  queue   <- tasks \o pendingTasks,
  stopped <- pc = "exited"

\* The swap under m_mutex neither loses, repeats nor reorders a closure: they
\* run once each, in the order queueInLoop() was called by any thread.
RunsTasksInOrder == Queue!Spec

\* A closure queued by queueInLoop() gets into a batch unless loop() returns
\* first, and a batch comes to its end although its closures queue more.
TasksAreRun ==
  /\ \A t \in Task :
       t \in Range(pendingTasks) ~> t \in Range(tasks) \/ pc = "exited"
  /\ tasks # <<>> ~> tasks = <<>>

\* quit() stops the loop: it is never slept through.
QuitStops == quit ~> pc = "exited"

\* However few events one epoll_wait returns at first, and whichever ones the
\* kernel prefers, doubling the array keeps a ready channel from starving.
ReadyIsHandled ==
  \A c \in Channel : c \in ready ~> c \in active \/ c \notin ready \/ pc = "exited"
==============================================================================
