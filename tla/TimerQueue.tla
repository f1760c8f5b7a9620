----------------------------- MODULE TimerQueue -----------------------------
(***************************************************************************)
(* The TimerQueue of one EventLoop: m_timers ordered by time, the timerfd  *)
(* armed for its first entry, and the Timer objects.  runAt(), runAfter()  *)
(* and runEvery() add a timer, cancelTimer() removes it; a callback or     *)
(* another channel's handler calls them on the loop thread, other threads  *)
(* through a queued closure.  Timers are kept in times of the system clock *)
(* which may be set; the timerfd counts down whatever it says.  All in ms.  *)
(***************************************************************************)
EXTENDS Naturals, Sequences, FiniteSets

CONSTANTS
  Timer,     \* the objects, by address: a set of numbers
  Interval,  \* m_interval of each; 0 for a timer that does not repeat
  MaxTime,   \* bound: the system clock, and the times asked for, stop here
  MaxSets,   \* bound: how often the system clock is set
  MaxQueue   \* bound: closures queued by other threads

ASSUME TimerAssumption ==
  /\ Timer \subseteq Nat
  /\ Interval \in [Timer -> Nat]
  /\ MaxTime \in Nat \ {0} /\ MaxSets \in Nat /\ MaxQueue \in Nat

VARIABLES
  now,       \* clock::now(), the system clock
  sets,      \* how often it was set
  ahead,     \* how far it was set forward since the timerfd was set
  left,      \* how long until the timerfd expires; 0 if it is not armed
  readable,  \* the timerfd has expired and was not read or set again
  timers,    \* m_timers: pairs of a time and a timer
  object,    \* per timer: "none", "live", or deleted: "done" or "canceled"
  when,      \* per timer: m_when
  expired,   \* entries that handleRead() has still to deal with
  current,   \* the entry it is dealing with
  pc,        \* the loop thread: "idle", "polled" (the timerfd is among the
             \* m_activeChannels still to be handled), in handleRead() "next" or
             \* "callback", or "destroyed"
  queue,     \* closures of addTimer() and cancelTimer() not yet run
  failed     \* "none", or why the process is gone

clockVars   == <<now, sets>>
timerfdVars == <<ahead, left, readable>>
callVars    == <<expired, current, pc>>
vars == <<clockVars, timerfdVars, timers, object, when, callVars, queue, failed>>

TypeOK ==
  /\ now \in 0 .. MaxTime /\ sets \in 0 .. MaxSets
  /\ ahead \in Nat /\ left \in Nat /\ readable \in BOOLEAN
  /\ timers \subseteq Nat \X Timer /\ expired \subseteq Nat \X Timer
  /\ object \in [Timer -> {"none", "live", "done", "canceled"}]
  /\ when \in [Timer -> Nat]
  /\ pc \in {"idle", "polled", "next", "callback", "destroyed"}
  /\ queue \in Seq({"add", "cancel"} \X Timer)
  /\ failed \in {"none", "entry", "expired", "runs deleted", "canceled twice",
                "canceled after it ran", "canceled in its batch", "canceled before it was added"}

Init ==
  /\ now = 0 /\ sets = 0 /\ ahead = 0 /\ left = 0 /\ readable = FALSE
  /\ timers = {} /\ expired = {} /\ current = <<>>
  /\ object = [t \in Timer |-> "none"]
  /\ when = [t \in Timer |-> 0]
  /\ pc = "idle" /\ queue = <<>> /\ failed = "none"

Repeats(t)  == Interval[t] > 0
EntryOf(t)  == <<when[t], t>>
Queued(op, t) == \E i \in DOMAIN queue : queue[i] = <<op, t>>

\* The order of std::set<pair<TimePoint, Timer*>>.
Before(e, f) == e[1] < f[1] \/ (e[1] = f[1] /\ e[2] < f[2])
First(S) == CHOOSE e \in S : \A f \in S \ {e} : Before(e, f)
------------------------------------------------------------------------------
(* The operations, on the loop thread *)

\* Seeded fault: the time is set as it is, from now or not.
TimerfdSetRaw(time) ==
  /\ left' = time - now
  /\ readable' = FALSE /\ ahead' = 0

\* timerfdSet(): at least one millisecond from now; unread expirations go.
TimerfdSet(time) ==
  /\ left' = IF time > now THEN time - now ELSE 1
  /\ readable' = FALSE /\ ahead' = 0

\* Seeded fault: the timerfd is set only for the first timer of all.
InsertLazily(t, time) ==
  /\ timers' = timers \cup {<<time, t>>}
  /\ IF timers = {} THEN TimerfdSet(time) ELSE UNCHANGED timerfdVars
  /\ failed' = failed

\* The closure of addTimer(); its assertion is that the entry is new.
Insert(t, time) ==
  /\ timers' = timers \cup {<<time, t>>}
  /\ IF First(timers') = <<time, t>> THEN TimerfdSet(time) ELSE UNCHANGED timerfdVars
  /\ failed' = IF <<time, t>> \in timers THEN "entry" ELSE failed

\* What becomes of canceling a timer that is deleted already, whose closure will
\* insert it when it has been deleted, or that handleRead() has a pointer to, in
\* its batch or as the one that runs: it asks isCanceled() of it afterwards.
CancelFails(t) ==
  CASE object[t] = "canceled"                   -> "canceled twice"
    [] object[t] = "done"                       -> "canceled after it ran"
    [] Queued("add", t)                         -> "canceled before it was added"
    [] EntryOf(t) \in expired \cup {current}    -> "canceled in its batch"
    [] OTHER                                    -> failed

\* Seeded fault: a canceled timer that stays in m_timers.
EraseLate(t) ==
  /\ object' = [object EXCEPT ![t] = "canceled"]
  /\ UNCHANGED timers
  /\ failed' = CancelFails(t)

\* The closure of cancelTimer(): erase and delete.
Erase(t) ==
  /\ timers' = timers \ {EntryOf(t)}
  /\ object' = [object EXCEPT ![t] = "canceled"]
  /\ failed' = CancelFails(t)

(* The calls of the application *)

\* What a caller can know: the timer has not run for the last time, and nobody
\* else has canceled it.
MayCancel(t) == object[t] = "live" /\ ~Queued("cancel", t)

\* new Timer(cb, time, interval)
New(t, time) ==
  /\ object[t] = "none"
  /\ object' = [object EXCEPT ![t] = "live"]
  /\ when' = [when EXCEPT ![t] = time]

\* Where a callback may call: in another channel's handler, which may come before
\* the timerfd's in the same poll, in a closure, or in the callback of a timer.
Calling == pc \in {"idle", "polled", "callback"}

Add(t, time) ==
  /\ Calling
  /\ New(t, time) /\ Insert(t, time)
  /\ UNCHANGED <<clockVars, callVars, queue>>

Cancel(t) ==
  /\ Calling /\ MayCancel(t) /\ Erase(t)
  /\ UNCHANGED <<clockVars, timerfdVars, when, callVars, queue>>

\* Another thread: the object is made, or named, and the closure queued.
PostAdd(t, time) ==
  /\ pc # "destroyed" /\ Len(queue) < MaxQueue /\ New(t, time)
  /\ queue' = Append(queue, <<"add", t>>)
  /\ UNCHANGED <<clockVars, timerfdVars, timers, callVars, failed>>

PostCancel(t) ==
  /\ pc # "destroyed" /\ Len(queue) < MaxQueue /\ MayCancel(t)
  /\ queue' = Append(queue, <<"cancel", t>>)
  /\ UNCHANGED <<clockVars, timerfdVars, timers, object, when, callVars, failed>>

RunClosure ==
  /\ pc = "idle" /\ queue # <<>>
  /\ queue' = Tail(queue)
  /\ LET op == Head(queue)
     IN \/ op[1] = "add" /\ Insert(op[2], when[op[2]]) /\ UNCHANGED object
        \/ op[1] = "cancel" /\ Erase(op[2]) /\ UNCHANGED timerfdVars
  /\ UNCHANGED <<clockVars, when, callVars>>
------------------------------------------------------------------------------
(* handleRead() *)

\* epoll_wait reports the timerfd, and other descriptors perhaps.
Poll ==
  /\ pc = "idle" /\ readable
  /\ pc' = "polled"
  /\ UNCHANGED <<clockVars, timerfdVars, timers, object, when, expired, current, queue, failed>>

\* A handler before it may have set the timerfd again: read() fails then, and
\* handleRead() goes on.
HandleRead ==
  /\ pc = "polled"
  /\ readable' = FALSE
  /\ expired' = {e \in timers : e[1] <= now}
  /\ timers' = timers \ expired'
  /\ pc' = "next"
  /\ UNCHANGED <<clockVars, ahead, left, object, when, current, queue, failed>>

\* The next expired timer runs; it must be there still, and assert(expired) asks
\* it for its time again.
RunTimer ==
  /\ pc = "next" /\ expired # {}
  /\ current' = First(expired)
  /\ expired' = expired \ {current'}
  /\ pc' = "callback"
  /\ failed' = CASE object[current'[2]] # "live"      -> "runs deleted"
                 [] current' # EntryOf(current'[2])   -> "expired"
                 [] OTHER                             -> failed
  /\ UNCHANGED <<clockVars, timerfdVars, timers, object, when, queue>>

\* After the callback: restart() and insert, or delete.
AfterRun ==
  /\ pc = "callback"
  /\ pc' = "next"
  /\ LET t == current[2]
     IN IF Repeats(t)
        THEN /\ when' = [when EXCEPT ![t] = @ + Interval[t]]
             /\ timers' = timers \cup {<<when'[t], t>>}
             /\ UNCHANGED object
        ELSE /\ object' = [object EXCEPT ![t] = "done"]
             /\ UNCHANGED <<when, timers>>
  /\ current' = <<>>
  /\ UNCHANGED <<clockVars, timerfdVars, expired, queue, failed>>

\* Seeded fault: handleRead() that returns without timerfdSet().
RearmNever ==
  /\ pc = "next" /\ expired = {}
  /\ pc' = "idle"
  /\ UNCHANGED <<clockVars, timerfdVars, timers, object, when, expired, current, queue, failed>>

Rearm ==
  /\ pc = "next" /\ expired = {}
  /\ pc' = "idle"
  /\ IF timers # {} THEN TimerfdSet(First(timers)[1]) ELSE UNCHANGED timerfdVars
  /\ UNCHANGED <<clockVars, timers, object, when, expired, current, queue, failed>>

\* ~TimerQueue, with the loop: closures that were not run never will be, so a
\* timer that one of them should add is never deleted.
Destroy ==
  /\ pc = "idle"
  /\ pc' = "destroyed"
  /\ object' = [t \in Timer |-> IF EntryOf(t) \in timers THEN "done" ELSE object[t]]
  /\ timers' = {}
  /\ UNCHANGED <<clockVars, timerfdVars, when, expired, current, queue, failed>>

(* Time *)

\* A millisecond passes; the timerfd expires once per timerfdSet().  When the
\* system clock has reached its bound the timerfd goes on without it.
Tick ==
  /\ now < MaxTime \/ left > 0
  /\ now' = IF now < MaxTime THEN now + 1 ELSE now
  /\ readable' = (readable \/ left = 1)
  /\ left' = IF left > 0 THEN left - 1 ELSE 0
  /\ UNCHANGED <<sets, ahead, timers, object, when, callVars, queue, failed>>

\* The system clock is set, back or forward.
SetClock(time) ==
  /\ sets < MaxSets
  /\ now' = time /\ sets' = sets + 1
  /\ ahead' = IF time > now THEN ahead + (time - now) ELSE ahead
  /\ UNCHANGED <<left, readable, timers, object, when, callVars, queue, failed>>
------------------------------------------------------------------------------
Alive == failed = "none"

Loop == Alive /\ (Poll \/ HandleRead \/ RunTimer \/ AfterRun \/ Rearm)
Closure == Alive /\ RunClosure
Time == Alive /\ Tick

Next ==
  \/ Loop \/ Closure \/ Time
  \/ Alive /\ \/ Destroy
              \/ \E time \in 0 .. MaxTime : SetClock(time)
              \/ \E t \in Timer, time \in 0 .. MaxTime : Add(t, time) \/ PostAdd(t, time)
              \/ \E t \in Timer : Cancel(t) \/ PostCancel(t)

Safety == Init /\ [][Next]_vars

\* The loop thread goes on (ReadyIsHandled, TasksAreRun), and so does time.
Fairness ==
  /\ WF_vars(Loop)
  /\ SF_vars(Closure)
  /\ WF_vars(Time)

Spec == Safety /\ Fairness
------------------------------------------------------------------------------
(* Properties *)

\* No timer is slept through: whatever is added, canceled and restarted, and
\* however the system clock is set, the timerfd expires no later than the first
\* timer is due (or in the next millisecond when that is past) or has expired
\* and waits to be read; it is late only by what the clock was set forward.
ArmedForFirst ==
  pc = "idle" /\ timers # {} =>
    \/ readable
    \/ left > 0 /\ (now + left <= First(timers)[1] + ahead \/ left = 1)

\* Each live Timer is owned once: by m_timers, by the rest of the expired
\* batch, by the callback being run, or by the closure that will insert it.
\* None leaks and no deleted one is still held, by ~TimerQueue either.
OwnedOnce ==
  Alive =>
    \A t \in Timer :
      Cardinality({e \in timers \cup expired : e[2] = t})
        + (IF pc = "callback" /\ current[2] = t THEN 1 ELSE 0)
        + (IF Queued("add", t) THEN 1 ELSE 0)
      = IF object[t] = "live" THEN 1 ELSE 0

\* Callers that cancel a timer they know to be live, once, can do harm in three
\* ways only: a closure that comes after a timer that runs once, a call on the
\* loop thread before the closure that adds the timer, and a callback that
\* cancels a timer of the batch being run, its own included.  In no other way
\* does an assertion (a new entry, an expired timer, not canceled twice) fail
\* or is a deleted Timer used.
NothingFails ==
  /\ failed \notin {"entry", "expired", "runs deleted", "canceled twice"}
  /\ failed = "canceled after it ran" => \E t \in Timer : ~Repeats(t) /\ object[t] = "canceled"

\* A timer whose time comes leaves m_timers and runs, although the timerfd may
\* expire before it, or long after it, when the system clock is set.
TimersRun ==
  \A t \in Timer : \A time \in 0 .. MaxTime :
    <<time, t>> \in timers ~> <<time, t>> \notin timers \/ ~Alive
==============================================================================
