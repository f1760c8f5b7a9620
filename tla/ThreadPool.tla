----------------------------- MODULE ThreadPool -----------------------------
(***************************************************************************)
(* ThreadPool: workers, the threads that submit tasks with runTask(), and  *)
(* one thread that stops the pool.  What the code does under m_mutex is    *)
(* one step; a thread in m_notEmpty or m_notFull waits for a notification  *)
(* and then locks m_mutex again, as if it had just come to that lock.      *)
(***************************************************************************)
EXTENDS Naturals, Sequences, FiniteSets, Functions

CONSTANTS
  Worker,       \* m_threadList
  Producer,     \* the threads that submit tasks
  Task,         \* the tasks, each submitted once at most
  MaxQueueSize, \* m_maxQueueSize
  Nested        \* whether running tasks submit tasks too

ASSUME PoolAssumption ==
  /\ Worker # {} /\ IsFiniteSet(Worker \cup Producer) /\ Worker \cap Producer = {}
  /\ Task # {}
  /\ MaxQueueSize \in Nat \ {0}
  /\ Nested \in BOOLEAN

VARIABLES
  running,   \* m_running
  queue,     \* m_taskQueue
  pc,        \* where each thread is
  arg,       \* the task each thread is handing to runTask()
  todo,      \* tasks not submitted yet
  ran,       \* tasks that a worker has taken, in that order
  stop       \* where the thread in stop() is

vars == <<running, queue, pc, arg, todo, ran, stop>>

Thread == Worker \cup Producer

TypeOK ==
  /\ running \in BOOLEAN
  /\ queue \in Seq(Task) /\ Len(queue) <= MaxQueueSize
  /\ pc \in [Thread -> {"idle", "test", "take", "notEmpty", "run", "push", "notFull", "done"}]
  /\ arg \in [Thread -> Task]
  /\ todo \subseteq Task
  /\ ran \in Seq(Task)
  /\ stop \in {"none", "drain", "clear", "notify", "join", "stopped"}

Init ==
  /\ running = TRUE
  /\ queue = <<>>
  /\ pc = [th \in Thread |-> IF th \in Worker THEN "test" ELSE "idle"]
  /\ arg = [th \in Thread |-> CHOOSE t \in Task : TRUE]
  /\ todo = Task
  /\ ran = <<>>
  /\ stop = "none"

At(place) == {th \in Thread : pc[th] = place}

\* notify_one(): one of the threads waiting at from, if any, goes on at to.
NotifyOne(f, from, to) ==
  LET W == {th \in Thread : f[th] = from}
  IN IF W = {} THEN {f} ELSE {[f EXCEPT ![th] = to] : th \in W}
------------------------------------------------------------------------------
(* runTask() *)

\* The assertion m_running is the caller's obligation.
Submit(th) ==
  /\ running
  /\ pc[th] = "idle" \/ (Nested /\ pc[th] = "run")
  /\ \E t \in todo : /\ arg' = [arg EXCEPT ![th] = t]
                     /\ todo' = todo \ {t}
  /\ pc' = [pc EXCEPT ![th] = "push"]
  /\ UNCHANGED <<running, queue, ran, stop>>

\* Seeded fault: a task pushed without notify_one().
PushSilently(th) ==
  /\ pc[th] = "push"
  /\ Len(queue) < MaxQueueSize
  /\ queue' = Append(queue, arg[th])
  /\ pc' = [pc EXCEPT ![th] = IF th \in Worker THEN "run" ELSE "idle"]
  /\ UNCHANGED <<running, arg, todo, ran, stop>>

\* Seeded fault: the test for a full queue is off by one.
PushBeyond(th) ==
  /\ pc[th] = "push"
  /\ Len(queue) <= MaxQueueSize
  /\ queue' = Append(queue, arg[th])
  /\ pc' \in NotifyOne([pc EXCEPT ![th] = IF th \in Worker THEN "run" ELSE "idle"],
                       "notEmpty", "take")
  /\ UNCHANGED <<running, arg, todo, ran, stop>>

Push(th) ==
  /\ pc[th] = "push"
  /\ IF Len(queue) >= MaxQueueSize
     THEN pc' = [pc EXCEPT ![th] = "notFull"] /\ UNCHANGED queue
     ELSE /\ queue' = Append(queue, arg[th])
          /\ pc' \in NotifyOne([pc EXCEPT ![th] = IF th \in Worker THEN "run" ELSE "idle"],
                               "notEmpty", "take")
  /\ UNCHANGED <<running, arg, todo, ran, stop>>
------------------------------------------------------------------------------
(* runInThread() *)

\* while (m_running), read without the lock.
TestRunning(w) ==
  /\ pc[w] = "test"
  /\ pc' = [pc EXCEPT ![w] = IF running THEN "take" ELSE "done"]
  /\ UNCHANGED <<running, queue, arg, todo, ran, stop>>

\* Seeded fault: a task taken without notify_one() of m_notFull.
TakeSilently(w) ==
  /\ pc[w] = "take" /\ queue # <<>>
  /\ pc' = [pc EXCEPT ![w] = "run"]
  /\ queue' = Tail(queue)
  /\ ran' = Append(ran, Head(queue))
  /\ UNCHANGED <<running, arg, todo, stop>>

\* Seeded fault: front() without pop_front().
TakeAndKeep(w) ==
  /\ pc[w] = "take" /\ queue # <<>>
  /\ pc' = [pc EXCEPT ![w] = "run"]
  /\ ran' = Append(ran, Head(queue))
  /\ UNCHANGED <<running, queue, arg, todo, stop>>

TakeTask(w) ==
  /\ pc[w] = "take"
  /\ IF queue = <<>>
     THEN /\ pc' = [pc EXCEPT ![w] = IF running THEN "notEmpty" ELSE "test"]
          /\ UNCHANGED <<queue, ran>>
     ELSE /\ pc' \in NotifyOne([pc EXCEPT ![w] = "run"], "notFull", "push")
          /\ queue' = Tail(queue)
          /\ ran' = Append(ran, Head(queue))
  /\ UNCHANGED <<running, arg, todo, stop>>

\* The task returns.
TaskEnds(w) ==
  /\ w \in Worker /\ pc[w] = "run"
  /\ pc' = [pc EXCEPT ![w] = "test"]
  /\ UNCHANGED <<running, queue, arg, todo, ran, stop>>

\* A condition variable may wake its waiter for no reason.
Spurious(th) ==
  /\ pc[th] \in {"notEmpty", "notFull"}
  /\ pc' = [pc EXCEPT ![th] = IF @ = "notEmpty" THEN "take" ELSE "push"]
  /\ UNCHANGED <<running, queue, arg, todo, ran, stop>>
------------------------------------------------------------------------------
(* stop() *)

StopAt(from, to) ==
  /\ stop = from
  /\ stop' = to
  /\ UNCHANGED <<queue, arg, todo, ran>>

StopCalled   == StopAt("none", "drain") /\ UNCHANGED <<running, pc>>

\* The busy loop ends in an iteration that finds the queue empty.
SawEmpty     == queue = <<>> /\ StopAt("drain", "clear") /\ UNCHANGED <<running, pc>>
ClearRunning == StopAt("clear", "notify") /\ running' = FALSE /\ UNCHANGED pc

\* Seeded fault: notify_one() where all workers must be woken.
NotifyOneWorker ==
  /\ StopAt("notify", "join")
  /\ pc' \in NotifyOne(pc, "notEmpty", "take")
  /\ UNCHANGED running

NotifyAll ==
  /\ StopAt("notify", "join")
  /\ pc' = [th \in Thread |-> IF pc[th] = "notEmpty" THEN "take" ELSE pc[th]]
  /\ UNCHANGED running

JoinAll      == Worker \subseteq At("done") /\ StopAt("join", "stopped") /\ UNCHANGED <<running, pc>>

Stopper == SawEmpty \/ ClearRunning \/ NotifyAll \/ JoinAll
Run(th) == Push(th) \/ TestRunning(th) \/ TakeTask(th) \/ TaskEnds(th)

Next ==
  \/ \E th \in Thread : Submit(th) \/ Run(th) \/ Spurious(th)
  \/ StopCalled \/ Stopper

Safety == Init /\ [][Next]_vars

\* Tasks return and the mutex is not held from a thread for ever, although
\* stop() spins on it.  No thread has to submit a task or to call stop().
Fairness ==
  /\ \A th \in Thread : WF_vars(Run(th))
  /\ WF_vars(Stopper)

Spec == Safety /\ Fairness
------------------------------------------------------------------------------
(* Properties *)

\* No worker sleeps through a task: while one waits in m_notEmpty, every task
\* in the queue has a worker on its way to the lock in takeTask().
TasksHaveTakers ==
  At("notEmpty") # {} => Len(queue) <= Cardinality(At("take"))

\* No submitter sleeps through a free place: while one waits in m_notFull,
\* every free place has a submitter on its way to the lock in runTask().
PlacesHavePushers ==
  At("notFull") # {} => MaxQueueSize - Len(queue) <= Cardinality(At("push"))

\* Whatever the workers interleave, a task is taken once at most.
TakenOnce ==
  /\ IsInjective(ran)
  /\ Range(ran) \cap (Range(queue) \cup todo) = {}

\* Workers wait in m_notFull for a place that only a worker can make, and no
\* worker is left: their tasks have submitted tasks to a full queue.
Stuck ==
  /\ Worker \subseteq At("notFull") \cup At("done")
  /\ Worker \cap At("notFull") # {}

\* stop() returns unless the workers are stuck: each is woken, sees m_running
\* and ends, whatever tasks are submitted meanwhile.
StopReturns == stop = "drain" ~> stop = "stopped" \/ Stuck

\* A queued task is taken, unless stop() comes first or the workers are stuck.
QueuedIsTaken ==
  \A t \in Task : t \in Range(queue) ~> t \in Range(ran) \/ ~running \/ Stuck

\* The comment at ThreadPool.cpp:30: at stop() all tasks have been taken.
AllTakenAtStop == stop = "stopped" => queue = <<>>
==============================================================================
