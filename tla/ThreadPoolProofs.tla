-------------------------- MODULE ThreadPoolProofs --------------------------
(***************************************************************************)
(* Theorems about ThreadPool, for any workers, submitters, tasks and size  *)
(* of the queue: type correctness, no lost notification of either          *)
(* condition variable, and that no task is taken twice.                    *)
(***************************************************************************)
EXTENDS ThreadPool, FiniteSetTheorems, SequenceTheorems, TLAPS

Places == {"idle", "test", "take", "notEmpty", "run", "push", "notFull", "done"}

\* The threads at a place, as pc says or as it will say.
In(f, place) == {th \in Thread : f[th] = place}

\* notify_one() moves one waiting thread, or none when there is none.
LEMMA NotifyMovesOne ==
  ASSUME NEW f \in [Thread -> Places], NEW from \in Places, NEW to \in Places,
         NEW g \in NotifyOne(f, from, to)
  PROVE  /\ g \in [Thread -> Places]
         /\ \/ In(f, from) = {} /\ g = f
            \/ \E u \in In(f, from) : g = [f EXCEPT ![u] = to]
BY DEF NotifyOne, In

\* The thread u goes from one place to another, and nobody else does.
Moves(f, u, from, to, g) ==
  /\ f \in [Thread -> Places] /\ u \in Thread /\ to \in Places
  /\ f[u] = from /\ from # to
  /\ g = [f EXCEPT ![u] = to]

\* That changes two sets of threads.
LEMMA MoveChangesTwo ==
  ASSUME NEW f, NEW u, NEW from, NEW to, NEW g, Moves(f, u, from, to, g)
  PROVE  /\ g \in [Thread -> Places]
         /\ In(g, to) = In(f, to) \cup {u} /\ u \notin In(f, to)
         /\ In(g, from) = In(f, from) \ {u} /\ u \in In(f, from)
         /\ \A p : p # from /\ p # to => In(g, p) = In(f, p)
BY DEF In, Moves

\* What a step of one thread does to the number of threads at a place.
LEMMA Counting ==
  ASSUME NEW S \in SUBSET Thread, NEW u \in Thread
  PROVE  /\ IsFiniteSet(S) /\ Cardinality(S) \in Nat
         /\ u \notin S => Cardinality(S \cup {u}) = Cardinality(S) + 1
         /\ u \in S => Cardinality(S \ {u}) = Cardinality(S) - 1
<1>1. IsFiniteSet(S)
  BY PoolAssumption, FS_Subset DEF Thread
<1>2. QED
  BY <1>1, FS_CardinalityType, FS_AddElement, FS_RemoveElement

------------------------------------------------------------------------------
\* The thread that pushes a task goes back to what it was doing.
After(th) == [pc EXCEPT ![th] = IF th \in Worker THEN "run" ELSE "idle"]

LEMMA QueueTypes ==
  ASSUME TypeOK
  PROVE  /\ queue # <<>> => /\ Head(queue) \in Task /\ Tail(queue) \in Seq(Task)
                            /\ Len(Tail(queue)) = Len(queue) - 1
         /\ \A t \in Task : /\ Append(queue, t) \in Seq(Task)
                            /\ Len(Append(queue, t)) = Len(queue) + 1
                            /\ Append(ran, t) \in Seq(Task)
         /\ Len(queue) \in Nat
BY HeadTailProperties, AppendProperties, LenProperties DEF TypeOK

LEMMA InitTypes == Init => TypeOK
BY PoolAssumption DEF Init, TypeOK, Thread

LEMMA NextTypes == TypeOK /\ [Next]_vars => TypeOK'
<1> SUFFICES ASSUME TypeOK, [Next]_vars PROVE TypeOK'
  OBVIOUS
<1>0. pc \in [Thread -> Places] /\ Len(queue) \in Nat /\ MaxQueueSize \in Nat
  BY PoolAssumption, QueueTypes DEF TypeOK, Places
<1>1. ASSUME NEW th \in Thread, Submit(th) PROVE TypeOK'
  BY <1>1 DEF TypeOK, Submit
<1>2. ASSUME NEW th \in Thread, Push(th) PROVE TypeOK'
  <2>1. CASE Len(queue) >= MaxQueueSize
    BY <1>2, <2>1 DEF TypeOK, Push
  <2>2. CASE ~(Len(queue) >= MaxQueueSize)
    <3>1. After(th) \in [Thread -> Places]
      BY <1>0 DEF After, Places
    <3>2. pc' \in NotifyOne(After(th), "notEmpty", "take")
      BY <1>2, <2>2 DEF Push, After
    <3>3. pc' \in [Thread -> Places]
      BY <3>1, <3>2, NotifyMovesOne DEF Places
    <3>4. queue' \in Seq(Task) /\ Len(queue') = Len(queue) + 1
      BY <1>2, <2>2, QueueTypes DEF Push, TypeOK
    <3>5. Len(queue') <= MaxQueueSize
      BY <1>0, <2>2, <3>4
    <3>6. QED
      BY <1>2, <3>3, <3>4, <3>5 DEF Push, TypeOK, Places
  <2>3. QED
    BY <2>1, <2>2
<1>3. ASSUME NEW th \in Thread, TestRunning(th) PROVE TypeOK'
  BY <1>3 DEF TypeOK, TestRunning
<1>4. ASSUME NEW th \in Thread, TakeTask(th) PROVE TypeOK'
  <2>1. CASE queue = <<>>
    BY <1>4, <2>1 DEF TypeOK, TakeTask
  <2>2. CASE queue # <<>>
    <3> DEFINE h == [pc EXCEPT ![th] = "run"]
    <3>1. h \in [Thread -> Places]
      BY <1>0 DEF Places
    <3>2. pc' \in NotifyOne(h, "notFull", "push")
      BY <1>4, <2>2 DEF TakeTask
    <3> HIDE DEF h
    <3>3. pc' \in [Thread -> Places]
      BY <3>1, <3>2, NotifyMovesOne DEF Places
    <3>4. /\ queue' \in Seq(Task) /\ Len(queue') = Len(queue) - 1
          /\ ran' \in Seq(Task)
      BY <1>4, <2>2, QueueTypes DEF TakeTask
    <3>5. Len(queue') <= MaxQueueSize
      BY <1>0, <3>4 DEF TypeOK
    <3>6. QED
      BY <1>4, <3>3, <3>4, <3>5 DEF TakeTask, TypeOK, Places
  <2>3. QED
    BY <2>1, <2>2
<1>5. ASSUME NEW th \in Thread, TaskEnds(th) PROVE TypeOK'
  BY <1>5 DEF TypeOK, TaskEnds
<1>6. ASSUME NEW th \in Thread, Spurious(th) PROVE TypeOK'
  BY <1>6 DEF TypeOK, Spurious
<1>7. CASE StopCalled \/ SawEmpty \/ ClearRunning \/ JoinAll
  BY <1>7 DEF TypeOK, StopCalled, SawEmpty, ClearRunning, JoinAll, StopAt
<1>8. CASE NotifyAll
  BY <1>8 DEF TypeOK, NotifyAll, StopAt
<1>9. CASE UNCHANGED vars
  BY <1>9 DEF TypeOK, vars
<1>10. QED
  BY <1>1, <1>2, <1>3, <1>4, <1>5, <1>6, <1>7, <1>8, <1>9 DEF Next, Run, Stopper

\* Every variable of the pool keeps its type, and the queue its size.
THEOREM TypeCorrect == Safety => []TypeOK
BY InitTypes, NextTypes, PTL DEF Safety
------------------------------------------------------------------------------
\* How many threads there are at a place, and what a step does to it.
Count(f, place) == Cardinality(In(f, place))

LEMMA CountIsNat ==
  ASSUME NEW f, NEW p
  PROVE  Count(f, p) \in Nat
<1>1. PICK u \in Thread : TRUE
  BY PoolAssumption DEF Thread
<1>2. In(f, p) \in SUBSET Thread
  BY DEF In
<1>3. QED
  BY <1>1, <1>2, Counting DEF Count

LEMMA CountMoves ==
  ASSUME NEW f, NEW u, NEW from, NEW to, NEW g, Moves(f, u, from, to, g)
  PROVE  /\ g \in [Thread -> Places]
         /\ Count(g, to) = Count(f, to) + 1
         /\ Count(g, from) = Count(f, from) - 1
         /\ In(g, from) \subseteq In(f, from)
         /\ \A p : p # from /\ p # to => Count(g, p) = Count(f, p) /\ In(g, p) = In(f, p)
<1>1. In(f, to) \in SUBSET Thread /\ In(f, from) \in SUBSET Thread
  BY DEF In
<1>2. u \in Thread
  BY DEF Moves
<1>3. /\ g \in [Thread -> Places]
      /\ In(g, to) = In(f, to) \cup {u} /\ u \notin In(f, to)
      /\ In(g, from) = In(f, from) \ {u} /\ u \in In(f, from)
      /\ \A p : p # from /\ p # to => In(g, p) = In(f, p)
  BY MoveChangesTwo
<1>4. Count(g, to) = Count(f, to) + 1
  BY <1>1, <1>2, <1>3, Counting DEF Count
<1>5. Count(g, from) = Count(f, from) - 1
  BY <1>1, <1>2, <1>3, Counting DEF Count
<1>6. QED
  BY <1>3, <1>4, <1>5 DEF Count

\* A notification takes one thread from those that wait, if any does.
LEMMA CountNotify ==
  ASSUME NEW f \in [Thread -> Places], NEW from \in Places, NEW to \in Places,
         from # to, NEW g \in NotifyOne(f, from, to)
  PROVE  /\ In(f, from) # {} => Count(g, to) = Count(f, to) + 1
         /\ \A p : p # from /\ p # to => Count(g, p) = Count(f, p) /\ In(g, p) = In(f, p)
         /\ In(g, from) \subseteq In(f, from)
<1>1. CASE In(f, from) = {} /\ g = f
  BY <1>1
<1>2. ASSUME NEW u \in In(f, from), g = [f EXCEPT ![u] = to]
      PROVE  /\ Count(g, to) = Count(f, to) + 1
             /\ \A p : p # from /\ p # to => Count(g, p) = Count(f, p) /\ In(g, p) = In(f, p)
             /\ In(g, from) \subseteq In(f, from)
  <2>1. Moves(f, u, from, to, g)
    BY <1>2 DEF In, Moves
  <2>2. QED
    BY <2>1, CountMoves
<1>3. QED
  BY <1>1, <1>2, NotifyMovesOne

------------------------------------------------------------------------------
\* TasksHaveTakers and PlacesHavePushers of a state with these pc and queue.
Enough(f, q) ==
  /\ In(f, "notEmpty") # {} => Len(q) <= Count(f, "take")
  /\ In(f, "notFull") # {} => MaxQueueSize - Len(q) <= Count(f, "push")

LEMMA EnoughMeans ==
  /\ Enough(pc, queue) <=> TasksHaveTakers /\ PlacesHavePushers
  /\ Enough(pc', queue') <=> TasksHaveTakers' /\ PlacesHavePushers'
BY DEF Enough, TasksHaveTakers, PlacesHavePushers, At, In, Count

LEMMA InitEnough == Init => Enough(pc, queue)
<1> SUFFICES ASSUME Init PROVE Enough(pc, queue)
  OBVIOUS
<1>1. In(pc, "notEmpty") = {} /\ In(pc, "notFull") = {}
  BY DEF Init, In
<1>2. QED
  BY <1>1 DEF Enough

LEMMA NextEnough == TypeOK /\ Enough(pc, queue) /\ [Next]_vars => Enough(pc', queue')
<1> SUFFICES ASSUME TypeOK, Enough(pc, queue), [Next]_vars
             PROVE  Enough(pc', queue')
  OBVIOUS
<1>0. /\ pc \in [Thread -> Places]
      /\ Len(queue) \in Nat /\ MaxQueueSize \in Nat /\ Len(queue) <= MaxQueueSize
      /\ \A f, p : Count(f, p) \in Nat
  BY PoolAssumption, QueueTypes, CountIsNat DEF TypeOK, Places
<1>1. ASSUME NEW th \in Thread, Submit(th) PROVE Enough(pc', queue')
  <2>1. queue' = queue /\ (Moves(pc, th, "idle", "push", pc') \/ Moves(pc, th, "run", "push", pc'))
    BY <1>0, <1>1 DEF Submit, Moves, Places
  <2>2. /\ In(pc', "notEmpty") = In(pc, "notEmpty") /\ In(pc', "notFull") = In(pc, "notFull")
        /\ Count(pc', "take") = Count(pc, "take")
        /\ Count(pc', "push") = Count(pc, "push") + 1
    BY <2>1, CountMoves
  <2>3. QED
    BY <1>0, <2>1, <2>2 DEF Enough
<1>2. ASSUME NEW th \in Thread, Push(th) PROVE Enough(pc', queue')
  <2>1. CASE Len(queue) >= MaxQueueSize
    <3>1. Moves(pc, th, "push", "notFull", pc') /\ queue' = queue
      BY <1>0, <1>2, <2>1 DEF Push, Moves, Places
    <3>2. /\ In(pc', "notEmpty") = In(pc, "notEmpty")
          /\ Count(pc', "take") = Count(pc, "take")
      BY <3>1, CountMoves
    <3>3. QED
      BY <1>0, <2>1, <3>1, <3>2 DEF Enough
  <2>2. CASE ~(Len(queue) >= MaxQueueSize)
    <3>1. \E to \in {"run", "idle"} : Moves(pc, th, "push", to, After(th))
      BY <1>0, <1>2 DEF Push, After, Moves, Places
    <3>2. /\ After(th) \in [Thread -> Places]
          /\ In(After(th), "notEmpty") = In(pc, "notEmpty")
          /\ In(After(th), "notFull") = In(pc, "notFull")
          /\ Count(After(th), "take") = Count(pc, "take")
          /\ Count(After(th), "push") = Count(pc, "push") - 1
      BY <3>1, CountMoves
    <3>3. pc' \in NotifyOne(After(th), "notEmpty", "take")
      BY <1>2, <2>2 DEF Push, After
    <3>4. /\ In(pc, "notEmpty") # {} => Count(pc', "take") = Count(pc, "take") + 1
          /\ Count(pc', "push") = Count(pc, "push") - 1
          /\ In(pc', "notFull") = In(pc, "notFull")
          /\ In(pc', "notEmpty") \subseteq In(pc, "notEmpty")
      BY <3>2, <3>3, CountNotify DEF Places
    <3>5. Len(queue') = Len(queue) + 1
      BY <1>2, <2>2, QueueTypes DEF Push, TypeOK
    <3>6. QED
      BY <1>0, <3>4, <3>5 DEF Enough
  <2>3. QED
    BY <2>1, <2>2
<1>3. ASSUME NEW th \in Thread, TestRunning(th) PROVE Enough(pc', queue')
  <2>1. queue' = queue /\ \E to \in {"take", "done"} : Moves(pc, th, "test", to, pc')
    BY <1>0, <1>3 DEF TestRunning, Moves, Places
  <2>2. /\ In(pc', "notEmpty") = In(pc, "notEmpty") /\ In(pc', "notFull") = In(pc, "notFull")
        /\ Count(pc', "take") = Count(pc, "take") \/ Count(pc', "take") = Count(pc, "take") + 1
        /\ Count(pc', "push") = Count(pc, "push")
    BY <2>1, CountMoves
  <2>3. QED
    BY <1>0, <2>1, <2>2 DEF Enough
<1>4. ASSUME NEW th \in Thread, TakeTask(th) PROVE Enough(pc', queue')
  <2>1. CASE queue = <<>>
    <3>1. queue' = queue /\ \E to \in {"notEmpty", "test"} : Moves(pc, th, "take", to, pc')
      BY <1>0, <1>4, <2>1 DEF TakeTask, Moves, Places
    <3>2. /\ In(pc', "notFull") = In(pc, "notFull")
          /\ Count(pc', "push") = Count(pc, "push")
      BY <3>1, CountMoves
    <3>3. Len(queue') = 0 /\ Len(queue) = 0
      BY <2>1, <3>1
    <3>4. QED
      BY <1>0, <3>2, <3>3 DEF Enough
  <2>2. CASE queue # <<>>
    <3> DEFINE h == [pc EXCEPT ![th] = "run"]
    <3>1. Moves(pc, th, "take", "run", h)
      BY <1>0, <1>4 DEF TakeTask, Moves, Places
    <3>2. pc' \in NotifyOne(h, "notFull", "push")
      BY <1>4, <2>2 DEF TakeTask
    <3> HIDE DEF h
    <3>3. /\ h \in [Thread -> Places]
          /\ In(h, "notEmpty") = In(pc, "notEmpty")
          /\ In(h, "notFull") = In(pc, "notFull")
          /\ Count(h, "take") = Count(pc, "take") - 1
          /\ Count(h, "push") = Count(pc, "push")
      BY <3>1, CountMoves
    <3>4. /\ In(pc, "notFull") # {} => Count(pc', "push") = Count(pc, "push") + 1
          /\ Count(pc', "take") = Count(pc, "take") - 1
          /\ In(pc', "notEmpty") = In(pc, "notEmpty")
          /\ In(pc', "notFull") \subseteq In(pc, "notFull")
      BY <3>2, <3>3, CountNotify DEF Places
    <3>5. Len(queue') = Len(queue) - 1
      BY <1>4, <2>2, QueueTypes DEF TakeTask
    <3>6. QED
      BY <1>0, <3>4, <3>5 DEF Enough
  <2>3. QED
    BY <2>1, <2>2
<1>5. ASSUME NEW th \in Thread, TaskEnds(th) PROVE Enough(pc', queue')
  <2>1. Moves(pc, th, "run", "test", pc') /\ queue' = queue
    BY <1>0, <1>5 DEF TaskEnds, Moves, Places
  <2>2. /\ In(pc', "notEmpty") = In(pc, "notEmpty") /\ In(pc', "notFull") = In(pc, "notFull")
        /\ Count(pc', "take") = Count(pc, "take")
        /\ Count(pc', "push") = Count(pc, "push")
    BY <2>1, CountMoves
  <2>3. QED
    BY <2>1, <2>2 DEF Enough
<1>6. ASSUME NEW th \in Thread, Spurious(th) PROVE Enough(pc', queue')
  <2>1. queue' = queue /\ (\/ Moves(pc, th, "notEmpty", "take", pc')
                           \/ Moves(pc, th, "notFull", "push", pc'))
    BY <1>0, <1>6 DEF Spurious, Moves, Places
  <2>2. /\ In(pc', "notEmpty") \subseteq In(pc, "notEmpty")
        /\ In(pc', "notFull") \subseteq In(pc, "notFull")
        /\ Count(pc', "take") = Count(pc, "take") \/ Count(pc', "take") = Count(pc, "take") + 1
        /\ Count(pc', "push") = Count(pc, "push") \/ Count(pc', "push") = Count(pc, "push") + 1
    BY <2>1, CountMoves
  <2>3. QED
    BY <1>0, <2>1, <2>2 DEF Enough
<1>7. CASE StopCalled \/ SawEmpty \/ ClearRunning \/ JoinAll
  BY <1>7 DEF StopCalled, SawEmpty, ClearRunning, JoinAll, StopAt
<1>8. CASE NotifyAll
  <2>1. /\ queue' = queue
        /\ pc' = [th \in Thread |-> IF pc[th] = "notEmpty" THEN "take" ELSE pc[th]]
    BY <1>8 DEF NotifyAll, StopAt
  <2>2. In(pc', "notEmpty") = {}
    BY <2>1 DEF In
  <2>3. In(pc', "notFull") = In(pc, "notFull") /\ In(pc', "push") = In(pc, "push")
    BY <2>1 DEF In
  <2>4. QED
    BY <2>1, <2>2, <2>3 DEF Enough, Count
<1>9. CASE UNCHANGED vars
  BY <1>9 DEF vars
<1>10. QED
  BY <1>1, <1>2, <1>3, <1>4, <1>5, <1>6, <1>7, <1>8, <1>9 DEF Next, Run, Stopper

\* Neither condition variable loses a notification: each one that notify_one()
\* gives away is made up for by a thread that is on its way to the lock.
LEMMA NobodySleeps == Safety => [](TasksHaveTakers /\ PlacesHavePushers)
<1> DEFINE Inv == TasksHaveTakers /\ PlacesHavePushers
<1>1. Init => Inv
  BY InitEnough, EnoughMeans
<1>2. TypeOK /\ Inv /\ [Next]_vars => Inv'
  BY NextEnough, EnoughMeans
<1> HIDE DEF Inv
<1>3. Safety => []Inv
  BY <1>1, <1>2, TypeCorrect, PTL DEF Safety
<1>4. Inv => TasksHaveTakers /\ PlacesHavePushers
  BY DEF Inv
<1>5. QED
  BY <1>3, <1>4, PTL

\* No worker sleeps through a task, with any number of workers and submitters:
\* notify_one() of m_notEmpty in runTask() is enough.
THEOREM NoTaskSleptThrough == Safety => []TasksHaveTakers
BY NobodySleeps, PTL

\* No submitter sleeps through a free place: notify_one() of m_notFull in
\* takeTask() is enough.
THEOREM NoPlaceSleptThrough == Safety => []PlacesHavePushers
BY NobodySleeps, PTL

------------------------------------------------------------------------------
\* The threads in runTask(), from its call to the push.
InRunTask(f) == {th \in Thread : f[th] \in {"push", "notFull"}}
Submitters == InRunTask(pc)

\* Every task is in one place: not submitted, handed over by one thread, at one
\* place in the queue, or taken.
Once ==
  /\ IsInjective(queue) /\ IsInjective(ran)
  /\ \A th, u \in Submitters : arg[th] = arg[u] => th = u
  /\ \A th \in Submitters : arg[th] \notin todo \cup Range(queue) \cup Range(ran)
  /\ Range(queue) \cap (todo \cup Range(ran)) = {}
  /\ Range(ran) \cap todo = {}

\* What Append and Tail do to a sequence of different elements.
LEMMA AppendOnce ==
  ASSUME NEW s \in Seq(Task), NEW t \in Task, IsInjective(s), t \notin Range(s)
  PROVE  IsInjective(Append(s, t)) /\ Range(Append(s, t)) = Range(s) \cup {t}
<1>1. /\ Len(s) \in Nat /\ DOMAIN s = 1 .. Len(s)
      /\ DOMAIN Append(s, t) = 1 .. Len(s) + 1
      /\ \A i \in 1 .. Len(s) : Append(s, t)[i] = s[i]
      /\ Append(s, t)[Len(s) + 1] = t
  BY AppendProperties, LenProperties
<1>2. QED
  BY <1>1 DEF IsInjective, Range

LEMMA TailOnce ==
  ASSUME NEW s \in Seq(Task), IsInjective(s), s # <<>>
  PROVE  /\ IsInjective(Tail(s)) /\ Head(s) \in Range(s)
         /\ Range(Tail(s)) = Range(s) \ {Head(s)}
<1>1. /\ Len(s) \in Nat \ {0} /\ DOMAIN s = 1 .. Len(s)
      /\ DOMAIN Tail(s) = 1 .. Len(s) - 1
      /\ \A i \in 1 .. Len(s) - 1 : Tail(s)[i] = s[i + 1]
      /\ Head(s) = s[1]
  BY HeadTailProperties, LenProperties, EmptySeq
<1>2. IsInjective(Tail(s)) /\ Head(s) \in Range(s)
  BY <1>1 DEF IsInjective, Range
<1>3. Range(Tail(s)) \subseteq Range(s) \ {Head(s)}
  BY <1>1 DEF IsInjective, Range
<1>4. ASSUME NEW i \in DOMAIN s, s[i] # Head(s) PROVE s[i] \in Range(Tail(s))
  <2>1. i - 1 \in DOMAIN Tail(s) /\ Tail(s)[i - 1] = s[i]
    BY <1>1, <1>4
  <2>2. QED
    BY <2>1 DEF Range
<1>5. QED
  BY <1>2, <1>3, <1>4 DEF Range

\* A notification takes nobody into runTask() or out of it.
LEMMA NotifyKeeps ==
  ASSUME NEW f \in [Thread -> Places], NEW from, NEW to, NEW g \in NotifyOne(f, from, to),
         (from = "notEmpty" /\ to = "take") \/ (from = "notFull" /\ to = "push")
  PROVE  InRunTask(g) = InRunTask(f)
BY DEF NotifyOne, InRunTask

LEMMA InitOnce == Init => Once
<1> SUFFICES ASSUME Init PROVE Once
  OBVIOUS
<1>1. Submitters = {}
  BY DEF Init, Submitters, InRunTask
<1>2. queue = <<>> /\ ran = <<>>
  BY DEF Init
<1>3. /\ IsInjective(queue) /\ Range(queue) = {}
      /\ IsInjective(ran) /\ Range(ran) = {}
  BY <1>2 DEF IsInjective, Range
<1>4. QED
  BY <1>1, <1>3 DEF Once

LEMMA NextOnce == TypeOK /\ Once /\ [Next]_vars => Once'
<1> SUFFICES ASSUME TypeOK, Once, [Next]_vars PROVE Once'
  OBVIOUS
<1>0. pc \in [Thread -> Places] /\ arg \in [Thread -> Task] /\ queue \in Seq(Task) /\ ran \in Seq(Task)
  BY DEF TypeOK, Places
\* Most steps neither move a task nor enter or leave runTask().
<1>k. ASSUME Submitters' = Submitters, UNCHANGED <<queue, arg, todo, ran>>
      PROVE  Once'
  BY <1>k DEF Once
<1>1. ASSUME NEW th \in Thread, Submit(th) PROVE Once'
  <2>1. PICK t \in todo : arg' = [arg EXCEPT ![th] = t] /\ todo' = todo \ {t}
    BY <1>1 DEF Submit
  <2>2. Submitters' = Submitters \cup {th} /\ th \notin Submitters
    BY <1>0, <1>1 DEF Submit, Submitters, InRunTask
  <2>3. Submitters \subseteq Thread
    BY DEF Submitters, InRunTask
  <2>4. arg'[th] = t /\ \A u \in Submitters : arg'[u] = arg[u]
    BY <1>0, <2>1, <2>2, <2>3
  <2>5. UNCHANGED <<queue, ran>>
    BY <1>1 DEF Submit
  <2>6. t \notin Range(queue) \cup Range(ran) /\ \A u \in Submitters : arg[u] # t
    BY DEF Once
  <2>7. \A u, v \in Submitters' : arg'[u] = arg'[v] => u = v
    BY <2>2, <2>4, <2>6 DEF Once
  <2>8. \A u \in Submitters' : arg'[u] \notin todo' \cup Range(queue) \cup Range(ran)
    BY <2>1, <2>2, <2>4, <2>6 DEF Once
  <2>9. QED
    BY <2>1, <2>5, <2>7, <2>8 DEF Once
<1>2. ASSUME NEW th \in Thread, Push(th) PROVE Once'
  <2>0. UNCHANGED <<arg, todo, ran>>
    BY <1>2 DEF Push
  <2>1. CASE Len(queue) >= MaxQueueSize
    <3>1. Submitters' = Submitters /\ queue' = queue
      BY <1>0, <1>2, <2>1 DEF Push, Submitters, InRunTask
    <3>2. QED
      BY <1>k, <2>0, <3>1
  <2>2. CASE ~(Len(queue) >= MaxQueueSize)
    <3>1. After(th) \in [Thread -> Places]
      BY <1>0 DEF After, Places
    <3>2. pc' \in NotifyOne(After(th), "notEmpty", "take")
      BY <1>2, <2>2 DEF Push, After
    <3>3. InRunTask(pc') = InRunTask(After(th))
      BY <3>1, <3>2, NotifyKeeps
    <3>4. th \in Submitters /\ InRunTask(After(th)) = Submitters \ {th}
      BY <1>0, <1>2 DEF Push, After, Submitters, InRunTask
    <3>5. Submitters' = Submitters \ {th}
      BY <3>3, <3>4 DEF Submitters
    <3>6. arg[th] \in Task /\ queue' = Append(queue, arg[th])
      BY <1>0, <1>2, <2>2 DEF Push
    <3>7. IsInjective(queue') /\ Range(queue') = Range(queue) \cup {arg[th]}
      BY <1>0, <3>4, <3>6, AppendOnce DEF Once
    <3>8. \A u \in Submitters' : arg[u] # arg[th] /\ arg[u] \notin Range(queue')
      BY <3>4, <3>5, <3>7 DEF Once
    <3>9. QED
      BY <2>0, <3>4, <3>5, <3>7, <3>8 DEF Once
  <2>3. QED
    BY <2>1, <2>2
<1>3. ASSUME NEW th \in Thread, TestRunning(th) PROVE Once'
  <2>1. Submitters' = Submitters
    BY <1>0, <1>3 DEF TestRunning, Submitters, InRunTask
  <2>2. QED
    BY <1>k, <1>3, <2>1 DEF TestRunning
<1>4. ASSUME NEW th \in Thread, TakeTask(th) PROVE Once'
  <2>0. UNCHANGED <<arg, todo>>
    BY <1>4 DEF TakeTask
  <2>1. CASE queue = <<>>
    <3>1. Submitters' = Submitters /\ UNCHANGED <<queue, ran>>
      BY <1>0, <1>4, <2>1 DEF TakeTask, Submitters, InRunTask
    <3>2. QED
      BY <1>k, <2>0, <3>1
  <2>2. CASE queue # <<>>
    <3> DEFINE h == [pc EXCEPT ![th] = "run"]
    <3>1. h \in [Thread -> Places] /\ InRunTask(h) = Submitters
      BY <1>0, <1>4 DEF TakeTask, Places, Submitters, InRunTask
    <3>2. pc' \in NotifyOne(h, "notFull", "push")
      BY <1>4, <2>2 DEF TakeTask
    <3> HIDE DEF h
    <3>3. Submitters' = Submitters
      BY <3>1, <3>2, NotifyKeeps DEF Submitters
    <3>4. queue' = Tail(queue) /\ ran' = Append(ran, Head(queue)) /\ Head(queue) \in Task
      BY <1>4, <2>2, QueueTypes DEF TakeTask
    <3>5. /\ IsInjective(queue') /\ Head(queue) \in Range(queue)
          /\ Range(queue') = Range(queue) \ {Head(queue)}
      BY <1>0, <2>2, <3>4, TailOnce DEF Once
    <3>6. IsInjective(ran') /\ Range(ran') = Range(ran) \cup {Head(queue)}
      BY <1>0, <3>4, <3>5, AppendOnce DEF Once
    <3>7. QED
      BY <2>0, <3>3, <3>5, <3>6 DEF Once
  <2>3. QED
    BY <2>1, <2>2
<1>5. ASSUME NEW th \in Thread, TaskEnds(th) PROVE Once'
  <2>1. Submitters' = Submitters
    BY <1>0, <1>5 DEF TaskEnds, Submitters, InRunTask
  <2>2. QED
    BY <1>k, <1>5, <2>1 DEF TaskEnds
<1>6. ASSUME NEW th \in Thread, Spurious(th) PROVE Once'
  <2>1. Submitters' = Submitters
    BY <1>0, <1>6 DEF Spurious, Submitters, InRunTask
  <2>2. QED
    BY <1>k, <1>6, <2>1 DEF Spurious
<1>7. CASE StopCalled \/ SawEmpty \/ ClearRunning \/ JoinAll
  <2>1. UNCHANGED <<pc, queue, arg, todo, ran>>
    BY <1>7 DEF StopCalled, SawEmpty, ClearRunning, JoinAll, StopAt
  <2>2. QED
    BY <1>k, <2>1 DEF Submitters
<1>8. CASE NotifyAll
  <2>1. Submitters' = Submitters
    BY <1>8 DEF NotifyAll, Submitters, InRunTask
  <2>2. QED
    BY <1>k, <1>8, <2>1 DEF NotifyAll, StopAt
<1>9. CASE UNCHANGED vars
  BY <1>k, <1>9 DEF vars, Submitters
<1>10. QED
  BY <1>1, <1>2, <1>3, <1>4, <1>5, <1>6, <1>7, <1>8, <1>9 DEF Next, Run, Stopper

\* A task that is handed to the pool once is taken once at most, whatever
\* threads submit and take at the same time, and whenever the pool is stopped.
THEOREM TaskTakenOnce == Safety => []TakenOnce
<1>1. Safety => []Once
  BY TypeCorrect, InitOnce, NextOnce, PTL DEF Safety
<1>2. Once => TakenOnce
  BY DEF Once, TakenOnce
<1>3. QED
  BY <1>1, <1>2, PTL
==============================================================================
