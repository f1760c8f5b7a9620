--------------------------- MODULE EventLoopProofs ---------------------------
(***************************************************************************)
(* Theorems about EventLoop, for any threads, channels, closures and       *)
(* bounds: type correctness, no lost wakeup, and that every step of the    *)
(* loop is a step of TaskQueue.                                            *)
(***************************************************************************)
EXTENDS EventLoop, SequenceTheorems, TLAPS

\* What the actions of the loop are made of.
LEMMA PostType ==
  ASSUME NEW s \in Posts, TypeOK, Post(s)
  PROVE  pendingTasks' \in Seq(Task) /\ eventfd' \in BOOLEAN
BY LoopAssumption DEF TypeOK, Post

\* Every variable of the loop keeps its type.
THEOREM TypeCorrect == Safety => []TypeOK
<1>1. Init => TypeOK
  BY LoopAssumption DEF Init, TypeOK
<1>2. TypeOK /\ [Next]_vars => TypeOK'
  <2> SUFFICES ASSUME TypeOK, [Next]_vars PROVE TypeOK'
    OBVIOUS
  <2> USE DEF TypeOK
  <2>1. CASE Poll /\ UNCHANGED ready
    <3>1. PICK S \in SUBSET Readable :
            /\ (S = Readable /\ Cardinality(S) <= maxEvents) \/ Cardinality(S) = maxEvents
            /\ active' = S
            /\ maxEvents' = Grow(maxEvents, Cardinality(S))
      BY <2>1 DEF Poll
    <3>2. active' \subseteq Channel \cup {Wakeup}
      BY <3>1 DEF Readable
    <3>3. maxEvents' \in Nat \ {0}
      BY <3>1 DEF Grow
    <3>4. QED
      BY <2>1, <3>2, <3>3 DEF Poll
  <2>2. CASE HandleWakeup /\ UNCHANGED ready
    BY <2>2 DEF HandleWakeup
  <2>3. CASE SwapTasks /\ UNCHANGED ready
    BY <2>3 DEF SwapTasks
  <2>4. CASE LoopTest /\ UNCHANGED ready
    BY <2>4 DEF LoopTest
  <2>5. CASE RunTask
    <3>1. PICK s \in Posts : Post(s)
      BY <2>5 DEF RunTask, Callback
    <3>2. tasks' \in Seq(Task)
      BY <2>5, HeadTailProperties DEF RunTask, TakeTask
    <3>3. QED
      BY <2>5, <3>1, <3>2, PostType DEF RunTask, TakeTask, Callback
  <2>6. ASSUME NEW c \in Channel, HandlerReturns(c), UNCHANGED ready
        PROVE  TypeOK'
    BY <2>6 DEF HandlerReturns
  <2>7. CASE PollInterrupted /\ UNCHANGED ready
    BY <2>7 DEF PollInterrupted
  <2>8. ASSUME NEW c \in Channel, HandleEvents(c)
        PROVE  TypeOK'
    <3>1. PICK s \in Posts : Post(s)
      BY <2>8 DEF HandleEvents, Callback
    <3>2. QED
      BY <2>8, <3>1, PostType DEF HandleEvents, Callback
  <2>9. ASSUME NEW c \in Channel, Arrive(c)
        PROVE  TypeOK'
    BY <2>9 DEF Arrive
  <2>10. ASSUME NEW th \in Thread, NEW t \in Task, QueueInLoop(th, t), UNCHANGED ready
         PROVE  TypeOK'
    BY <2>10 DEF QueueInLoop
  <2>11. ASSUME NEW th \in Thread, Quit(th), UNCHANGED ready
         PROVE  TypeOK'
    BY <2>11 DEF Quit
  <2>12. ASSUME NEW th \in Thread, WriteWakeup(th), UNCHANGED ready
         PROVE  TypeOK'
    BY <2>12 DEF WriteWakeup
  <2>13. CASE UNCHANGED vars
    BY <2>13 DEF vars
  <2>14. QED
    BY <2>1, <2>2, <2>3, <2>4, <2>5, <2>6, <2>7, <2>8, <2>9, <2>10, <2>11,
       <2>12, <2>13 DEF Next, LoopThread, OtherThread
<1>3. QED
  BY <1>1, <1>2, PTL DEF Safety

------------------------------------------------------------------------------
\* The inductive invariant: with the types and the wakeup, a batch is left
\* over only while it runs (or when loop() has returned).
LoopInv ==
  /\ TypeOK
  /\ NoLostWakeup
  /\ pc # "run" => tasks = <<>>

LEMMA LoopInvInductive == Safety => []LoopInv
<1>1. Init => LoopInv
  BY LoopAssumption DEF Init, LoopInv, NoLostWakeup, TypeOK
<1>2. LoopInv /\ TypeOK' /\ [Next]_vars => LoopInv'
  <2> SUFFICES ASSUME LoopInv, TypeOK', [Next]_vars
               PROVE  NoLostWakeup' /\ (pc # "run" => tasks = <<>>)'
    BY DEF LoopInv
  <2> USE DEF LoopInv, NoLostWakeup, WakeupComing
  <2>1. CASE Poll /\ UNCHANGED ready
    BY <2>1 DEF Poll
  <2>2. CASE HandleWakeup /\ UNCHANGED ready
    BY <2>2 DEF HandleWakeup
  <2>3. CASE SwapTasks /\ UNCHANGED ready
    BY <2>3 DEF SwapTasks
  <2>4. CASE LoopTest /\ UNCHANGED ready
    BY <2>4 DEF LoopTest
  <2>5. CASE RunTask
    <3>1. PICK s \in Posts : Post(s)
      BY <2>5 DEF RunTask, Callback
    <3>2. s = <<>> => pendingTasks' = pendingTasks
      BY <3>1, ConcatEmptySeq DEF Post, TypeOK
    <3>3. QED
      BY <2>5, <3>1, <3>2 DEF RunTask, TakeTask, Post
  <2>6. ASSUME NEW c \in Channel, HandlerReturns(c), UNCHANGED ready
        PROVE  NoLostWakeup' /\ (pc # "run" => tasks = <<>>)'
    BY <2>6 DEF HandlerReturns
  <2>7. CASE PollInterrupted /\ UNCHANGED ready
    BY <2>7 DEF PollInterrupted
  <2>8. ASSUME NEW c \in Channel, HandleEvents(c)
        PROVE  NoLostWakeup' /\ (pc # "run" => tasks = <<>>)'
    BY <2>8 DEF HandleEvents
  <2>9. ASSUME NEW c \in Channel, Arrive(c)
        PROVE  NoLostWakeup' /\ (pc # "run" => tasks = <<>>)'
    BY <2>9 DEF Arrive
  <2>10. ASSUME NEW th \in Thread, NEW t \in Task, QueueInLoop(th, t), UNCHANGED ready
         PROVE  NoLostWakeup' /\ (pc # "run" => tasks = <<>>)'
    BY <2>10 DEF QueueInLoop, TypeOK
  <2>11. ASSUME NEW th \in Thread, Quit(th), UNCHANGED ready
         PROVE  NoLostWakeup' /\ (pc # "run" => tasks = <<>>)'
    BY <2>11 DEF Quit, TypeOK
  <2>12. ASSUME NEW th \in Thread, WriteWakeup(th), UNCHANGED ready
         PROVE  NoLostWakeup' /\ (pc # "run" => tasks = <<>>)'
    BY <2>12 DEF WriteWakeup
  <2>13. CASE UNCHANGED vars
    BY <2>13 DEF vars
  <2>14. QED
    BY <2>1, <2>2, <2>3, <2>4, <2>5, <2>6, <2>7, <2>8, <2>9, <2>10, <2>11,
       <2>12, <2>13 DEF Next, LoopThread, OtherThread
<1>3. QED
  BY <1>1, <1>2, TypeCorrect, PTL DEF Safety

\* The loop never sleeps on a queued closure or on quit().
THEOREM WakeupNeverLost == Safety => []NoLostWakeup
BY LoopInvInductive, PTL DEF LoopInv

------------------------------------------------------------------------------
\* The front of a queue kept in two parts, of which the first is not empty.
LEMMA TailOfConcat ==
  ASSUME NEW p \in Seq(Task), NEW q \in Seq(Task), p # <<>>
  PROVE  p \o q # <<>> /\ Tail(p \o q) = Tail(p) \o q
<1>1. p \o q \in Seq(Task) /\ Len(p \o q) = Len(p) + Len(q) /\ Len(p) \in Nat \ {0}
  BY ConcatProperties, EmptySeq
<1>2. p \o q # <<>>
  BY <1>1, EmptySeq
<1>3. /\ Tail(p) \in Seq(Task) /\ Len(Tail(p)) = Len(p) - 1
      /\ \A i \in 1 .. Len(Tail(p)) : Tail(p)[i] = p[i+1]
  BY HeadTailProperties
<1>4. /\ Tail(p \o q) \in Seq(Task) /\ Len(Tail(p \o q)) = Len(p) + Len(q) - 1
      /\ \A i \in 1 .. Len(p) + Len(q) - 1 : Tail(p \o q)[i] = (p \o q)[i+1]
  BY <1>1, <1>2, HeadTailProperties
<1>5. /\ Tail(p) \o q \in Seq(Task) /\ Len(Tail(p) \o q) = Len(p) - 1 + Len(q)
      /\ \A i \in 1 .. Len(p) - 1 + Len(q) :
           (Tail(p) \o q)[i] = IF i <= Len(p) - 1 THEN Tail(p)[i] ELSE q[i - (Len(p) - 1)]
  BY <1>3, ConcatProperties
<1>6. \A i \in 1 .. Len(p) + Len(q) :
        (p \o q)[i] = IF i <= Len(p) THEN p[i] ELSE q[i - Len(p)]
  BY ConcatProperties
<1>7. ASSUME NEW i \in 1 .. Len(p) + Len(q) - 1
      PROVE  Tail(p \o q)[i] = (Tail(p) \o q)[i]
  <2>1. Len(p) \in Nat /\ Len(q) \in Nat
    BY LenProperties
  <2>2. CASE i <= Len(p) - 1
    BY <1>1, <1>3, <1>4, <1>5, <1>6, <2>1, <2>2
  <2>3. CASE i > Len(p) - 1
    <3>1. i + 1 \in 1 .. Len(p) + Len(q) /\ ~(i + 1 <= Len(p))
          /\ i + 1 - Len(p) = i - (Len(p) - 1)
      BY <1>1, <2>1, <2>3
    <3>2. (p \o q)[i + 1] = q[i + 1 - Len(p)]
      BY <1>6, <3>1
    <3>3. i \in 1 .. Len(p) - 1 + Len(q) /\ ~(i <= Len(p) - 1)
      BY <1>1, <2>1, <2>3
    <3>4. (Tail(p) \o q)[i] = q[i - (Len(p) - 1)]
      BY <1>5, <3>3
    <3>5. QED
      BY <1>4, <3>1, <3>2, <3>4
  <2>4. QED
    BY <1>1, <2>1, <2>2, <2>3
<1>8. Len(Tail(p \o q)) = Len(Tail(p) \o q)
  BY <1>1, <1>4, <1>5, LenProperties
<1>9. \A i \in 1 .. Len(Tail(p \o q)) : Tail(p \o q)[i] = (Tail(p) \o q)[i]
  BY <1>4, <1>7
<1>10. QED
  BY <1>2, <1>4, <1>5, <1>8, <1>9, SeqEqual

\* ConcatAssociative, for closures.
LEMMA ThreeInARow ==
  ASSUME NEW p \in Seq(Task), NEW q \in Seq(Task), NEW r \in Seq(Task)
  PROVE  (p \o q) \o r = p \o (q \o r)
BY ConcatAssociative

\* Running the front of the batch and queueing s behind the pending closures.
LEMMA FrontRuns ==
  ASSUME NEW s \in Seq(Task), tasks \in Seq(Task), tasks' \in Seq(Task),
         pendingTasks \in Seq(Task), tasks # <<>>, tasks' = Tail(tasks),
         pendingTasks' = pendingTasks \o s
  PROVE  /\ tasks' \o pendingTasks' = Tail(tasks \o pendingTasks) \o s
         /\ tasks \o pendingTasks # <<>>
<1>1. tasks \o pendingTasks # <<>> /\ Tail(tasks \o pendingTasks) = tasks' \o pendingTasks
  BY TailOfConcat
<1>2. (tasks' \o pendingTasks) \o s = tasks' \o (pendingTasks \o s)
  BY ThreeInARow, Zenon
<1>3. tasks' \o pendingTasks' = (tasks' \o pendingTasks) \o s
  BY <1>2
<1>4. QED
  BY <1>1, <1>3, Zenon

LEMMA QueueInitial == Init => Queue!Init
BY ConcatEmptySeq, EmptySeq DEF Init, Queue!Init

LEMMA QueueStep == LoopInv /\ TypeOK' /\ [Next]_vars => [Queue!Next]_(Queue!vars)
<1> SUFFICES ASSUME LoopInv, TypeOK', [Next]_vars
             PROVE  Queue!Next \/ UNCHANGED Queue!vars
  BY DEF Queue!vars
<1> USE DEF LoopInv, TypeOK
\* The steps that leave both queues alone and do not leave loop().
<1>s. ASSUME pendingTasks' = pendingTasks, tasks' = tasks,
             pc' = "exited" <=> pc = "exited"
      PROVE  UNCHANGED Queue!vars
  BY <1>s DEF Queue!vars
<1>1. CASE Poll /\ UNCHANGED ready
  BY <1>1, <1>s DEF Poll
<1>2. CASE HandleWakeup /\ UNCHANGED ready
  BY <1>2, <1>s DEF HandleWakeup
<1>3. CASE SwapTasks /\ UNCHANGED ready
  <2>1. tasks \o pendingTasks = tasks' \o pendingTasks'
    BY <1>3, ConcatEmptySeq DEF SwapTasks
  <2>2. QED
    BY <1>3, <2>1 DEF SwapTasks, Queue!vars
<1>4. CASE LoopTest /\ UNCHANGED ready
  BY <1>4 DEF LoopTest, Queue!Next, Queue!Stop, Queue!vars
<1>5. CASE RunTask
  <2>1. PICK s \in Posts : Post(s)
    BY <1>5 DEF RunTask, Callback
  <2>2. tasks' \o pendingTasks' = Tail(tasks \o pendingTasks) \o s
        /\ tasks \o pendingTasks # <<>>
    <3>1. /\ tasks # <<>> /\ tasks' = Tail(tasks)
          /\ pendingTasks' = pendingTasks \o s
      BY <1>5, <2>1 DEF RunTask, TakeTask, Post
    <3>2. tasks \in Seq(Task) /\ tasks' \in Seq(Task) /\ pendingTasks \in Seq(Task)
      OBVIOUS
    <3>3. s \in Seq(Task)
      BY LoopAssumption
    <3>4. QED
      BY <3>1, <3>2, <3>3, FrontRuns
  <2>3. QED
    BY <1>5, <2>2 DEF RunTask, TakeTask, Queue!Next, Queue!Run
<1>6. ASSUME NEW c \in Channel, HandlerReturns(c), UNCHANGED ready
      PROVE  Queue!Next \/ UNCHANGED Queue!vars
  BY <1>6, <1>s DEF HandlerReturns
<1>7. CASE PollInterrupted /\ UNCHANGED ready
  BY <1>7, <1>s DEF PollInterrupted
<1>8. ASSUME NEW c \in Channel, HandleEvents(c)
      PROVE  Queue!Next \/ UNCHANGED Queue!vars
  <2>1. PICK s \in Posts : Post(s)
    BY <1>8 DEF HandleEvents, Callback
  <2>2. tasks' \o pendingTasks' = (tasks \o pendingTasks) \o s
    BY <1>8, <2>1, LoopAssumption, ConcatAssociative DEF HandleEvents, Post
  <2>3. QED
    BY <1>8, <2>2 DEF HandleEvents, Queue!Next, Queue!Enqueue
<1>9. ASSUME NEW c \in Channel, Arrive(c)
      PROVE  Queue!Next \/ UNCHANGED Queue!vars
  BY <1>9, <1>s DEF Arrive
<1>10. ASSUME NEW th \in Thread, NEW t \in Task, QueueInLoop(th, t), UNCHANGED ready
       PROVE  Queue!Next \/ UNCHANGED Queue!vars
  <2>1. <<t>> \in Seq(Task) /\ pendingTasks' = pendingTasks \o <<t>>
    BY <1>10, AppendIsConcat DEF QueueInLoop
  <2>2. tasks' \o pendingTasks' = (tasks \o pendingTasks) \o <<t>>
    BY <1>10, <2>1, ConcatAssociative DEF QueueInLoop
  <2>3. QED
    BY <1>10, <2>2 DEF QueueInLoop, Queue!Next, Queue!Enqueue
<1>11. ASSUME NEW th \in Thread, Quit(th), UNCHANGED ready
       PROVE  Queue!Next \/ UNCHANGED Queue!vars
  BY <1>11, <1>s DEF Quit
<1>12. ASSUME NEW th \in Thread, WriteWakeup(th), UNCHANGED ready
       PROVE  Queue!Next \/ UNCHANGED Queue!vars
  BY <1>12, <1>s DEF WriteWakeup
<1>13. CASE UNCHANGED vars
  BY <1>13, <1>s DEF vars
<1>14. QED
  BY <1>1, <1>2, <1>3, <1>4, <1>5, <1>6, <1>7, <1>8, <1>9, <1>10, <1>11,
     <1>12, <1>13 DEF Next, LoopThread, OtherThread

\* The loop implements TaskQueue: its closures run at most once each and in
\* the order in which queueInLoop() was called.
THEOREM ImplementsTaskQueue == Safety => RunsTasksInOrder
<1>1. Safety => [](LoopInv /\ TypeOK)
  BY LoopInvInductive, TypeCorrect, PTL
<1>2. QED
  BY <1>1, QueueInitial, QueueStep, PTL DEF Safety, RunsTasksInOrder, Queue!Spec
==============================================================================
