--------------------------- MODULE TCPServerProofs ---------------------------
(***************************************************************************)
(* Theorems about TCPServer, for any number of loops, of other threads and *)
(* of connections.                                                         *)
(***************************************************************************)
EXTENDS TCPServer, SequenceTheorems, TLAPS

LEMMA ThreadFacts ==
  /\ Base \in LoopThread /\ Worker \subseteq LoopThread /\ Side \subseteq LoopThread
  /\ Base \notin Worker /\ Base \notin Side /\ Worker \cap Side = {}
  /\ Server \subseteq LoopThread /\ Base \in Server /\ Worker \subseteq Server
<1>1. 0 \notin 1 .. ThreadNum - 1
  BY ServerAssumption
<1>2. Base \notin Worker
  BY <1>1 DEF Base, Worker
<1>3. QED
  BY <1>2, ServerAssumption DEF Side, Server

------------------------------------------------------------------------------
(* The inductive invariant *)

Stopping == {"wakeup", "join", "joined"}

\* The part of TypeOK about the threads: no reason for a failure is "quit
\* twice", because a loop other than the base loop is only quit by the one that
\* stops it, who goes on to join its thread.
ThreadsOK ==
  /\ LoopTypeOK
  /\ \A t \in quit \ {Base} : caller[t] \in Stopping
  /\ failed \in {"none", "no loop", "dead loop", "never listened", "open connection", "accept4"}

\* A thread that is about to notify has stored its loop.
Stored ==
  \A t \in Side : place[t] = "notify" \/ caller[t] = "woken" => t \in pointer

\* start() queues one closure at most.
StartOK ==
  /\ pc \in {"before", "server", "starting", "looping", "quit", "join", "after", "end"}
  /\ started \in BOOLEAN /\ calls \subseteq Starter
  /\ startTasks \in 0 .. 1
  /\ startTasks # 0 => started

ConnOK ==
  /\ listening \subseteq Server /\ watching \subseteq listening
  /\ fresh \subseteq Conn
  /\ backlog \in [Server -> Seq(Conn)]
  /\ connections \in [Server -> SUBSET Conn]

ServerInv == ThreadsOK /\ Stored /\ StartOK /\ ConnOK

LEMMA InitServerInv == Init => ServerInv
<1> SUFFICES ASSUME Init PROVE ServerInv
  OBVIOUS
<1>1. ThreadsOK /\ Stored
  BY ThreadFacts DEF Init, LoopInit, ThreadsOK, LoopTypeOK, Callers, Places, Stored
<1>2. StartOK
  <2>1. started \in BOOLEAN
    BY Zenon DEF Init
  <2>2. startTasks = 0
    BY DEF Init
  <2>3. calls \subseteq Starter /\ pc = "before"
    BY DEF Init
  <2>4. QED
    BY <2>1, <2>2, <2>3 DEF StartOK
<1>3. ConnOK
  BY EmptySeq DEF Init, ConnOK
<1>4. QED
  BY <1>1, <1>2, <1>3 DEF ServerInv

------------------------------------------------------------------------------
(* What a step does to the threads *)

PlaceMoves ==
  \/ place' = place
  \/ \E t \in LoopThread, to \in Places : Goes(t, to) /\ (to = "notify" => t \in pointer')

\* A thread of EventLoopThread is only woken by its own notification, and
\* nobody who stops a loop starts it again.
CallerMoves ==
  \/ caller' = caller
  \/ \E t \in LoopThread, to \in Callers :
       /\ CallerGoes(t, to)
       /\ to = "woken" /\ t \in Side => place[t] = "notify"
       /\ caller[t] \in Stopping => to \in Stopping

QuitMoves ==
  \/ quit' \in {quit, quit \cup {Base}}
  \/ \E t \in LoopThread \ {Base} :
       caller[t] = "returned" /\ CallerGoes(t, "wakeup") /\ quit' = quit \cup {t}

SetsMove ==
  /\ pointer \subseteq pointer' /\ pointer' \subseteq LoopThread
  /\ eventfd' \subseteq LoopThread /\ missed' \subseteq LoopThread

FailedMoves ==
  failed' \in {failed, "no loop", "dead loop", "never listened", "open connection", "accept4"}

Moves == PlaceMoves /\ CallerMoves /\ QuitMoves /\ SetsMove /\ FailedMoves

LEMMA LoopVarsKept ==
  ASSUME ThreadsOK, UNCHANGED loopVars
  PROVE  Moves
BY DEF loopVars, Moves, PlaceMoves, CallerMoves, QuitMoves, SetsMove, FailedMoves, ThreadsOK, LoopTypeOK

\* The steps of a thread with a loop, and of the one that starts and stops it.
LEMMA LoopSteps ==
  ASSUME ThreadsOK, NEW t \in LoopThread,
         \/ StoreLoop(t) \/ LoopTest(t) \/ Wake(t) \/ EndThread(t)
         \/ Sleep(t) \/ Spurious(t) \/ Return(t)
  PROVE  Moves
<1>1. CASE StoreLoop(t)
  BY <1>1 DEF StoreLoop, Goes, Places, Moves, PlaceMoves, CallerMoves, QuitMoves, SetsMove,
              FailedMoves, ThreadsOK, LoopTypeOK
<1>2. CASE LoopTest(t) \/ Wake(t) \/ EndThread(t)
  <2>1. \E to \in {"left", "poll", "test", "dead"} : Goes(t, to)
    BY <1>2 DEF LoopTest, Wake, EndThread, LoopEnds
  <2>2. PlaceMoves
    BY <2>1 DEF PlaceMoves, Places
  <2>3. UNCHANGED <<caller, pointer, quit, missed, failed>> /\ eventfd' \subseteq eventfd
    BY <1>2 DEF LoopTest, Wake, EndThread, LoopEnds
  <2>4. QED
    BY <2>2, <2>3 DEF Moves, CallerMoves, QuitMoves, SetsMove, FailedMoves, ThreadsOK, LoopTypeOK
<1>3. CASE Sleep(t) \/ Spurious(t) \/ Return(t)
  <2>1. \E to \in {"asleep", "spurious", "returned"} :
          CallerGoes(t, to) /\ caller[t] \in {"sleepy", "asleep", "woken", "spurious"}
    BY <1>3 DEF Sleep, Spurious, Return
  <2>2. CallerMoves
    BY <2>1 DEF CallerMoves, Callers, Stopping
  <2>3. UNCHANGED <<place, pointer, quit, eventfd, missed>> /\ failed' \in {failed, "no loop"}
    BY <1>3 DEF Sleep, Spurious, Return
  <2>4. QED
    BY <2>2, <2>3 DEF Moves, PlaceMoves, QuitMoves, SetsMove, FailedMoves, ThreadsOK, LoopTypeOK
<1>4. QED
  BY <1>1, <1>2, <1>3

\* StartThread moves the thread and its caller at once.
LEMMA StartStep ==
  ASSUME ThreadsOK, NEW t \in LoopThread, NEW next \in {"woken", "sleepy"},
         StartThread(t, next), next = "woken" => t \notin Side
  PROVE  Moves
<1>1. PlaceMoves
  BY DEF StartThread, PlaceMoves, Places
<1>2. CallerMoves
  BY DEF StartThread, CallerMoves, Callers, Stopping
<1>3. QED
  BY <1>1, <1>2 DEF StartThread, Moves, QuitMoves, SetsMove, FailedMoves, ThreadsOK, LoopTypeOK

LEMMA NotifyStep ==
  ASSUME ThreadsOK, NEW t \in LoopThread, NEW sharers, NEW next \in {"listen", "test"},
         sharers \subseteq LoopThread, sharers \cap Side \subseteq {t}, Notify(t, sharers, next)
  PROVE  Moves
<1>1. PlaceMoves
  BY DEF Notify, PlaceMoves, Places
<1>2. CallerMoves
  <2>1. \/ caller' = caller
        \/ \E u \in sharers : caller[u] = "asleep" /\ CallerGoes(u, "woken")
    BY DEF Notify
  <2>2. place[t] = "notify"
    BY DEF Notify
  <2>3. QED
    BY <2>1, <2>2 DEF CallerMoves, Callers, Stopping
<1>3. UNCHANGED <<pointer, quit, eventfd, failed>> /\ missed' \subseteq LoopThread
  BY DEF Notify, ThreadsOK, LoopTypeOK
<1>4. QED
  BY <1>1, <1>2, <1>3 DEF Moves, QuitMoves, SetsMove, FailedMoves, ThreadsOK, LoopTypeOK

LEMMA StopSteps ==
  ASSUME ThreadsOK, NEW t \in LoopThread \ {Base}, SetQuit(t) \/ WriteWakeup(t) \/ Join(t)
  PROVE  Moves
<1>1. CASE SetQuit(t)
  <2>1. t \notin quit
    BY <1>1 DEF SetQuit, ThreadsOK, Stopping
  <2>2. CallerMoves
    BY <1>1 DEF SetQuit, CallerMoves, Callers, Stopping
  <2>3. QuitMoves
    BY <1>1 DEF SetQuit, QuitMoves
  <2>4. UNCHANGED <<place, pointer, eventfd, missed, failed>>
    BY <1>1, <2>1 DEF SetQuit
  <2>5. QED
    BY <2>2, <2>3, <2>4 DEF Moves, PlaceMoves, SetsMove, FailedMoves, ThreadsOK, LoopTypeOK
<1>2. CASE WriteWakeup(t) \/ Join(t)
  <2>1. CallerMoves
    BY <1>2 DEF WriteWakeup, Join, CallerMoves, Callers, Stopping
  <2>2. /\ UNCHANGED <<place, pointer, quit, missed>>
        /\ failed' \in {failed, "dead loop"} /\ eventfd' \subseteq LoopThread
    BY <1>2 DEF WriteWakeup, Join, ThreadsOK, LoopTypeOK
  <2>3. QED
    BY <2>1, <2>2 DEF Moves, PlaceMoves, QuitMoves, SetsMove, FailedMoves, ThreadsOK, LoopTypeOK
<1>3. QED
  BY <1>1, <1>2

\* The steps of the server move at most one thread of their own.
LEMMA ServerSteps ==
  ASSUME ThreadsOK,
         UNCHANGED <<caller, pointer, missed>>, eventfd' \subseteq LoopThread,
         quit' \in {quit, quit \cup {Base}}, FailedMoves,
         place' = place \/ \E l \in Server, to \in {"test", "dead", "blocked"} : Goes(l, to)
  PROVE  Moves
<1>1. PlaceMoves
  BY ThreadFacts DEF PlaceMoves, Places
<1>2. QED
  BY <1>1 DEF Moves, CallerMoves, QuitMoves, SetsMove, ThreadsOK, LoopTypeOK

LEMMA DestroyFails ==
  ASSUME NEW l \in Server, DestroySingle(l)
  PROVE  FailedMoves
BY DEF DestroySingle, FailedMoves

LEMMA AllMoves ==
  ASSUME ThreadsOK, Next
  PROVE  Moves
<1>1. CASE SideStarted \/ SideStopped \/ LoopReturns \/ AllQuit \/ \E c \in Conn, l \in Server : Arrive(c, l)
  BY <1>1, LoopVarsKept DEF SideStarted, SideStopped, LoopReturns, AllQuit, Arrive
<1>2. CASE MainStarts \/ MainLoops \/ StartDone \/ RunStart
  BY <1>2, ServerSteps, ThreadFacts
     DEF MainStarts, MainLoops, StartDone, RunStart, StartInLoop, FailedMoves, ThreadsOK, LoopTypeOK
<1>3. CASE DestroyServer
  BY <1>3, ServerSteps, DestroyFails, ThreadFacts DEF DestroyServer, ThreadsOK, LoopTypeOK
<1>4. CASE \E s \in Starter : CallStart(s)
  BY <1>4, ServerSteps, ThreadFacts DEF CallStart, FailedMoves, ThreadsOK, LoopTypeOK
<1>5. CASE QuitBase
  BY <1>5, ServerSteps, ThreadFacts DEF QuitBase, FailedMoves, ThreadsOK, LoopTypeOK
<1>6. CASE \E c \in Conn, l \in Server : CloseConnection(c, l)
  BY <1>6, ServerSteps DEF CloseConnection, FailedMoves, ThreadsOK, LoopTypeOK
<1>7. CASE \E l \in Server : HandleRead(l)
  BY <1>7, ServerSteps DEF HandleRead, Accepts, AcceptFails, FailedMoves, ThreadsOK, LoopTypeOK
<1>8. ASSUME NEW i \in Worker, StartWorker(i)
      PROVE  Moves
  BY <1>8, ServerSteps, ThreadFacts DEF StartWorker, FailedMoves, ThreadsOK, LoopTypeOK
<1>9. ASSUME NEW i \in Worker, EndWorker(i)
      PROVE  Moves
  <2>1. i \in Server /\ FailedMoves
    BY <1>9, DestroyFails, ThreadFacts DEF EndWorker
  <2>2. /\ UNCHANGED <<caller, pointer, quit, missed>> /\ eventfd' \subseteq LoopThread
        /\ Goes(i, "dead")
    BY <1>9 DEF EndWorker, LoopEnds, ThreadsOK, LoopTypeOK
  <2>3. QED
    BY <2>1, <2>2, ServerSteps
<1>10. ASSUME NEW i \in Worker, CreateWorker(i)
       PROVE  Moves
  BY <1>10, StartStep, ThreadFacts DEF CreateWorker
<1>11. ASSUME NEW t \in Side, StartLoop(t)
       PROVE  Moves
  BY <1>11, StartStep, ThreadFacts DEF StartLoop
<1>12. ASSUME NEW i \in Worker, TestPointer(i)
       PROVE  Moves
  <2>1. CallerMoves
    BY <1>12, ThreadFacts DEF TestPointer, CallerMoves, Callers, Stopping
  <2>2. QED
    BY <1>12, <2>1 DEF TestPointer, Moves, PlaceMoves, QuitMoves, SetsMove, FailedMoves, ThreadsOK, LoopTypeOK
<1>13. ASSUME NEW i \in Worker, QuitWorker(i) \/ JoinWorker(i)
       PROVE  Moves
  BY <1>13, StopSteps, ThreadFacts DEF QuitWorker, JoinWorker
<1>14. ASSUME NEW t \in Side, StopLoop(t)
       PROVE  Moves
  BY <1>14, StopSteps, ThreadFacts DEF StopLoop
<1>15. ASSUME NEW t \in Side, ReturnLoop(t)
       PROVE  Moves
  BY <1>15, LoopSteps, ThreadFacts DEF ReturnLoop
<1>16. ASSUME NEW i \in Worker, NotifyServer(i)
       PROVE  Moves
  BY <1>16, NotifyStep, ThreadFacts DEF NotifyServer
<1>17. ASSUME NEW t \in Side, Notify(t, {t}, "test")
       PROVE  Moves
  BY <1>17, NotifyStep, ThreadFacts
<1>18. ASSUME NEW t \in LoopThread, Thread(t)
       PROVE  Moves
  BY <1>2, <1>7, <1>8, <1>9, <1>16, <1>17, <1>18, LoopSteps, ThreadFacts DEF Thread
<1>19. CASE Main
  BY <1>1, <1>2, <1>3, <1>10, <1>11, <1>12, <1>13, <1>14, <1>15, <1>19, LoopSteps DEF Main
<1>20. CASE Environment
  BY <1>1, <1>4, <1>5, <1>6, <1>20, LoopSteps DEF Environment
<1>21. QED
  BY <1>18, <1>19, <1>20 DEF Next

------------------------------------------------------------------------------
(* Each part of the invariant is kept *)

LEMMA ThreadsStep ==
  ASSUME ThreadsOK, [Next]_vars
  PROVE  ThreadsOK'
<1>1. Moves
  <2>1. CASE UNCHANGED vars
    BY <2>1, LoopVarsKept DEF vars
  <2>2. QED
    BY <2>1, AllMoves
<1>2. caller' \in [LoopThread -> Callers]
  BY <1>1 DEF Moves, CallerMoves, CallerGoes, ThreadsOK, LoopTypeOK
<1>3. place' \in [LoopThread -> Places]
  BY <1>1 DEF Moves, PlaceMoves, Goes, ThreadsOK, LoopTypeOK
<1>4. quit' \subseteq LoopThread
  <2>1. Base \in LoopThread /\ quit \subseteq LoopThread
    BY ThreadFacts DEF ThreadsOK, LoopTypeOK
  <2>2. \E t \in LoopThread : quit' \in {quit, quit \cup {t}}
    BY <1>1, <2>1 DEF Moves, QuitMoves
  <2>3. QED
    BY <2>1, <2>2
<1>5. \A t \in quit' \ {Base} : caller'[t] \in Stopping
  <2> SUFFICES ASSUME NEW t \in quit' \ {Base} PROVE caller'[t] \in Stopping
    OBVIOUS
  <2>1. CASE t \in quit
    <3>1. caller[t] \in Stopping
      BY <2>1 DEF ThreadsOK
    <3>2. t \in LoopThread /\ caller \in [LoopThread -> Callers]
      BY <2>1 DEF ThreadsOK, LoopTypeOK
    <3>3. CASE caller' = caller
      BY <3>1, <3>3
    <3>4. ASSUME NEW u \in LoopThread, NEW to, CallerGoes(u, to),
                 caller[u] \in Stopping => to \in Stopping
          PROVE  caller'[t] \in Stopping
      BY <3>1, <3>2, <3>4 DEF CallerGoes
    <3>5. QED
      BY <1>1, <3>3, <3>4 DEF Moves, CallerMoves
  <2>2. CASE t \notin quit
    <3>1. CallerGoes(t, "wakeup") /\ t \in LoopThread
      BY <1>1, <2>2 DEF Moves, QuitMoves
    <3>2. QED
      BY <3>1 DEF CallerGoes, Stopping, ThreadsOK, LoopTypeOK
  <2>3. QED
    BY <2>1, <2>2
<1>6. QED
  BY <1>1, <1>2, <1>3, <1>4, <1>5 DEF Moves, SetsMove, FailedMoves, ThreadsOK, LoopTypeOK

LEMMA StoredStep ==
  ASSUME ThreadsOK, Stored, [Next]_vars
  PROVE  Stored'
<1>1. Moves
  <2>1. CASE UNCHANGED vars
    BY <2>1, LoopVarsKept DEF vars
  <2>2. QED
    BY <2>1, AllMoves
<1> SUFFICES ASSUME NEW t \in Side, place'[t] = "notify" \/ caller'[t] = "woken"
             PROVE  t \in pointer'
  BY DEF Stored
<1>2. t \in LoopThread /\ pointer \subseteq pointer'
  BY <1>1, ThreadFacts DEF Moves, SetsMove
<1>3. CASE place'[t] = "notify"
  <2>1. place[t] = "notify" \/ t \in pointer'
    BY <1>1, <1>2, <1>3 DEF Moves, PlaceMoves, Goes, ThreadsOK, LoopTypeOK
  <2>2. QED
    BY <1>2, <2>1 DEF Stored
<1>4. CASE caller'[t] = "woken"
  <2>1. caller[t] = "woken" \/ place[t] = "notify"
    BY <1>1, <1>2, <1>4 DEF Moves, CallerMoves, CallerGoes, ThreadsOK, LoopTypeOK
  <2>2. QED
    BY <1>2, <2>1 DEF Stored
<1>5. QED
  BY <1>3, <1>4

LEMMA StartStepKept ==
  ASSUME StartOK, [Next]_vars
  PROVE  StartOK'
<1>1. \/ UNCHANGED serverVars
      \/ \E s \in calls : /\ calls' = calls \ {s} /\ started' = TRUE
                          /\ IF started THEN UNCHANGED startTasks
                                        ELSE startTasks' = startTasks + 1
      \/ started' = TRUE /\ UNCHANGED <<calls, startTasks>>
      \/ startTasks > 0 /\ startTasks' = startTasks - 1 /\ UNCHANGED <<started, calls>>
  BY DEF Next, Main, Environment, Thread, vars, SideStarted, SideStopped, MainStarts, MainLoops,
         StartDone, LoopReturns, AllQuit, DestroyServer, CreateWorker, TestPointer, QuitWorker,
         JoinWorker, StartLoop, ReturnLoop, StopLoop, NotifyServer, StartWorker, EndWorker,
         RunStart, HandleRead, CallStart, Arrive, CloseConnection, QuitBase
<1>2. pc' \in {"before", "server", "starting", "looping", "quit", "join", "after", "end"}
  BY DEF Next, Main, Environment, Thread, vars, SideStarted, SideStopped, MainStarts, MainLoops,
         StartDone, LoopReturns, AllQuit, DestroyServer, CreateWorker, TestPointer, QuitWorker,
         JoinWorker, StartLoop, ReturnLoop, StopLoop, NotifyServer, StartWorker, EndWorker,
         RunStart, HandleRead, CallStart, Arrive, CloseConnection, QuitBase, MainGoes, StartInLoop,
         StartOK
<1>3. started' \in BOOLEAN /\ calls' \subseteq Starter
  BY <1>1, Zenon DEF StartOK, serverVars
<1>4. startTasks' \in 0 .. 1
  <2>1. CASE startTasks' = startTasks
    BY <2>1 DEF StartOK
  <2>2. CASE ~started /\ startTasks' = startTasks + 1
    <3>1. startTasks = 0
      BY <2>2 DEF StartOK
    <3>2. QED
      BY <2>2, <3>1
  <2>3. CASE startTasks > 0 /\ startTasks' = startTasks - 1
    BY <2>3 DEF StartOK
  <2>4. QED
    BY <1>1, <2>1, <2>2, <2>3 DEF serverVars
<1>5. startTasks' # 0 => started'
  <2>1. CASE started'
    BY <2>1
  <2>2. CASE ~started'
    <3>1. ~started
      BY <1>1, <2>2, Zenon DEF serverVars
    <3>2. startTasks = 0 /\ startTasks \in Nat
      BY <3>1 DEF StartOK
    <3>3. startTasks' = 0
      <4>1. startTasks' = startTasks \/ startTasks > 0
        BY <1>1, <2>2 DEF serverVars
      <4>2. QED
        BY <3>2, <4>1
    <3>4. QED
      BY <3>3
  <2>3. QED
    BY <2>1, <2>2
<1>6. QED
  BY <1>2, <1>3, <1>4, <1>5 DEF StartOK

LEMMA ConnStep ==
  ASSUME ConnOK, [Next]_vars
  PROVE  ConnOK'
<1>1. \/ UNCHANGED connVars
      \/ \E l \in Server : Listen(l) \/ DestroySingle(l) \/ HandleRead(l)
      \/ \E c \in Conn, l \in Server : Arrive(c, l) \/ CloseConnection(c, l)
  BY ThreadFacts
     DEF Next, Main, Environment, Thread, vars, SideStarted, SideStopped, MainStarts, MainLoops,
         StartDone, LoopReturns, AllQuit, DestroyServer, CreateWorker, TestPointer, QuitWorker,
         JoinWorker, StartLoop, ReturnLoop, StopLoop, NotifyServer, StartWorker, EndWorker,
         RunStart, CallStart, QuitBase, StartInLoop
<1>2. CASE UNCHANGED connVars
  BY <1>2 DEF connVars, ConnOK
<1>3. ASSUME NEW l \in Server, Listen(l)
      PROVE  ConnOK'
  BY <1>3 DEF Listen, ConnOK
<1>4. ASSUME NEW l \in Server, DestroySingle(l)
      PROVE  ConnOK'
  <2>1. backlog' \in [Server -> Seq(Conn)]
    BY <1>4, EmptySeq DEF DestroySingle, ConnOK
  <2>2. connections' \in [Server -> SUBSET Conn]
    BY <1>4 DEF DestroySingle, ConnOK
  <2>3. QED
    BY <1>4, <2>1, <2>2 DEF DestroySingle, ConnOK
<1>5. ASSUME NEW l \in Server, HandleRead(l)
      PROVE  ConnOK'
  <2>1. /\ backlog[l] # <<>> /\ backlog[l] \in Seq(Conn)
        /\ UNCHANGED <<listening, fresh>>
    BY <1>5 DEF HandleRead, ConnOK
  <2>2. Head(backlog[l]) \in Conn /\ Tail(backlog[l]) \in Seq(Conn)
    BY <2>1, HeadTailProperties
  <2>3. backlog' = backlog \/ backlog' = [backlog EXCEPT ![l] = Tail(@)]
    BY <1>5 DEF HandleRead, Accepts, AcceptFails
  <2>4. backlog' \in [Server -> Seq(Conn)]
    BY <2>2, <2>3 DEF ConnOK
  <2>5. \/ connections' = connections
        \/ connections' = [connections EXCEPT ![l] = @ \cup {Head(backlog[l])}]
    BY <1>5 DEF HandleRead, Accepts, AcceptFails
  <2>6. connections' \in [Server -> SUBSET Conn]
    BY <2>2, <2>5 DEF ConnOK
  <2>7. watching' = watching
    BY <1>5 DEF HandleRead, Accepts, AcceptFails
  <2>8. QED
    BY <2>1, <2>4, <2>6, <2>7 DEF ConnOK
<1>6. ASSUME NEW c \in Conn, NEW l \in Server, Arrive(c, l)
      PROVE  ConnOK'
  <2>1. Append(backlog[l], c) \in Seq(Conn)
    BY AppendProperties DEF ConnOK
  <2>2. backlog' \in [Server -> Seq(Conn)]
    BY <1>6, <2>1 DEF Arrive, ConnOK
  <2>3. QED
    BY <1>6, <2>2 DEF Arrive, ConnOK
<1>7. ASSUME NEW c \in Conn, NEW l \in Server, CloseConnection(c, l)
      PROVE  ConnOK'
  <2>1. connections' \in [Server -> SUBSET Conn]
    BY <1>7 DEF CloseConnection, ConnOK
  <2>2. QED
    BY <1>7, <2>1 DEF CloseConnection, ConnOK
<1>8. QED
  BY <1>1, <1>2, <1>3, <1>4, <1>5, <1>6, <1>7

LEMMA ServerInvInductive == Safety => []ServerInv
<1>1. ServerInv /\ [Next]_vars => ServerInv'
  BY ThreadsStep, StoredStep, StartStepKept, ConnStep DEF ServerInv
<1>2. QED
  BY InitServerInv, <1>1, PTL DEF Safety

------------------------------------------------------------------------------
(* The theorems *)

\* Every variable of the server keeps its type, and more than its type: start()
\* queues its closure once however many threads call it, a channel is watched
\* only while its socket listens, and no loop is quit twice.
THEOREM TypeCorrect == Safety => []TypeOK
<1>1. ServerInv => TypeOK
  BY DEF ServerInv, ThreadsOK, StartOK, ConnOK, TypeOK
<1>2. QED
  BY <1>1, ServerInvInductive, PTL

\* startLoop() returns the loop of its thread whenever it was notified: the
\* thread stores the pointer before it notifies, whatever the other threads do.
THEOREM NotifiedReturnsLoop == Safety => NotifiedHasLoop
<1>1. ServerInv => \A t \in Side : caller[t] = "woken" => t \in pointer
  BY DEF ServerInv, Stored
<1>2. ServerInv /\ [Next]_vars =>
        [\A t \in Side : caller[t] = "woken" /\ caller'[t] = "returned" => t \in pointer]_vars
  BY <1>1
<1>3. QED
  BY <1>2, ServerInvInductive, PTL DEF Safety, NotifiedHasLoop
==============================================================================
