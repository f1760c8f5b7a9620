------------------------------ MODULE TCPServer ------------------------------
(***************************************************************************)
(* A program with a TCPServer: its main thread starts other loops with     *)
(* EventLoopThread, starts the server, runs the base loop, destroys the    *)
(* server when the loop has been quit, and stops the other loops.  Each    *)
(* loop of the server has a TCPServerSingle: an Acceptor on the common     *)
(* address and the set of its connections.  A connection is a token: what  *)
(* it does between its accept and its close is TCPConnection.              *)
(***************************************************************************)
EXTENDS EventLoopThread, Sequences, FiniteSets, SequencesExt

CONSTANTS
  ThreadNum,  \* m_threadNum
  Starter,    \* other threads that call start()
  Conn,       \* the connections that peers will ask for
  MaxFds      \* the sockets the process may have open for connections

Base   == 0                      \* the main thread and its loop
Worker == 1 .. ThreadNum - 1
Server == {Base} \cup Worker
Side   == LoopThread \ Server    \* the loops started with EventLoopThread

ASSUME ServerAssumption ==
  /\ ThreadNum \in Nat \ {0}
  /\ Server \subseteq LoopThread
  /\ IsFiniteSet(Conn) /\ MaxFds \in Nat \ {0}

VARIABLES
  pc,         \* the main thread
  started,    \* m_started
  calls,      \* the starters that have not called start() yet
  startTasks, \* closures of start() waiting in the base loop
  listening,  \* the loops whose acceptor's socket listens
  watching,   \* the loops whose acceptor's channel is registered
  fresh,      \* connections not asked for yet
  backlog,    \* per loop: established connections that wait for accept4()
  connections \* per loop: m_connectionSet

serverVars == <<started, calls, startTasks>>
connVars   == <<listening, watching, fresh, backlog, connections>>
vars       == <<loopVars, pc, serverVars, connVars>>

TypeOK ==
  /\ LoopTypeOK
  /\ failed \in {"none", "no loop", "dead loop", "never listened", "open connection", "accept4"}
  /\ pc \in {"before", "server", "starting", "looping", "quit", "join", "after", "end"}
  /\ started \in BOOLEAN /\ calls \subseteq Starter
  /\ startTasks \in 0 .. 1
  /\ listening \subseteq Server /\ watching \subseteq listening
  /\ fresh \subseteq Conn
  /\ backlog \in [Server -> Seq(Conn)]
  /\ connections \in [Server -> SUBSET Conn]

Init ==
  /\ LoopInit
  /\ pc = "before"
  /\ started = FALSE /\ calls = Starter /\ startTasks = 0
  /\ listening = {} /\ watching = {}
  /\ fresh = Conn
  /\ backlog = [l \in Server |-> <<>>]
  /\ connections = [l \in Server |-> {}]

Open == UNION {connections[l] : l \in Server}
All(S, at) == \A t \in S : caller[t] \in at
Turn(i) == All(1 .. i - 1, {"returned"})
MainGoes(from, to) == pc = from /\ pc' = to
------------------------------------------------------------------------------
(* start() *)

\* start() on another thread: the first one, by m_started.exchange(true),
\* queues startInLoop().
CallStart(s) ==
  /\ s \in calls /\ pc \in {"server", "starting", "looping"}
  /\ calls' = calls \ {s}
  /\ started' = TRUE
  /\ IF started THEN UNCHANGED <<startTasks, eventfd>>
                ELSE startTasks' = startTasks + 1 /\ eventfd' = eventfd \cup {Base}
  /\ UNCHANGED <<caller, place, pointer, quit, missed, failed, pc, connVars>>

Listen(l) ==
  /\ listening' = listening \cup {l}
  /\ watching' = watching \cup {l}
  /\ UNCHANGED <<fresh, backlog, connections>>

\* startInLoop() starts the base loop's TCPServerSingle first; then it blocks the
\* thread until every worker has stored its loop.
StartInLoop == pc' = "starting" /\ Goes(Base, "blocked") /\ Listen(Base)

\* start() on the main thread, before loop().
MainStarts ==
  /\ pc = "server"
  /\ started' = TRUE
  /\ IF started THEN pc' = "looping" /\ Goes(Base, "test") /\ UNCHANGED connVars
                ELSE StartInLoop
  /\ UNCHANGED <<caller, pointer, quit, eventfd, missed, failed, calls, startTasks>>

\* The main thread leaves start() to the others.
MainLoops ==
  /\ Starter # {} /\ MainGoes("server", "looping")
  /\ Goes(Base, "test")
  /\ UNCHANGED <<caller, pointer, quit, eventfd, missed, failed, serverVars, connVars>>

\* The base loop runs the closure of start().
RunStart ==
  /\ pc = "looping" /\ place[Base] = "poll" /\ Base \in eventfd /\ startTasks > 0
  /\ startTasks' = startTasks - 1
  /\ eventfd' = eventfd \ {Base}
  /\ StartInLoop
  /\ UNCHANGED <<caller, pointer, quit, missed, failed, started, calls>>

CreateWorker(i) ==
  /\ pc = "starting" /\ Turn(i)
  /\ StartThread(i, "woken")
  /\ UNCHANGED <<pc, serverVars, connVars>>

\* while (m_eventLoopList[i] == nullptr)
TestPointer(i) ==
  /\ caller[i] \in {"woken", "spurious"}
  /\ CallerGoes(i, IF i \in pointer THEN "returned" ELSE "sleepy")
  /\ UNCHANGED <<place, pointer, quit, eventfd, missed, failed, pc, serverVars, connVars>>

StartDone ==
  /\ MainGoes("starting", "looping")
  /\ All(Worker, {"returned"})
  /\ Goes(Base, "test")
  /\ UNCHANGED <<caller, pointer, quit, eventfd, missed, failed, serverVars, connVars>>
------------------------------------------------------------------------------
(* Acceptor and TCPServerSingle, on the loop l *)

\* The kernel puts a new connection on the backlog of one of the sockets that
\* listen on the address (SO_REUSEPORT).
Arrive(c, l) ==
  /\ c \in fresh /\ l \in listening
  /\ fresh' = fresh \ {c}
  /\ backlog' = [backlog EXCEPT ![l] = Append(@, c)]
  /\ UNCHANGED <<loopVars, pc, serverVars, listening, watching, connections>>

\* Seeded fault: an acceptor that stops reading when there are no descriptors.
AcceptFailsQuietly(l) ==
  /\ Cardinality(Open) >= MaxFds
  /\ watching' = watching \ {l}
  /\ UNCHANGED <<failed, backlog>>

\* accept4() fails: the connection was aborted, there are no descriptors, or
\* FATAL for any other error.
AcceptFails(l) ==
  /\ \/ backlog' = [backlog EXCEPT ![l] = Tail(@)] /\ UNCHANGED failed
     \/ Cardinality(Open) >= MaxFds /\ UNCHANGED <<backlog, failed>>
     \/ failed' = "accept4" /\ UNCHANGED backlog
  /\ UNCHANGED watching

\* newConnetction() puts it into m_connectionSet.
Accepts(l) ==
  /\ Cardinality(Open) < MaxFds
  /\ connections' = [connections EXCEPT ![l] = @ \cup {Head(backlog[l])}]
  /\ backlog' = [backlog EXCEPT ![l] = Tail(@)]

\* Acceptor::handleRead, one accept4() for each event.
HandleRead(l) ==
  /\ place[l] = "poll" /\ l \in watching /\ backlog[l] # <<>>
  /\ \/ Accepts(l) /\ UNCHANGED <<failed, watching>>
     \/ AcceptFails(l) /\ UNCHANGED connections
  /\ Goes(l, "test")
  /\ UNCHANGED <<caller, pointer, quit, eventfd, missed, pc, serverVars, listening, fresh>>

\* A connection's handleClose() calls closeConnection().
CloseConnection(c, l) ==
  /\ place[l] = "poll" /\ c \in connections[l]
  /\ connections' = [connections EXCEPT ![l] = @ \ {c}]
  /\ Goes(l, "test")
  /\ UNCHANGED <<caller, pointer, quit, eventfd, missed, failed, pc, serverVars,
                 listening, watching, fresh, backlog>>

\* Seeded fault: a destructor that leaves the channel in the epoll.
DestroySingleWatched(l) ==
  /\ failed' = IF connections[l] # {} THEN "open connection" ELSE failed
  /\ listening' = listening \ {l}
  /\ backlog' = [backlog EXCEPT ![l] = <<>>]
  /\ connections' = [connections EXCEPT ![l] = {}]
  /\ UNCHANGED <<watching, fresh>>

\* ~TCPServerSingle: the Acceptor takes its channel out of the epoll and
\* closes its socket, with what is in the backlog; then the set goes.
DestroySingle(l) ==
  /\ failed' = CASE l \notin watching       -> "never listened"
                 [] connections[l] # {}     -> "open connection"
                 [] OTHER                   -> failed
  /\ listening' = listening \ {l}
  /\ watching' = watching \ {l}
  /\ backlog' = [backlog EXCEPT ![l] = <<>>]
  /\ connections' = [connections EXCEPT ![l] = {}]
  /\ UNCHANGED fresh
------------------------------------------------------------------------------
(* The workers: runInThread() *)

NotifyServer(i) ==
  /\ Notify(i, Worker, "listen")
  /\ UNCHANGED <<pc, serverVars, connVars>>

\* server.start(), after the notification
StartWorker(i) ==
  /\ place[i] = "listen"
  /\ Goes(i, "test")
  /\ Listen(i)
  /\ UNCHANGED <<caller, pointer, quit, eventfd, missed, failed, pc, serverVars>>

\* server goes first, then loop.
EndWorker(i) ==
  /\ LoopEnds(i)
  /\ DestroySingle(i)
  /\ UNCHANGED <<pc, serverVars>>
------------------------------------------------------------------------------
(* The end *)

\* The application quits the base loop, from a callback or another thread.
QuitBase ==
  /\ pc \in {"starting", "looping"} /\ Base \notin quit
  /\ quit' = quit \cup {Base}
  /\ eventfd' = eventfd \cup {Base}
  /\ UNCHANGED <<caller, place, pointer, missed, failed, pc, serverVars, connVars>>

LoopReturns ==
  /\ place[Base] = "left" /\ MainGoes("looping", "quit")
  /\ UNCHANGED <<loopVars, serverVars, connVars>>

\* ~TCPServer: quit() the loops in order, then join the threads in order.
QuitWorker(i) ==
  /\ pc = "quit" /\ All(1 .. i - 1, {"join"})
  /\ SetQuit(i) \/ WriteWakeup(i)
  /\ UNCHANGED <<pc, serverVars, connVars>>

AllQuit ==
  /\ All(Worker, {"none", "join"}) /\ MainGoes("quit", "join")
  /\ UNCHANGED <<loopVars, serverVars, connVars>>

JoinWorker(i) ==
  /\ pc = "join" /\ All(1 .. i - 1, {"joined"})
  /\ Join(i)
  /\ UNCHANGED <<pc, serverVars, connVars>>

DestroyServer ==
  /\ All(Worker, {"none", "joined"}) /\ MainGoes("join", "after")
  /\ DestroySingle(Base)
  /\ UNCHANGED <<caller, place, pointer, quit, eventfd, missed, serverVars>>
------------------------------------------------------------------------------
(* The loops of EventLoopThread *)

StartLoop(t) ==
  /\ pc = "before"
  /\ StartThread(t, "sleepy")
  /\ UNCHANGED <<pc, serverVars, connVars>>

ReturnLoop(t) == Return(t) /\ UNCHANGED <<pc, serverVars, connVars>>

SideStarted ==
  /\ All(Side, {"returned"}) /\ MainGoes("before", "server")
  /\ UNCHANGED <<loopVars, serverVars, connVars>>

StopLoop(t) ==
  /\ pc = "after"
  /\ SetQuit(t) \/ WriteWakeup(t) \/ Join(t)
  /\ UNCHANGED <<pc, serverVars, connVars>>

SideStopped ==
  /\ All(Side, {"joined"}) /\ MainGoes("after", "end")
  /\ UNCHANGED <<loopVars, serverVars, connVars>>
------------------------------------------------------------------------------
Alive == failed = "none"

Main ==
  Alive /\
  \/ SideStarted \/ SideStopped
  \/ MainStarts \/ MainLoops \/ StartDone \/ LoopReturns \/ AllQuit \/ DestroyServer
  \/ \E i \in Worker : CreateWorker(i) \/ TestPointer(i) \/ QuitWorker(i) \/ JoinWorker(i)
  \/ \E t \in Side : StartLoop(t) \/ ReturnLoop(t) \/ StopLoop(t)
  \/ \E t \in LoopThread : Sleep(t) /\ UNCHANGED <<pc, serverVars, connVars>>

\* A thread with a loop.
Thread(t) ==
  Alive /\
  \/ (StoreLoop(t) \/ LoopTest(t)) /\ UNCHANGED <<pc, serverVars, connVars>>
  \/ t \in Worker /\ (NotifyServer(t) \/ StartWorker(t) \/ EndWorker(t))
  \/ t \in Side /\ (Notify(t, {t}, "test") \/ EndThread(t)) /\ UNCHANGED <<pc, serverVars, connVars>>
  \/ Wake(t) /\ ~(t = Base /\ startTasks > 0) /\ UNCHANGED <<pc, serverVars, connVars>>
  \/ t = Base /\ RunStart
  \/ t \in Server /\ HandleRead(t)

Environment ==
  Alive /\
  \/ \E s \in Starter : CallStart(s)
  \/ \E c \in Conn, l \in Server : Arrive(c, l) \/ CloseConnection(c, l)
  \/ \E t \in LoopThread : Spurious(t) /\ UNCHANGED <<pc, serverVars, connVars>>
  \/ QuitBase

Next ==
  \/ Main \/ Environment
  \/ \E t \in LoopThread : Thread(t)

Safety == Init /\ [][Next]_vars

\* Every thread goes on, through the events of its loop too.  Nobody has to
\* call start() or to quit the base loop, and no peer has to close.
Fairness ==
  /\ WF_vars(Main)
  /\ \A t \in LoopThread : WF_vars(Thread(t))

Spec == Safety /\ Fairness
------------------------------------------------------------------------------
(* Properties *)

\* startLoop() that was notified, rather than woken for no reason, returns the
\* loop of the new thread.
NotifiedHasLoop ==
  [][\A t \in Side : caller[t] = "woken" /\ caller'[t] = "returned" => t \in pointer]_vars

\* The one notification there will be came while the caller was on its way
\* into wait(): the notifier does not hold the mutex.
Overslept(t) == caller[t] = "asleep" /\ t \in missed

\* startLoop() and the wait for a worker in startInLoop() end, unless the
\* notification was missed in that way.
StartReturns ==
  \A t \in LoopThread :
    caller[t] \in {"sleepy", "woken"} ~> caller[t] = "returned" \/ Overslept(t) \/ ~Alive

\* A connection does not wait for accept4() for ever while there are
\* descriptors, on whichever loop it landed and however often they ran out,
\* as long as the server runs (startInLoop() is not stuck in its wait).
Serving == Alive /\ pc \in {"starting", "looping"} /\ \A t \in Worker : ~Overslept(t)

QueuedIsAccepted ==
  \A c \in Conn :
    []<>(~ \E l \in Server : c \in ToSet(backlog[l]) /\ Serving /\ Cardinality(Open) < MaxFds)

\* The destructors return: every loop sees m_quit, wherever it was when it was
\* set, and its thread is joined.
StopReturns == pc = "quit" ~> pc = "end" \/ ~Alive
==============================================================================
