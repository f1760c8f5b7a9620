------------------------------ MODULE TCPClient ------------------------------
(***************************************************************************)
(* One TCPClient on its loop: the Connector, whose one socket serves every *)
(* attempt to connect, the timer that tries again every three seconds, and *)
(* the connection.  The timerfd and the connector's channel may be active  *)
(* in one poll, in either order; while their handlers run the kernel's     *)
(* socket changes.  The connection between up and down is TCPConnection,   *)
(* the timers of the loop are TimerQueue.                                  *)
(***************************************************************************)
EXTENDS Channel, Naturals, FiniteSets, SequencesExt

VARIABLES
  client,     \* the TCPClient: "new", "started" or "destroyed"
  peerUp,     \* the peer answers attempts to connect, and accepts them
  sock,       \* the kernel's socket
  soError,    \* its SO_ERROR is not zero
  chan,       \* Connector::m_channel
  timer,      \* the Timer: "none", "armed", "running" (its callback) or "freed"
  retryTimer, \* m_retryTimer is not nullptr
  due,        \* the timerfd has expired and was not read
  connected,  \* m_connected
  conn,       \* m_connection: "none", "up" or "down"
  batch,      \* m_activeChannels still to be handled
  pc,         \* the loop: "poll", "dispatch" or "write" (in handleWrite())
  failed      \* "none", or why the process is gone

vars == <<client, peerUp, sock, soError, chan, timer, retryTimer, due,
          connected, conn, batch, pc, failed>>

\* The socket is "established" until connect() is called once more, which
\* makes it "connected"; "failed" until connect() is called once more, which
\* makes it "unconnected"; "reset" when it fails after it was connected.
Socks == {"unconnected", "connecting", "established", "failed", "connected",
          "reset", "closed"}

TypeOK ==
  /\ client \in {"new", "started", "destroyed"}
  /\ peerUp \in BOOLEAN /\ soError \in BOOLEAN /\ due \in BOOLEAN
  /\ sock \in Socks
  /\ chan.events \in SUBSET {"OUT"} /\ chan.interest = chan.events
  /\ chan.polling = (chan.events # {})
  /\ timer \in {"none", "armed", "running", "freed"}
  /\ retryTimer \in BOOLEAN /\ connected \in BOOLEAN
  /\ conn \in {"none", "up", "down"}
  /\ batch \in Seq({"timer", "connector"}) /\ Len(batch) <= 2
  /\ pc \in {"poll", "dispatch", "write"}
  /\ failed \in {"none", "no timer", "running timer", "connection outlives client"}

Init ==
  /\ client = "new"
  /\ peerUp \in BOOLEAN
  /\ sock = "unconnected" /\ soError = FALSE
  /\ chan = NewChannel
  /\ timer = "none" /\ retryTimer = FALSE /\ due = FALSE
  /\ connected = FALSE /\ conn = "none"
  /\ batch = <<>> /\ pc = "poll" /\ failed = "none"

sockVars == <<sock, soError>>
connVars == <<connected, conn, retryTimer>>
------------------------------------------------------------------------------
(* Connector *)

\* ::connect() by the state of the socket: "progress" is EINPROGRESS, "done"
\* is 0, any other error is "error".
ConnectResult ==
  CASE sock = "unconnected" -> {"progress", "done"} \cup (IF peerUp THEN {} ELSE {"error"})
    [] sock = "established" -> {"done"}
    [] OTHER                -> {"error"}

AfterConnect(result) ==
  /\ sock' = CASE result = "progress" -> "connecting"
               [] result = "done"     -> "connected"
               [] OTHER               -> IF sock = "failed" THEN "unconnected" ELSE sock
  /\ soError' = (soError /\ sock # "failed")

\* Connector::start(): what has been connected at once is handled at once.
ConnectorStart ==
  \E result \in ConnectResult :
    /\ AfterConnect(result)
    /\ chan' = IF result = "progress" THEN EnableWrite(chan) ELSE chan
    /\ pc' = IF result = "done" THEN "write" ELSE "dispatch"

\* Seeded fault: the channel forgets one event, or means to.
UnwatchWrite(ch) == DisableWrite(ch)

Unwatch(ch) == IF IsNoneEvents(ch) THEN ch ELSE DisableAll(ch)

\* Seeded fault: a repeating timer that does not repeat.
NoRestart(t) == IF t = "running" THEN "freed" ELSE t

\* TimerQueue::handleRead puts a timer back when its callback returns.
Restart(t) == IF t = "running" THEN "armed" ELSE t

\* Seeded fault: m_retryTimer keeps its value.
NewConnectionKeepsTimer ==
  /\ timer' = "freed"
  /\ UNCHANGED <<retryTimer, failed>>
  /\ connected' = TRUE
  /\ conn' = "up"

\* TCPClient::newConnection: cancelTimer(), then the connection.  A Timer that
\* is canceled in its own callback is used afterwards, and deleted again.
NewConnection ==
  /\ failed' = CASE ~retryTimer       -> "no timer"
                 [] timer = "running" -> "running timer"
                 [] OTHER             -> failed
  /\ timer' = "freed"
  /\ retryTimer' = FALSE
  /\ connected' = TRUE
  /\ conn' = "up"

\* Seeded fault: handleWrite() that does not look at SO_ERROR.
HandleWriteUnchecked ==
  /\ pc = "write"
  /\ chan' = Unwatch(chan)
  /\ soError' = FALSE
  /\ NewConnection
  /\ pc' = "dispatch"
  /\ UNCHANGED <<client, peerUp, sock, due, batch>>

\* Connector::handleWrite: getsockopt(SO_ERROR) reads the error and clears it.
HandleWrite ==
  /\ pc = "write"
  /\ chan' = Unwatch(chan)
  /\ soError' = FALSE
  /\ IF soError THEN timer' = Restart(timer) /\ UNCHANGED <<connVars, failed>>
                ELSE NewConnection
  /\ pc' = "dispatch"
  /\ UNCHANGED <<client, peerUp, sock, due, batch>>
------------------------------------------------------------------------------
(* TCPClient *)

Start ==
  /\ client = "new"
  /\ client' = "started"
  /\ timer' = "armed" /\ retryTimer' = TRUE
  /\ ConnectorStart
  /\ UNCHANGED <<peerUp, due, connected, conn, batch, failed>>

\* The timer expires and its callback is retry(); a timer canceled since the
\* timerfd expired is not there any more.
HandleTimer ==
  /\ pc = "dispatch" /\ batch # <<>> /\ Head(batch) = "timer"
  /\ batch' = Tail(batch)
  /\ due' = FALSE
  /\ IF timer = "armed" /\ ~connected
     THEN ConnectorStart /\ timer' = IF pc' = "write" THEN "running" ELSE Restart("running")
     ELSE UNCHANGED <<sockVars, chan, timer, pc>>
  /\ UNCHANGED <<client, peerUp, connVars, failed>>

\* The connector's channel was active when epoll_wait returned.
HandleConnector ==
  /\ pc = "dispatch" /\ batch # <<>> /\ Head(batch) = "connector"
  /\ batch' = Tail(batch)
  /\ pc' = "write"
  /\ UNCHANGED <<client, peerUp, sockVars, chan, timer, due, connVars, failed>>

\* closeConnection(), from the connection's handleClose(); the connection is
\* destroyed and closes the socket.
CloseConnection ==
  /\ pc = "poll" /\ conn = "up"
  /\ conn' = "down"
  /\ sock' = "closed"
  /\ UNCHANGED <<client, peerUp, soError, chan, timer, retryTimer, due, connected,
                 batch, pc, failed>>

\* ~TCPClient and ~Connector, in a closure or after loop(): the closure of
\* forceClose() will call a client that is gone.
Destroy ==
  /\ pc = "poll" /\ client = "started"
  /\ client' = "destroyed"
  /\ failed' = IF conn = "up" THEN "connection outlives client" ELSE failed
  /\ timer' = IF retryTimer THEN "freed" ELSE timer
  /\ retryTimer' = FALSE
  /\ sock' = "closed" /\ chan' = NewChannel
  /\ UNCHANGED <<peerUp, soError, due, connected, conn, batch, pc>>
------------------------------------------------------------------------------
(* The loop and its surroundings *)

\* A socket that has failed, or was never connected, is writable too.
Ready ==
  {x \in {"timer"} : due} \cup
  {x \in {"connector"} : "OUT" \in chan.interest /\ sock \notin {"connecting", "closed"}}

Poll ==
  /\ pc = "poll" /\ client # "new" /\ Ready # {}
  /\ batch' \in SetToSeqs(Ready)
  /\ pc' = "dispatch"
  /\ UNCHANGED <<client, peerUp, sockVars, chan, timer, due, connVars, failed>>

EndOfBatch ==
  /\ pc = "dispatch" /\ batch = <<>>
  /\ pc' = "poll"
  /\ UNCHANGED <<client, peerUp, sockVars, chan, timer, due, connVars, batch, failed>>

\* Three seconds pass.
Tick ==
  /\ timer = "armed" /\ ~due
  /\ due' = TRUE
  /\ UNCHANGED <<client, peerUp, sockVars, chan, timer, connVars, batch, pc, failed>>

\* An attempt ends: the peer answers, refuses or does not answer.
AttemptEnds ==
  /\ sock = "connecting"
  /\ IF peerUp THEN sock' = "established" /\ UNCHANGED soError
               ELSE sock' = "failed" /\ soError' = TRUE
  /\ UNCHANGED <<client, peerUp, chan, timer, due, connVars, batch, pc, failed>>

\* The peer resets what the client has not noticed yet.
PeerResets ==
  /\ ~peerUp /\ conn = "none"
  /\ \/ sock = "established" /\ sock' = "failed"
     \/ sock = "connected" /\ sock' = "reset"
  /\ soError' = TRUE
  /\ UNCHANGED <<client, peerUp, chan, timer, due, connVars, batch, pc, failed>>

PeerChanges ==
  /\ peerUp' = ~peerUp
  /\ UNCHANGED <<client, sockVars, chan, timer, due, connVars, batch, pc, failed>>
------------------------------------------------------------------------------
Alive == failed = "none"
Handle == Alive /\ (HandleWrite \/ HandleTimer \/ HandleConnector \/ EndOfBatch \/ Poll)
Time == Alive /\ Tick
Network == Alive /\ AttemptEnds

Next ==
  \/ Handle \/ Time \/ Network
  \/ Alive /\ (Start \/ CloseConnection \/ Destroy \/ PeerResets \/ PeerChanges)

Safety == Init /\ [][Next]_vars

\* The loop goes on, time passes, and every attempt to connect ends.  Nobody
\* has to start or to destroy the client, and the peer may never answer.
Fairness == WF_vars(Handle) /\ WF_vars(Time) /\ WF_vars(Network)

Spec == Safety /\ Fairness
------------------------------------------------------------------------------
(* Properties *)

\* While the kernel works on an attempt, or has established it unnoticed, the
\* loop waits for EPOLLOUT: whichever of retry() and handleWrite() came last.
AttemptIsWatched ==
  pc = "poll" /\ conn = "none" /\ sock \in {"connecting", "established"} =>
    "OUT" \in chan.interest

\* The timer retries as long as m_connected is false, and is gone when it is
\* true: no client that knows of no connection is left alone, and none that
\* believes in one, be it a mistaken one, connects again.  (Not so once the
\* timer has been canceled in its own callback, which ends the process.)
RetriesUntilConnected ==
  client = "started" /\ Alive =>
    /\ retryTimer = (timer \in {"armed", "running"})
    /\ retryTimer = ~connected

\* What the client calls its connection is a socket that is connected.
TrulyConnected == conn = "up" /\ sock \in {"established", "connected"}

\* handleWrite() has taken a failed attempt for a connection because retry() has
\* called connect() in between, which read the error (UpMeansConnected).  The
\* timer is canceled, and no other attempt follows.
Mistaken == conn = "up" /\ sock \in {"unconnected", "connecting"}

\* Once the peer answers for good, a client without a connection gets one, on a
\* socket that is connected, however many attempts have failed and whatever
\* retry() interrupted, unless retry() hides a failure from handleWrite(), the
\* client is destroyed, the retry timer is canceled in its own callback, or the
\* socket was reset between connect() and getsockopt() and reports EISCONN for
\* ever.  A failure that is there to be read is not mistaken for a connection.
ConnectsAtLast ==
  <>[]peerUp =>
    (client = "started" /\ conn = "none" ~>
       TrulyConnected \/ Mistaken \/ client = "destroyed" \/ sock = "reset" \/ ~Alive)

\* The comment at Connector.cpp:53: handleWrite() reports a connection when
\* the attempt has succeeded.
UpMeansConnected ==
  [][conn = "none" /\ conn' = "up" => sock \in {"established", "connected"}]_vars
==============================================================================
