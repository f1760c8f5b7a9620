--------------------------- MODULE TCPClientProofs ---------------------------
(***************************************************************************)
(* Theorems about TCPClient, for any order of the handlers of a poll, any  *)
(* number of attempts and any behaviour of the peer.                       *)
(***************************************************************************)
EXTENDS TCPClient, FiniteSetTheorems, SequenceTheorems, TLAPS

\* The connector's channel is asked for EPOLLOUT or is not registered.
Off == [events |-> {}, polling |-> FALSE, interest |-> {}]
On  == [events |-> {"OUT"}, polling |-> TRUE, interest |-> {"OUT"}]

LEMMA ChannelFacts ==
  /\ NewChannel = Off
  /\ \A ch \in {Off, On} : EnableWrite(ch) = On /\ Unwatch(ch) = Off
<1>1. NewChannel = Off
  BY DEF NewChannel, Off
<1>2. EnableWrite(Off) = On /\ EnableWrite(On) = On
  BY DEF Off, On, EnableWrite, UpdateChannel, IsNoneEvents, EpollCtl
<1>3. Unwatch(Off) = Off /\ Unwatch(On) = Off
  BY DEF Off, On, Unwatch, DisableAll, UpdateChannel, IsNoneEvents, EpollCtl
<1>4. QED
  BY <1>1, <1>2, <1>3

\* m_activeChannels: at most the timerfd and the connector's channel.
LEMMA BatchFacts ==
  ASSUME NEW b \in SetToSeqs(Ready)
  PROVE  b \in Seq({"timer", "connector"}) /\ Len(b) \in Nat /\ Len(b) <= 2
<1> DEFINE n == Cardinality(Ready)
<1>1. Ready \subseteq {"timer", "connector"}
  BY DEF Ready
<1>2. IsFiniteSet({"timer", "connector"}) /\ Cardinality({"timer", "connector"}) = 2
  <2>1. /\ IsFiniteSet({"timer"}) /\ Cardinality({"timer"}) = 1
    BY FS_Singleton
  <2>2. "connector" \notin {"timer"} /\ {"timer", "connector"} = {"timer"} \cup {"connector"}
    OBVIOUS
  <2>3. /\ IsFiniteSet({"timer"} \cup {"connector"})
        /\ Cardinality({"timer"} \cup {"connector"}) = Cardinality({"timer"}) + 1
    BY <2>1, <2>2, FS_AddElement
  <2>4. Cardinality({"timer"} \cup {"connector"}) = 2
    BY <2>1, <2>3
  <2>5. QED
    BY <2>2, <2>3, <2>4
<1>3. n \in Nat /\ n <= 2
  BY <1>1, <1>2, FS_Subset, FS_CardinalityType
<1>4. b \in [1 .. n -> Ready]
  BY DEF SetToSeqs
<1> HIDE DEF n
<1>5. b \in [1 .. n -> {"timer", "connector"}]
  BY <1>1, <1>4
<1>6. b \in Seq({"timer", "connector"}) /\ Len(b) = n
  BY <1>3, <1>5, SeqDef, LenProperties
<1>7. QED
  BY <1>3, <1>6

------------------------------------------------------------------------------
(* The inductive invariant *)

\* TypeOK, with the channel's record as it is.
FlagsOK ==
  /\ peerUp \in BOOLEAN /\ soError \in BOOLEAN /\ due \in BOOLEAN
  /\ retryTimer \in BOOLEAN /\ connected \in BOOLEAN
ClientOK ==
  /\ FlagsOK
  /\ client \in {"new", "started", "destroyed"}
  /\ sock \in Socks /\ chan \in {Off, On}
  /\ timer \in {"none", "armed", "running", "freed"}
  /\ conn \in {"none", "up", "down"}
  /\ pc \in {"poll", "dispatch", "write"}
  /\ failed \in {"none", "no timer", "running timer", "connection outlives client"}
BatchOK == batch \in Seq({"timer", "connector"}) /\ Len(batch) \in Nat /\ Len(batch) <= 2

\* An attempt is watched in every state; an error is one of a socket that has
\* no attempt under way.
Watched ==
  /\ conn = "none" /\ sock \in {"connecting", "established"} => chan = On
  /\ soError => sock \in {"failed", "reset", "closed"}

\* RetriesUntilConnected; nothing is handled before the client is started.
Retrying ==
  /\ client = "new" => pc = "poll" /\ ~connected
  /\ client = "started" /\ Alive =>
       /\ retryTimer <=> timer \in {"armed", "running"}
       /\ retryTimer <=> ~connected

ClientInv == ClientOK /\ BatchOK /\ Watched /\ Retrying

LEMMA InitClientInv == Init => ClientInv
<1> SUFFICES ASSUME Init PROVE ClientInv
  OBVIOUS
<1>1. ClientOK
  BY ChannelFacts DEF Init, ClientOK, FlagsOK, Socks
<1>2. BatchOK
  BY EmptySeq DEF Init, BatchOK
<1>3. Watched /\ Retrying
  BY DEF Init, Watched, Retrying
<1>4. QED
  BY <1>1, <1>2, <1>3 DEF ClientInv

LEMMA ConnectFacts ==
  ASSUME ClientOK, Watched, ConnectorStart
  PROVE  /\ sock' \in Socks /\ chan' \in {Off, On} /\ soError' \in BOOLEAN
         /\ pc' \in {"dispatch", "write"}
         /\ sock' \in {"connecting", "established"} /\ conn = "none" => chan' = On
         /\ soError' => sock' \in {"failed", "reset", "closed"}
<1>1. PICK result \in ConnectResult :
        /\ AfterConnect(result)
        /\ chan' = IF result = "progress" THEN EnableWrite(chan) ELSE chan
        /\ pc' = IF result = "done" THEN "write" ELSE "dispatch"
  BY DEF ConnectorStart
<1>2. chan' = IF result = "progress" THEN On ELSE chan
  BY <1>1, ChannelFacts DEF ClientOK, FlagsOK
<1>3. soError' \in BOOLEAN
  <2>1. soError' = (soError /\ sock # "failed")
    BY <1>1 DEF AfterConnect
  <2>2. QED
    BY <2>1
<1>4. result = "progress" => sock = "unconnected"
  BY DEF ConnectResult
<1>5. CASE result = "progress"
  <2>1. sock' = "connecting" /\ ~soError'
    BY <1>1, <1>4, <1>5 DEF AfterConnect, Watched
  <2>2. QED
    BY <1>1, <1>2, <1>3, <1>5, <2>1 DEF Socks
<1>6. CASE result = "done"
  <2>1. sock' = "connected" /\ ~soError'
    <3>1. sock \in {"unconnected", "established"}
      BY <1>6 DEF ConnectResult
    <3>2. QED
      BY <1>1, <1>6, <3>1 DEF AfterConnect, Watched
  <2>2. QED
    BY <1>1, <1>2, <1>3, <1>6, <2>1 DEF Socks, ClientOK, FlagsOK
<1>7. CASE result \notin {"progress", "done"}
  <2>1. /\ sock' = IF sock = "failed" THEN "unconnected" ELSE sock
        /\ soError' <=> soError /\ sock # "failed"
    BY <1>1, <1>7 DEF AfterConnect
  <2>2. QED
    BY <1>1, <1>2, <1>3, <1>7, <2>1 DEF Socks, ClientOK, FlagsOK, Watched
<1>8. QED
  BY <1>5, <1>6, <1>7

\* A step that leaves the client and its timer alone.
LEMMA RetryKept ==
  ASSUME Retrying,
         client' = client, failed' = failed, retryTimer' = retryTimer, connected' = connected,
         timer' \in {"armed", "running"} <=> timer \in {"armed", "running"},
         client = "new" => pc' = "poll"
  PROVE  Retrying'
BY DEF Retrying, Alive

\* A step takes one channel off the batch, or polls, or leaves it alone.
LEMMA BatchStep ==
  ASSUME BatchOK, [Next]_vars
  PROVE  BatchOK'
<1>1. batch # <<>> => /\ Tail(batch) \in Seq({"timer", "connector"})
                      /\ Len(Tail(batch)) \in Nat /\ Len(Tail(batch)) <= 2
  BY HeadTailProperties, LenProperties DEF BatchOK
<1>2. \/ batch' = batch
      \/ batch # <<>> /\ batch' = Tail(batch)
      \/ batch' \in SetToSeqs(Ready)
  BY DEF Next, Handle, Time, Network, vars, HandleWrite, HandleTimer, HandleConnector, EndOfBatch,
         Poll, Start, CloseConnection, Destroy, Tick, AttemptEnds, PeerResets, PeerChanges
<1>3. CASE batch' = batch
  BY <1>3 DEF BatchOK
<1>4. CASE batch # <<>> /\ batch' = Tail(batch)
  BY <1>1, <1>4 DEF BatchOK
<1>5. CASE batch' \in SetToSeqs(Ready)
  BY <1>5, BatchFacts DEF BatchOK
<1>6. QED
  BY <1>2, <1>3, <1>4, <1>5

LEMMA ClientStep ==
  ASSUME ClientInv, [Next]_vars
  PROVE  ClientInv'
<1>0. ClientOK /\ Watched /\ Retrying
  BY DEF ClientInv
<1>b. BatchOK'
  BY BatchStep DEF ClientInv
<1> SUFFICES ClientOK' /\ Watched' /\ Retrying'
  BY <1>b DEF ClientInv
<1>1. CASE UNCHANGED vars
  <2>1. UNCHANGED <<client, peerUp, sock, soError, chan, timer>>
        /\ UNCHANGED <<retryTimer, due, connected, conn, pc, failed>>
    BY <1>1 DEF vars
  <2>2. ClientOK' /\ Watched'
    <3>1. FlagsOK'
      BY <1>0, <2>1, Zenon DEF ClientOK, FlagsOK
    <3>2. ClientOK'
      BY <1>0, <2>1, <3>1 DEF ClientOK
    <3>3. Watched'
      BY <1>0, <2>1 DEF Watched
    <3>4. QED
      BY <3>2, <3>3
  <2>3. Retrying'
    BY <1>0, <2>1, RetryKept DEF Retrying
  <2>4. QED
    BY <2>2, <2>3
<1>2. CASE HandleWrite
  <2>1. /\ chan' = Off /\ ~soError' /\ pc = "write" /\ pc' = "dispatch"
        /\ UNCHANGED <<client, peerUp, sock, due>>
    BY <1>0, <1>2, ChannelFacts DEF HandleWrite, ClientOK, FlagsOK
  <2>2. soError' \in BOOLEAN
    BY <1>2 DEF HandleWrite
  <2>3. CASE soError
    <3>1. timer' = Restart(timer) /\ UNCHANGED <<connected, conn, retryTimer, failed>>
      BY <1>2, <2>3 DEF HandleWrite, connVars
    <3>2. /\ timer' \in {"none", "armed", "running", "freed"}
          /\ timer' \in {"armed", "running"} <=> timer \in {"armed", "running"}
      BY <1>0, <3>1 DEF Restart, ClientOK, FlagsOK
    <3>3. ClientOK'
      BY <1>0, <2>1, <2>2, <3>1, <3>2 DEF ClientOK, FlagsOK
    <3>4. Watched'
      BY <1>0, <2>1, <2>3, <3>1 DEF Watched
    <3>5. Retrying'
      <4>1. client # "new"
        BY <1>0, <2>1 DEF Retrying
      <4>2. QED
        BY <1>0, <2>1, <3>1, <3>2, <4>1, RetryKept
    <3>6. QED
      BY <3>3, <3>4, <3>5
  <2>4. CASE ~soError
    <3>1. /\ failed' \in {failed, "no timer", "running timer"}
          /\ timer' = "freed" /\ retryTimer' = FALSE /\ connected' = TRUE /\ conn' = "up"
      BY <1>2, <2>4 DEF HandleWrite, NewConnection
    <3>2. ClientOK'
      BY <1>0, <2>1, <2>2, <3>1 DEF ClientOK, FlagsOK
    <3>3. Watched'
      BY <2>1, <3>1 DEF Watched
    <3>4. Retrying'
      BY <1>0, <2>1, <3>1 DEF Retrying
    <3>5. QED
      BY <3>2, <3>3, <3>4
  <2>5. QED
    BY <2>3, <2>4
<1>3. CASE HandleTimer
  <2>1. /\ pc = "dispatch" /\ due' = FALSE
        /\ UNCHANGED <<client, peerUp, connected, conn, retryTimer, failed>>
    BY <1>3 DEF HandleTimer, connVars
  <2>2. client # "new"
    BY <1>0, <2>1 DEF Retrying
  <2>3. CASE timer = "armed" /\ ~connected
    <3>1. ConnectorStart /\ timer' \in {"armed", "running"}
      BY <1>3, <2>3 DEF HandleTimer, Restart
    <3>2. /\ sock' \in Socks /\ chan' \in {Off, On} /\ soError' \in BOOLEAN
          /\ pc' \in {"dispatch", "write"}
          /\ sock' \in {"connecting", "established"} /\ conn = "none" => chan' = On
          /\ soError' => sock' \in {"failed", "reset", "closed"}
      BY <1>0, <3>1, ConnectFacts
    <3>3. ClientOK'
      BY <1>0, <2>1, <3>1, <3>2 DEF ClientOK, FlagsOK
    <3>4. Watched'
      BY <2>1, <3>2 DEF Watched
    <3>5. Retrying'
      BY <1>0, <2>1, <2>2, <2>3, <3>1, RetryKept
    <3>6. QED
      BY <3>3, <3>4, <3>5
  <2>4. CASE ~(timer = "armed" /\ ~connected)
    <3>1. UNCHANGED <<sock, soError, chan, timer, pc>>
      BY <1>3, <2>4 DEF HandleTimer, sockVars
    <3>2. ClientOK'
      <4>1. FlagsOK'
        BY <1>0, <2>1, <3>1, Zenon DEF ClientOK, FlagsOK
      <4>2. QED
        BY <1>0, <2>1, <3>1, <4>1 DEF ClientOK, FlagsOK
    <3>3. Watched'
      BY <1>0, <2>1, <3>1 DEF Watched
    <3>4. Retrying'
      BY <1>0, <2>1, <2>2, <3>1, RetryKept
    <3>5. QED
      BY <3>2, <3>3, <3>4
  <2>5. QED
    BY <2>3, <2>4
\* The steps of the loop that handle nothing.
<1>4. CASE HandleConnector \/ EndOfBatch \/ Poll
  <2>1. /\ UNCHANGED <<client, peerUp, sock, soError, chan, timer>>
        /\ UNCHANGED <<retryTimer, due, connected, conn, failed>>
        /\ pc' \in {"poll", "dispatch", "write"}
    BY <1>4 DEF HandleConnector, EndOfBatch, Poll, connVars, sockVars
  <2>2. client # "new"
    BY <1>0, <1>4 DEF HandleConnector, EndOfBatch, Poll, Retrying
  <2>3. ClientOK'
    <3>1. FlagsOK'
      BY <1>0, <2>1, Zenon DEF ClientOK, FlagsOK
    <3>2. QED
      BY <1>0, <2>1, <3>1 DEF ClientOK, FlagsOK
  <2>4. Watched'
    BY <1>0, <2>1 DEF Watched
  <2>5. Retrying'
    BY <1>0, <2>1, <2>2, RetryKept
  <2>6. QED
    BY <2>3, <2>4, <2>5
<1>5. CASE Start
  <2>1. /\ client = "new" /\ client' = "started" /\ timer' = "armed" /\ retryTimer' = TRUE
        /\ ConnectorStart /\ UNCHANGED <<peerUp, due, connected, conn, failed>>
    BY <1>5 DEF Start
  <2>2. /\ sock' \in Socks /\ chan' \in {Off, On} /\ soError' \in BOOLEAN
        /\ pc' \in {"dispatch", "write"}
        /\ sock' \in {"connecting", "established"} /\ conn = "none" => chan' = On
        /\ soError' => sock' \in {"failed", "reset", "closed"}
    BY <1>0, <2>1, ConnectFacts
  <2>3. ClientOK'
    BY <1>0, <2>1, <2>2 DEF ClientOK, FlagsOK
  <2>4. Watched'
    BY <2>1, <2>2 DEF Watched
  <2>5. Retrying'
    BY <1>0, <2>1 DEF Retrying
  <2>6. QED
    BY <2>3, <2>4, <2>5
<1>6. CASE CloseConnection
  <2>1. /\ conn' = "down" /\ sock' = "closed"
        /\ UNCHANGED <<client, peerUp, soError, chan, timer, retryTimer, due, connected, pc, failed>>
    BY <1>6 DEF CloseConnection
  <2>2. ClientOK'
    <3>1. FlagsOK'
      BY <1>0, <2>1, Zenon DEF ClientOK, FlagsOK
    <3>2. QED
      BY <1>0, <2>1, <3>1 DEF ClientOK, FlagsOK, Socks
  <2>3. Watched'
    BY <1>0, <2>1 DEF Watched
  <2>4. Retrying'
    BY <1>0, <2>1, RetryKept DEF Retrying
  <2>5. QED
    BY <2>2, <2>3, <2>4
<1>7. CASE Destroy
  <2>1. /\ client' = "destroyed" /\ retryTimer' = FALSE /\ sock' = "closed" /\ chan' = Off
        /\ timer' \in {timer, "freed"} /\ failed' \in {failed, "connection outlives client"}
        /\ UNCHANGED <<peerUp, soError, due, connected, conn, pc>>
    BY <1>7, ChannelFacts DEF Destroy
  <2>2. ClientOK'
    <3>1. FlagsOK'
      BY <1>0, <2>1, Zenon DEF ClientOK, FlagsOK
    <3>2. QED
      BY <1>0, <2>1, <3>1 DEF ClientOK, Socks
  <2>3. Watched' /\ Retrying'
    BY <1>0, <2>1 DEF Watched, Retrying
  <2>4. QED
    BY <2>2, <2>3
\* What time and the network do.
<1>8. CASE Tick \/ AttemptEnds \/ PeerResets \/ PeerChanges
  <2>1. UNCHANGED <<client, chan, timer, retryTimer, connected, conn, pc, failed>>
    BY <1>8 DEF Tick, AttemptEnds, PeerResets, PeerChanges, connVars
  <2>2. /\ peerUp' \in BOOLEAN /\ due' \in BOOLEAN /\ soError' \in BOOLEAN
    BY <1>0, <1>8 DEF Tick, AttemptEnds, PeerResets, PeerChanges, sockVars, ClientOK, FlagsOK
  <2>3. \/ sock' = sock /\ soError' = soError
        \/ sock = "connecting" /\ sock' = "established" /\ soError' = soError
        \/ sock \in {"connecting", "established", "connected"} /\ sock' \in {"failed", "reset"}
    BY <1>8 DEF Tick, AttemptEnds, PeerResets, PeerChanges, sockVars
  <2>4. ClientOK'
    <3>1. sock' \in Socks
      BY <1>0, <2>3 DEF ClientOK, FlagsOK, Socks
    <3>2. QED
      BY <1>0, <2>1, <2>2, <3>1 DEF ClientOK, FlagsOK
  <2>5. Watched'
    BY <1>0, <2>1, <2>3 DEF Watched
  <2>6. Retrying'
    BY <1>0, <2>1, RetryKept DEF Retrying
  <2>7. QED
    BY <2>4, <2>5, <2>6
<1>9. QED
  BY <1>1, <1>2, <1>3, <1>4, <1>5, <1>6, <1>7, <1>8 DEF Next, Handle, Time, Network

LEMMA ClientInvInductive == Safety => []ClientInv
BY InitClientInv, ClientStep, PTL DEF Safety

------------------------------------------------------------------------------
(* The theorems *)

\* Every variable of the client keeps its type: a poll reports two channels at
\* most, and epoll is told of every change of the connector's.
THEOREM TypeCorrect == Safety => []TypeOK
<1>1. ClientInv => TypeOK
  <2> SUFFICES ASSUME ClientInv PROVE TypeOK
    OBVIOUS
  <2>1. /\ chan.events \in SUBSET {"OUT"} /\ chan.interest = chan.events
        /\ chan.polling = (chan.events # {})
    <3>1. CASE chan = Off
      BY <3>1, Zenon DEF Off
    <3>2. CASE chan = On
      BY <3>2 DEF On
    <3>3. QED
      BY <3>1, <3>2 DEF ClientInv, ClientOK
  <2>2. QED
    BY <2>1 DEF ClientInv, ClientOK, FlagsOK, BatchOK, TypeOK
<1>2. QED
  BY <1>1, ClientInvInductive, PTL

\* An attempt to connect is waited for with EPOLLOUT, in whatever order the
\* timer and the connector's channel are handled, and however often retry()
\* interrupts an attempt.
THEOREM AttemptsAreWatched == Safety => []AttemptIsWatched
<1>1. ClientInv => AttemptIsWatched
  BY DEF ClientInv, Watched, AttemptIsWatched, On
<1>2. QED
  BY <1>1, ClientInvInductive, PTL

\* A started client has its retry timer exactly until m_connected is set.
THEOREM RetriesGoOn == Safety => []RetriesUntilConnected
<1>1. ClientInv => RetriesUntilConnected
  <2> SUFFICES ASSUME ClientInv, client = "started", Alive
               PROVE  /\ retryTimer = (timer \in {"armed", "running"})
                      /\ retryTimer = ~connected
    BY DEF RetriesUntilConnected
  <2>1. retryTimer \in BOOLEAN /\ connected \in BOOLEAN
    BY DEF ClientInv, ClientOK, FlagsOK
  <2>2. /\ retryTimer <=> timer \in {"armed", "running"}
        /\ retryTimer <=> ~connected
    BY DEF ClientInv, Retrying
  <2>3. QED
    BY <2>1, <2>2
<1>2. QED
  BY <1>1, ClientInvInductive, PTL
==============================================================================
