---------------------------- MODULE TCPConnection ----------------------------
(***************************************************************************)
(* One accepted TCPConnection, from connectEstablished() to its destructor:*)
(* the callbacks the loop thread runs for its socket, the calls            *)
(* (send, shutdown, forceClose, stopRead, startRead) that callbacks on the *)
(* loop thread and other threads make, the closures those calls queue, and *)
(* the kernel's socket with its peer.                                      *)
(*                                                                         *)
(* Of its EventLoop it uses what TaskQueue states and EventLoopProofs      *)
(* proves: closures run in order, one at a time, between callbacks.        *)
(***************************************************************************)
EXTENDS Naturals, Sequences, Channel

CONSTANTS
  Thread,        \* the threads other than the loop's that hold the connection
  Loop,          \* the callbacks of the application on the loop thread
  Owner,         \* m_connectionSet of the server
  LoopOps,       \* the calls the application makes there, of the five
  ThreadOps,     \* the calls it makes from other threads
  Notify,        \* callbacks it has set: "writeComplete", "highWaterMark"
  MsgLen,        \* bytes in one message
  MaxMsgs,       \* bound: messages that one thread sends
  SndBuf,        \* bytes the send buffer of the socket holds
  HighWaterMark, \* m_highWaterMark
  MaxQueue       \* bound: closures queued

ASSUME ConnectionAssumption ==
  /\ Loop \notin Thread /\ Owner \notin Thread \cup {Loop}
  /\ LoopOps \cup ThreadOps \subseteq
       {"send", "shutdown", "forceClose", "stopRead", "startRead"}
  /\ Notify \subseteq {"writeComplete", "highWaterMark"}
  /\ {MsgLen, MaxMsgs, SndBuf} \subseteq Nat \ {0}
  /\ {HighWaterMark, MaxQueue} \subseteq Nat

VARIABLES
  state,     \* m_state
  chan,      \* m_channel
  outBuf,    \* m_outputBuffer: the bytes of it that are readable
  callbacks, \* what handleEventsWithGuard() still has to call
  queue,     \* closures queued in the loop and not yet run
  call,      \* per thread: the call it is inside of, by its next step
  sent,      \* per sender: bytes it has handed to send()
  refs,      \* holders of a shared_ptr, besides closures and calls
  sock,      \* the kernel's socket: room in its send buffer; bytes of the peer
             \* are waiting (input); the peer has closed (fin) or reset (rst);
             \* SO_ERROR is set (err); shutdown(SHUT_WR) was called (finSent);
             \* the descriptor is not closed (open)
  wire,      \* bytes given to the socket with ::write, in order
  failed     \* the assertion (or "freed" memory) that ended the process

appVars  == <<call, sent, refs>>
vars == <<state, chan, outBuf, callbacks, queue, appVars, sock, wire, failed>>

Sender == Thread \cup {Loop}
Byte   == Sender \X (1 .. MsgLen * MaxMsgs)

\* The next step of a call, after the check it begins with: the exchange of
\* m_state, or the push of the closure named so.
Steps    == {"shutdown", "forceClose"}
Closures == {"sendInLoop", "shutdownInLoop", "forceCloseInLoop", "stopRead",
             "startRead", "writeComplete", "highWaterMark"}
Task     == [fn : Closures, data : Seq(Byte)]

TypeOK ==
  /\ state \in {"kConnected", "kDisconnecting", "kDisconnected"}
  /\ chan \in [events : SUBSET Flags, polling : BOOLEAN, interest : SUBSET Flags]
  /\ outBuf \in Seq(Byte) /\ wire \in Seq(Byte)
  /\ callbacks \in Seq({"close", "error", "read", "write"})
  /\ queue \in Seq(Task)
  /\ call \in [Thread -> {"idle"} \cup Steps \cup Closures]
  /\ sent \in [Sender -> Nat]
  /\ refs \subseteq Sender \cup {Owner}
  /\ sock \in [room : 0 .. SndBuf, input : BOOLEAN, fin : BOOLEAN, rst : BOOLEAN,
               err : BOOLEAN, finSent : BOOLEAN, open : BOOLEAN]
  /\ failed \in {"none", "sendInLoop", "shutdown", "handleRead", "handleWrite",
                 "handleClose", "updateChannel", "~TCPConnection", "freed"}

\* TCPServerSingle::newConnetction runs in one callback: construction, the
\* callbacks, connectEstablished() and the insertion into m_connectionSet.
Init ==
  /\ state = "kConnected"
  /\ chan = EnableRead(NewChannel)
  /\ outBuf = <<>> /\ wire = <<>> /\ callbacks = <<>> /\ queue = <<>>
  /\ call = [th \in Thread |-> "idle"]
  /\ sent = [th \in Sender |-> 0]
  /\ refs = Sender \cup {Owner}
  /\ sock = [room |-> SndBuf, input |-> FALSE, fin |-> FALSE, rst |-> FALSE,
             err |-> FALSE, finSent |-> FALSE, open |-> TRUE]
  /\ failed = "none"
------------------------------------------------------------------------------
(* What runs on the loop thread.  q is the queue without the closure that  *)
(* is running; the operators append to it what they queue themselves.      *)

Broken == sock.rst \/ sock.finSent      \* ::write fails, not with EAGAIN
Fn(name)       == [fn |-> name, data |-> <<>>]
Callback(name) == IF name \in Notify THEN <<Fn(name)>> ELSE <<>>
Take(s, n) == SubSeq(s, 1, n)
Drop(s, n) == SubSeq(s, n + 1, Len(s))
Least(a, b) == IF a <= b THEN a ELSE b

\* Seeded fault: the result of ::write is not looked at.
WrittenAll(data) == IF Broken THEN 0 ELSE Len(data)

\* Bytes that ::write(data) takes: none if it fails.
Written(data) == IF Broken THEN 0 ELSE Least(Len(data), sock.room)

\* The socket after that write; a failing one reports SO_ERROR and clears it.
AfterWrite(n) == [sock EXCEPT !.room = @ - n, !.err = @ /\ ~Broken]

\* Seeded fault: sendInLoop() that writes around the buffer.
WritesAlways == TRUE

\* sendInLoop() calls ::write itself while handleWrite() has nothing to write.
WritesDirectly == ~IsWriting(chan)

SendInLoop(data, q) ==
  IF state = "kDisconnected"
  THEN queue' = q /\ UNCHANGED <<state, chan, outBuf, sock, wire, failed>>
  ELSE
    LET direct == WritesDirectly
        n      == IF direct THEN Written(data) ELSE 0
        rest   == Drop(data, n)
        buffer == rest # <<>> /\ ~(direct /\ Broken)
        size   == Len(outBuf) + Len(rest)
    IN /\ failed' = IF direct /\ outBuf # <<>> THEN "sendInLoop" ELSE failed
       /\ wire' = wire \o Take(data, n)
       /\ sock' = IF direct THEN AfterWrite(n) ELSE sock
       /\ outBuf' = IF buffer THEN outBuf \o rest ELSE outBuf
       /\ chan' = IF buffer THEN EnableWrite(chan) ELSE chan
       /\ queue' = q \o (IF rest = <<>> THEN Callback("writeComplete") ELSE <<>>)
                     \o (IF buffer /\ Len(outBuf) < HighWaterMark /\ size >= HighWaterMark
                         THEN Callback("highWaterMark") ELSE <<>>)
       /\ UNCHANGED state

\* Seeded fault: shutdownInLoop() without its test of isWriting().
ShutdownAtOnce(s, ch, k) ==
  IF s # "kDisconnected" THEN [k EXCEPT !.finSent = TRUE] ELSE k

\* shutdownInLoop() in state s with channel ch: the socket k it leaves.
ShutdownInLoop(s, ch, k) ==
  IF s # "kDisconnected" /\ ~IsWriting(ch) THEN [k EXCEPT !.finSent = TRUE] ELSE k

\* handleClose() with TCPServerSingle::closeConnection as its callback.
HandleClose ==
  /\ failed' = IF state = "kDisconnected" THEN "handleClose"
               ELSE IF ~CanUpdate([chan EXCEPT !.events = {}]) THEN "updateChannel"
               ELSE failed
  /\ state' = "kDisconnected"
  /\ chan' = DisableAll(chan)
  /\ refs' = refs \ {Owner}

(* The callbacks of the socket *)

\* What the socket has for epoll: ERR and HUP are reported unasked.
Reported ==
  LET is == (IF sock.input \/ sock.fin \/ sock.rst THEN {"IN"} ELSE {}) \cup
            (IF sock.room > 0 \/ Broken THEN {"OUT"} ELSE {})
  IN (is \cap chan.interest) \cup
     (IF sock.err THEN {"ERR"} ELSE {}) \cup
     (IF sock.rst \/ (sock.fin /\ sock.finSent) THEN {"HUP"} ELSE {})

\* A failed assertion stops every thread.
Running == failed = "none"

\* Somebody holds a shared_ptr; stopRead and startRead capture a bare this.
Held == refs # {} \/ callbacks # <<>>
          \/ \E i \in DOMAIN queue : queue[i].fn \notin {"stopRead", "startRead"}

\* epoll_wait reports the socket and handleEvents() locks m_tie.
Poll ==
  /\ Running /\ callbacks = <<>> /\ chan.polling /\ sock.open /\ Held
  /\ Reported # {}
  /\ callbacks' = CallbacksFor(Reported)
  /\ UNCHANGED <<state, chan, outBuf, queue, appVars, sock, wire, failed>>

\* The next callback of handleEventsWithGuard().
Calls(cb) == Running /\ callbacks # <<>> /\ Head(callbacks) = cb /\ callbacks' = Tail(callbacks)

\* getsockopt(SO_ERROR) reads and clears the error.
HandleError ==
  /\ Calls("error")
  /\ sock' = [sock EXCEPT !.err = FALSE]
  /\ UNCHANGED <<state, chan, outBuf, queue, appVars, wire, failed>>

\* handleRead() of bytes: the message callback is given all of them.
HandleInput ==
  /\ Calls("read") /\ sock.input
  /\ failed' = IF state = "kDisconnected" THEN "handleRead" ELSE failed
  /\ sock' = [sock EXCEPT !.input = FALSE]
  /\ UNCHANGED <<state, chan, outBuf, queue, appVars, wire>>

\* readv fails: handleRead() calls handleError().
HandleReadError ==
  /\ Calls("read") /\ ~sock.input /\ sock.err
  /\ failed' = IF state = "kDisconnected" THEN "handleRead" ELSE failed
  /\ sock' = [sock EXCEPT !.err = FALSE]
  /\ UNCHANGED <<state, chan, outBuf, queue, appVars, wire>>

\* readv returns 0, or the close callback of the channel is called.
HandleEnd ==
  /\ Running /\ callbacks # <<>>
  /\ Head(callbacks) = "close" \/ (Head(callbacks) = "read" /\ ~sock.input /\ ~sock.err)
  /\ callbacks' = Tail(callbacks)
  /\ IF state = "kDisconnected" /\ Head(callbacks) = "read"
     THEN failed' = "handleRead" /\ UNCHANGED <<state, chan, refs>>
     ELSE HandleClose
  /\ UNCHANGED <<outBuf, queue, call, sent, sock, wire>>

HandleWrite ==
  /\ Calls("write")
  /\ UNCHANGED <<state, appVars>>
  /\ IF state = "kDisconnected"
     THEN UNCHANGED <<chan, outBuf, queue, sock, wire, failed>>
     ELSE
       LET n       == Written(outBuf)
           drained == ~Broken /\ n = Len(outBuf)
           sk      == AfterWrite(n)
       IN /\ failed' = IF outBuf = <<>> \/ ~IsWriting(chan) THEN "handleWrite" ELSE failed
          /\ wire' = wire \o Take(outBuf, n)
          /\ outBuf' = Drop(outBuf, n)
          /\ chan' = IF drained THEN DisableWrite(chan) ELSE chan
          /\ sock' = IF drained /\ state = "kDisconnecting"
                     THEN ShutdownInLoop(state, chan', sk) ELSE sk
          /\ queue' = queue \o (IF drained THEN Callback("writeComplete") ELSE <<>>)

(* The closures *)

Inert == {"writeComplete", "highWaterMark"}    \* the application's callbacks

StopReadInLoop  == chan' = IF IsReading(chan) THEN DisableRead(chan) ELSE chan
StartReadInLoop == chan' = IF IsReading(chan) THEN chan ELSE EnableRead(chan)

Reading == {"stopRead", "startRead"}
ReadingInLoop(op) == IF op = "stopRead" THEN StopReadInLoop ELSE StartReadInLoop

\* The oldest closure runs, on an idle loop thread.
RunClosure ==
  /\ Running /\ callbacks = <<>> /\ queue # <<>>
  /\ UNCHANGED <<callbacks, call, sent>>
  /\ LET task == Head(queue)
         rest == Tail(queue)
     IN \/ /\ task.fn = "sendInLoop"
           /\ SendInLoop(task.data, rest)
           /\ UNCHANGED refs
        \/ /\ task.fn = "shutdownInLoop"
           /\ sock' = ShutdownInLoop(state, chan, sock)
           /\ queue' = rest
           /\ UNCHANGED <<state, chan, outBuf, refs, wire, failed>>
        \/ /\ task.fn = "forceCloseInLoop" /\ state # "kDisconnected"
           /\ HandleClose
           /\ queue' = rest
           /\ UNCHANGED <<outBuf, sock, wire>>
        \/ /\ task.fn \in Reading
           /\ ReadingInLoop(task.fn)
           /\ queue' = rest
           /\ failed' = IF sock.open THEN failed ELSE "freed"    \* a dangling this
           /\ UNCHANGED <<state, outBuf, refs, sock, wire>>
        \/ /\ \/ task.fn = "forceCloseInLoop" /\ state = "kDisconnected"
              \/ task.fn \in Inert
           /\ queue' = rest
           /\ UNCHANGED <<state, chan, outBuf, refs, sock, wire, failed>>
------------------------------------------------------------------------------
(* The calls of the application *)

Data(s) == [i \in 1 .. MsgLen |-> <<s, sent[s] + i>>]
CanSend(s) == state = "kConnected" /\ sent[s] < MsgLen * MaxMsgs

\* A callback on the loop thread: runInLoop() runs the closure in the call.
LoopSend ==
  /\ Running /\ Loop \in refs /\ "send" \in LoopOps /\ CanSend(Loop)
  /\ SendInLoop(Data(Loop), queue)
  /\ sent' = [sent EXCEPT ![Loop] = @ + MsgLen]
  /\ UNCHANGED <<callbacks, call, refs>>

LoopShutdown ==
  /\ Running /\ Loop \in refs /\ "shutdown" \in LoopOps
  /\ failed' = IF state = "kDisconnected" THEN "shutdown" ELSE failed
  /\ state' = "kDisconnecting"
  /\ sock' = IF state = "kConnected" THEN ShutdownInLoop(state', chan, sock) ELSE sock
  /\ UNCHANGED <<chan, outBuf, callbacks, queue, appVars, wire>>

LoopForceClose ==
  /\ Running /\ Loop \in refs /\ "forceClose" \in LoopOps /\ state # "kDisconnected"
  /\ Len(queue) < MaxQueue
  /\ state' = "kDisconnecting"
  /\ queue' = Append(queue, Fn("forceCloseInLoop"))
  /\ UNCHANGED <<chan, outBuf, callbacks, appVars, sock, wire, failed>>

LoopReading ==
  /\ Running /\ Loop \in refs
  /\ \E op \in LoopOps \cap Reading : ReadingInLoop(op)
  /\ UNCHANGED <<state, outBuf, callbacks, queue, appVars, sock, wire, failed>>

Enter(th, step) ==
  /\ Running /\ th \in refs /\ call[th] = "idle"
  /\ call' = [call EXCEPT ![th] = step]
  /\ UNCHANGED <<state, chan, outBuf, callbacks, queue, sent, refs, sock, wire>>

\* Another thread: the test of m_state that the call begins with.
BeginSend(th)       == "send" \in ThreadOps /\ CanSend(th) /\ Enter(th, "sendInLoop") /\ UNCHANGED failed
BeginForceClose(th) == /\ "forceClose" \in ThreadOps /\ state # "kDisconnected"
                       /\ Enter(th, "forceClose") /\ UNCHANGED failed
BeginReading(th)    == /\ \E op \in ThreadOps \cap Reading : Enter(th, op)
                       /\ UNCHANGED failed
BeginShutdown(th)   == /\ "shutdown" \in ThreadOps
                       /\ Enter(th, "shutdown")
                       /\ failed' = IF state = "kDisconnected" THEN "shutdown" ELSE failed

\* Seeded fault: forceClose() that goes on only from kConnected.
ExchangeConnected(th) ==
  /\ Running /\ call[th] \in Steps
  /\ state' = "kDisconnecting"
  /\ call' = [call EXCEPT ![th] =
       CASE state # "kConnected" -> "idle"
         [] @ = "shutdown"      -> "shutdownInLoop"
         [] OTHER               -> "forceCloseInLoop"]
  /\ UNCHANGED <<chan, outBuf, callbacks, queue, sent, refs, sock, wire, failed>>

\* stateAtomicGetAndSet(kDisconnecting), and what its result decides.
Exchange(th) ==
  /\ Running /\ call[th] \in Steps
  /\ state' = "kDisconnecting"
  /\ call' = [call EXCEPT ![th] =
       CASE @ = "shutdown"   /\ state = "kConnected"     -> "shutdownInLoop"
         [] @ = "forceClose" /\ state # "kDisconnected"  -> "forceCloseInLoop"
         [] OTHER -> "idle"]
  /\ UNCHANGED <<chan, outBuf, callbacks, queue, sent, refs, sock, wire, failed>>

\* queueInLoop() of the closure; the call returns.
Push(th) ==
  /\ Running /\ call[th] \in Closures
  /\ Len(queue) < MaxQueue
  /\ LET data == IF call[th] = "sendInLoop" THEN Data(th) ELSE <<>>
     IN /\ queue' = Append(queue, [fn |-> call[th], data |-> data])
        /\ sent' = [sent EXCEPT ![th] = @ + Len(data)]
  /\ call' = [call EXCEPT ![th] = "idle"]
  /\ UNCHANGED <<state, chan, outBuf, callbacks, refs, sock, wire, failed>>

\* The application lets go of its shared_ptr.
Release(h) ==
  /\ Running /\ h \in refs \ {Owner} /\ (h \in Thread => call[h] = "idle")
  /\ refs' = refs \ {h}
  /\ UNCHANGED <<state, chan, outBuf, callbacks, queue, call, sent, sock, wire, failed>>

\* ~TCPConnection, by whoever dropped the last reference.
Destroy ==
  /\ Running /\ ~Held /\ sock.open
  /\ failed' = IF state # "kDisconnected" THEN "~TCPConnection" ELSE failed
  /\ sock' = [sock EXCEPT !.open = FALSE]
  /\ UNCHANGED <<state, chan, outBuf, callbacks, queue, appVars, wire>>
------------------------------------------------------------------------------
(* The peer *)

Kernel(k) ==
  /\ Running /\ sock.open /\ ~sock.rst
  /\ sock' = k
  /\ UNCHANGED <<state, chan, outBuf, callbacks, queue, appVars, wire, failed>>

PeerSends  == ~sock.fin /\ Kernel([sock EXCEPT !.input = TRUE])
PeerReads  == sock.room < SndBuf /\ Kernel([sock EXCEPT !.room = SndBuf])
PeerCloses == ~sock.fin /\ Kernel([sock EXCEPT !.fin = TRUE])
PeerResets == Kernel([sock EXCEPT !.rst = TRUE, !.err = TRUE])
------------------------------------------------------------------------------
HandleEvent == HandleError \/ HandleInput \/ HandleReadError \/ HandleEnd \/ HandleWrite
LoopCall    == LoopSend \/ LoopShutdown \/ LoopForceClose \/ LoopReading
Begin(th)   == BeginSend(th) \/ BeginForceClose(th) \/ BeginReading(th) \/ BeginShutdown(th)
Peer        == PeerSends \/ PeerReads \/ PeerCloses \/ PeerResets

Next ==
  \/ Poll \/ HandleEvent \/ RunClosure \/ LoopCall \/ Destroy \/ Peer
  \/ \E th \in Thread : Begin(th) \/ Exchange(th) \/ Push(th)
  \/ \E h \in Sender : Release(h)

Safety == Init /\ [][Next]_vars

\* The loop thread goes on: what it has polled is handled, a ready socket is
\* polled (ReadyIsHandled) and a queued closure runs although events keep
\* coming (TasksAreRun).  A thread finishes the call it is in.  The peer is
\* assumed to go on reading; it need not send, close or reset.
Fairness ==
  /\ WF_vars(Poll \/ HandleEvent)
  /\ SF_vars(RunClosure)
  /\ \A th \in Thread : WF_vars(Exchange(th) \/ Push(th))
  /\ WF_vars(PeerReads)

Spec == Safety /\ Fairness
------------------------------------------------------------------------------
(* Properties *)

\* Every byte of q is there once, after the byte that its sender sent before it:
\* the bytes of one sender in q are the first that it sent, in order.
InOrder(q) ==
  \A i \in DOMAIN q :
    /\ \A j \in DOMAIN q : q[j] = q[i] => j = i
    /\ q[i][2] > 1 => \E j \in 1 .. i - 1 : q[j] = <<q[i][1], q[i][2] - 1>>

\* Whatever threads and callbacks send, and however ::write splits it between
\* the socket and m_outputBuffer, what reaches the wire from one sender is a
\* prefix of what it sent: nothing repeated, reordered, or left out before it.
WirePrefix == InOrder(wire)

\* shutdown() lets the buffered bytes out first: the FIN is never sent over
\* bytes that wait in m_outputBuffer, whichever thread asks and whenever.
\* (Of a connection already reported down, those bytes are lost anyway.)
FinAfterData ==
  [][(Owner \in refs /\ sock.finSent' /\ ~sock.finSent) => (outBuf' = <<>>)]_vars

\* Bytes in m_outputBuffer of an open connection are waited for with EPOLLOUT,
\* in the kernel's interest set and not only in m_events.
BufferedIsAwaited ==
  Running /\ outBuf # <<>> /\ state # "kDisconnected" /\ Owner \in refs
    => "OUT" \in chan.interest

\* While only callbacks on the loop thread close the connection, no order of
\* sends, closures and events trips the assertions on bytes written around the
\* buffer (TCPConnection.cpp:76), a read of a closed connection (:154), a second
\* close (:197), its second removal from epoll (Epoller.cpp:51) or the
\* destruction of an open connection (:31).
AssertionsHold == failed \in {"none", "shutdown", "handleWrite"}

\* The assertions that a run refutes, one by one.
HandleWriteHasData  == failed # "handleWrite"
DestroyedWhenClosed == failed # "~TCPConnection"

\* The peer's close or reset is noticed: the close callback runs.
PeerCloseIsReported == sock.fin \/ sock.rst ~> Owner \notin refs \/ ~Running

\* forceClose() closes, even after a shutdown() or while events go on.
ForceCloseCloses ==
  \A th \in Thread : call[th] = "forceClose" ~> Owner \notin refs \/ ~Running

\* While the peer reads, the buffer drains or the connection ends.
BufferDrains == outBuf # <<>> ~> outBuf = <<>> \/ Owner \notin refs \/ ~Running
==============================================================================
