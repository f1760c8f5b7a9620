------------------------------- MODULE Channel -------------------------------
(***************************************************************************)
(* A Channel and its registration with epoll, as operators on a record     *)
(*   events    m_events, a set of flags                                    *)
(*   polling   the flag that tells the Epoller that it has added the fd    *)
(*   interest  the set of events the kernel was last told to report        *)
(* and what handleEventsWithGuard() calls for the events of one poll.      *)
(***************************************************************************)
EXTENDS Sequences

\* Of the 32 bits of m_events, those some code or the kernel tells apart here:
\* EXCLUSIVE (bit 28, EPOLLEXCLUSIVE) stands for all that no code asks for.
Flags == {"IN", "PRI", "OUT", "EXCLUSIVE"}

NewChannel == [events |-> {}, polling |-> FALSE, interest |-> {}]

IsReading(ch) == "IN" \in ch.events
IsWriting(ch) == "OUT" \in ch.events
IsNoneEvents(ch) == ch.events = {}

\* epoll_ctl(ADD or MOD): the kernel refuses EPOLLEXCLUSIVE (to MOD always, to
\* ADD together with EPOLLPRI) and keeps what it had; the error is only logged.
EpollCtl(ch) ==
  [ch EXCEPT !.interest = IF "EXCLUSIVE" \in ch.events THEN @ ELSE ch.events]

\* Epoller::updateChannel asserts this before it adds a channel.
CanUpdate(ch) == ch.polling \/ ~IsNoneEvents(ch)

\* Epoller::updateChannel: ADD, DEL or MOD.
UpdateChannel(ch) ==
  IF ch.polling /\ IsNoneEvents(ch)
  THEN [ch EXCEPT !.polling = FALSE, !.interest = {}]
  ELSE [EpollCtl(ch) EXCEPT !.polling = TRUE]

\* Seeded faults: an update of m_events that never reaches the Epoller.
EnableReadSilently(ch)  == [ch EXCEPT !.events = @ \cup {"IN", "PRI"}]
EnableWriteSilently(ch) == [ch EXCEPT !.events = @ \cup {"OUT"}]
DisableAllSilently(ch)  == [ch EXCEPT !.events = {}]

EnableRead(ch)   == UpdateChannel([ch EXCEPT !.events = @ \cup {"IN", "PRI"}])
EnableWrite(ch)  == UpdateChannel([ch EXCEPT !.events = @ \cup {"OUT"}])

\* m_events |= ~EPOLLIN and m_events |= ~EPOLLOUT: every other bit is set.
DisableRead(ch)  == UpdateChannel([ch EXCEPT !.events = @ \cup (Flags \ {"IN"})])
DisableWrite(ch) == UpdateChannel([ch EXCEPT !.events = @ \cup (Flags \ {"OUT"})])

DisableAll(ch)   == UpdateChannel([ch EXCEPT !.events = {}])

\* handleEventsWithGuard(): the callbacks for m_revents, in the order called.
CallbacksFor(revents) ==
  LET When(cond, cb) == IF cond THEN <<cb>> ELSE <<>> IN
  When("HUP" \in revents /\ "IN" \notin revents, "close") \o
  When("ERR" \in revents, "error") \o
  When(revents \cap {"IN", "PRI", "RDHUP"} # {}, "read") \o
  When("OUT" \in revents, "write")
==============================================================================
