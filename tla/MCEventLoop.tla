----------------------------- MODULE MCEventLoop -----------------------------
(* Small instances of EventLoop for TLC. *)
EXTENDS EventLoop, TLC

\* A callback queues nothing or one closure.
MCPosts == {<<>>} \cup {<<t>> : t \in Task}
==============================================================================
