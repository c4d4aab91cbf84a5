----------------------------- MODULE SessionThread ----------------------------
(***************************************************************************)
(* What the sessions of http_server and websocket_server share.  Every     *)
(* connection has a detached thread, which owns the session, starts its    *)
(* first operation and then waits on m_done, without a predicate, until a  *)
(* completion calls notify().  The completions run one at a time in the    *)
(* thread that runs the io_context.                                        *)
(***************************************************************************)
EXTENDS FiniteSets

\* A connection: its thread, the asynchronous operations under way, and two
\* facts of its past: a notify() found nobody waiting, the wait ended
\* without a cause.
Threads == {"none", "spawned", "arm", "waiting", "woken", "gone"}

Unconnected == [thread |-> "none", pending |-> {}, lost |-> FALSE, stray |-> FALSE]

SessionType(operations) ==
    [thread : Threads, pending : SUBSET operations, lost : BOOLEAN, stray : BOOLEAN]

Begin(s, op) == [s EXCEPT !.pending = @ \cup {op}]
End(s, op) == [s EXCEPT !.pending = @ \ {op}]

\* notify() wakes the thread only while it waits.
Notify(s) ==
    CASE s.thread = "waiting" -> [s EXCEPT !.thread = "woken"]
      [] s.thread = "arm" -> [s EXCEPT !.lost = TRUE]
      [] OTHER -> s

\* The thread destroyed the session that its operations refer to.
Orphaned(s) == s.thread = "gone" /\ s.pending # {}

Stuck(s) == s.thread = "waiting" /\ s.pending = {}
===============================================================================
