---------------------------- MODULE WebsocketServer ---------------------------
(***************************************************************************)
(* muonpi::http::ws::websocket_server and its session, over TCP or TLS.    *)
(*                                                                         *)
(* The chain of reads starts with the handshake and goes on until a read   *)
(* finds the session closed.  do_write is called by the user, through the  *)
(* callback on_connect was given, in any thread and at any time: its       *)
(* completion empties m_buffer and starts a chain of reads of its own.     *)
(* "undefined" is a step into a session or a socket that is no more.       *)
(***************************************************************************)
EXTENDS Integers, SessionThread

CONSTANTS
    Connections,
    Written,        \* bound: those the user may write on, once each
    Nobody          \* no accept handler is running

ASSUME ConnectionsAssumption == Written \subseteq Connections /\ Nobody \notin Connections

VARIABLES
    server,         \* of the process: constructing, idle, running, stopped, failed, undefined
    ssl,            \* m_conf.ssl
    handing,        \* the connection whose accept handler sleeps, or Nobody
    conn,           \* the connections
    m_buffer,       \* what of the message under way is in it: none, intact, torn;
                    \* broken after a read that failed otherwise than by closed
    torn,           \* history: on_message was given a part of a message for the whole
    wrote,          \* history: do_write was called
    late            \* history: on_message was called for a session that had ended

data == <<m_buffer, torn, wrote, late>>
vars == <<server, ssl, handing, conn, data>>

\* The read that a completed write starts is told from the others.
Reads == {"read", "read of on_write"}
Operations == {"run", "handshake", "accept", "write"} \cup Reads

Init ==
    /\ server = "constructing"
    /\ ssl \in BOOLEAN
    /\ handing = Nobody
    /\ conn = [c \in Connections |-> Unconnected]
    /\ m_buffer = [c \in Connections |-> "none"]
    /\ torn = [c \in Connections |-> FALSE]
    /\ wrote = [c \in Connections |-> FALSE]
    /\ late = [c \in Connections |-> FALSE]

\* The constructor returns without start() when a call on the acceptor
\* fails; otherwise the runner's thread arms the acceptor.
Construct ==
    /\ server = "constructing"
    /\ server' \in {"idle", "running"}
    /\ UNCHANGED <<ssl, handing, conn, data>>

-------------------------------------------------------------------------------
(* The thread of the io_context.                                           *)
Free == server = "running" /\ handing = Nobody

\* The accept handler: std::thread may throw, and the handler sleeps 2 ms.
Accept(c) ==
    /\ Free
    /\ conn[c].thread = "none"
    /\ \/ /\ conn' = [conn EXCEPT ![c].thread = "spawned"]
          /\ handing' = c
          /\ UNCHANGED server
       \/ /\ server' = "failed"
          /\ UNCHANGED <<conn, handing>>
    /\ UNCHANGED <<ssl, data>>

\* do_accept() and the end of the handler, which takes the socket with it.
AcceptReturns ==
    /\ server = "running"
    /\ handing # Nobody
    /\ handing' = Nobody
    /\ server' = IF conn[handing].thread = "spawned" THEN "undefined" ELSE server
    /\ UNCHANGED <<ssl, conn, data>>

\* op of c completes, and its handler makes of the session one of outcomes.
Complete(c, op, outcomes) ==
    /\ Free
    /\ conn[c].thread # "gone"
    /\ op \in conn[c].pending
    /\ \E s \in outcomes : conn' = [conn EXCEPT ![c] = s]
    /\ UNCHANGED <<server, ssl, handing>>

\* Mutant: the branches of TCP and TLS are swapped.
OnRunSwapped(c) ==
    /\ Complete(c, "run", {Begin(End(conn[c], "run"), IF ssl THEN "accept" ELSE "handshake")})
    /\ UNCHANGED data

\* on_run
OnRun(c) ==
    /\ Complete(c, "run", {Begin(End(conn[c], "run"), IF ssl THEN "handshake" ELSE "accept")})
    /\ UNCHANGED data

\* Mutant: an error returns after the guard was dismissed.
OnHandshakeUnguarded(c) ==
    /\ LET s == End(conn[c], "handshake")
       IN  Complete(c, "handshake", {s, Begin(s, "accept")})
    /\ UNCHANGED data

OnHandshake(c) ==
    /\ LET s == End(conn[c], "handshake")
       IN  Complete(c, "handshake", {Notify(s), Begin(s, "accept")})
    /\ UNCHANGED data

\* Mutant: the acceptance is started again beside the read.
OnAcceptForked(c) ==
    /\ LET s == End(conn[c], "accept")
       IN  Complete(c, "accept", {Notify(s), Begin(conn[c], "read")})
    /\ UNCHANGED data

OnAccept(c) ==
    /\ LET s == End(conn[c], "accept")
       IN  Complete(c, "accept", {Notify(s), Begin(s, "read")})
    /\ UNCHANGED data

\* A part of a message, not its last, comes into m_buffer.
ReadPart(c) ==
    /\ Free
    /\ Reads \cap conn[c].pending # {} /\ conn[c].thread # "gone"
    /\ m_buffer[c] = "none"
    /\ m_buffer' = [m_buffer EXCEPT ![c] = "intact"]
    /\ UNCHANGED <<server, ssl, handing, conn, torn, wrote, late>>

\* m_handler.on_message with what m_buffer holds, partial if it is one of these.
OnMessage(c, partial) ==
    /\ torn' = [torn EXCEPT ![c] = @ \/ m_buffer[c] \in partial]
    /\ late' = [late EXCEPT ![c] = @ \/ conn[c].thread = "woken"]
    /\ UNCHANGED wrote

\* on_read: the peer closed the session.
OnReadClosed(c) ==
    /\ m_buffer[c] # "broken"
    /\ \E op \in Reads : Complete(c, op, {Notify(End(conn[c], op))})
    /\ UNCHANGED data

\* Mutant: the buffer is emptied after the next read has begun to fill it.
OnReadSwapped(c) ==
    /\ m_buffer[c] # "broken"
    /\ \E op \in Reads : Complete(c, op, {conn[c]})
    /\ OnMessage(c, {"torn"})
    /\ \E part \in {"none", "torn"} : m_buffer' = [m_buffer EXCEPT ![c] = part]

\* Mutant: the guard is not dismissed after do_read().
OnReadGuarded(c) ==
    /\ m_buffer[c] # "broken"
    /\ \E op \in Reads : Complete(c, op, {Notify(conn[c])})
    /\ OnMessage(c, {"torn"})
    /\ m_buffer' = [m_buffer EXCEPT ![c] = "none"]

\* on_read: a message is there; the read that ended begins again.
OnRead(c) ==
    /\ m_buffer[c] # "broken"
    /\ \E op \in Reads : Complete(c, op, {conn[c]})
    /\ OnMessage(c, {"torn"})
    /\ m_buffer' = [m_buffer EXCEPT ![c] = "none"]

\* on_read: any other error is logged and then treated as a message, and the
\* stream is read again, on which Beast gives nothing but errors now.
OnReadError(c) ==
    /\ \E op \in Reads : Complete(c, op, {conn[c]})
    /\ OnMessage(c, {"intact", "torn"})
    /\ m_buffer' = [m_buffer EXCEPT ![c] = "broken"]

\* on_write
OnWriteError(c) ==
    /\ Complete(c, "write", {Notify(End(conn[c], "write"))})
    /\ UNCHANGED data

OnWrite(c) ==
    /\ Complete(c, "write", {Begin(End(conn[c], "write"), "read of on_write")})
    /\ m_buffer' = [m_buffer EXCEPT ![c] = IF @ = "intact" THEN "torn" ELSE @]
    /\ UNCHANGED <<torn, wrote, late>>

\* The session was destroyed: its operations are aborted, and their
\* completions are called all the same.
Abort(c) ==
    /\ Free
    /\ Orphaned(conn[c])
    /\ server' = "undefined"
    /\ UNCHANGED <<ssl, handing, conn, data>>

-------------------------------------------------------------------------------
(* The threads of the sessions and of the user.                            *)
Goto(c, from, s) ==
    /\ server # "undefined"
    /\ conn[c].thread = from
    /\ conn' = [conn EXCEPT ![c] = s]
    /\ UNCHANGED <<server, ssl, handing, data>>

\* The session takes the socket, on_connect() is called, and run() posts on_run.
Run(c) == Goto(c, "spawned", [Begin(conn[c], "run") EXCEPT !.thread = "arm"])

Wait(c) == Goto(c, "arm", [conn[c] EXCEPT !.thread = "waiting"])

WakeSpuriously(c) == Goto(c, "waiting", [conn[c] EXCEPT !.thread = "woken", !.stray = TRUE])

\* on_disconnect(), and the session is destroyed.
Disconnect(c) == Goto(c, "woken", [conn[c] EXCEPT !.thread = "gone"])

\* The callback refers to the session, which may be gone.
DoWrite(c) ==
    /\ server # "undefined"
    /\ conn[c].thread \notin {"none", "spawned"}
    /\ c \in Written /\ ~wrote[c]
    /\ wrote' = [wrote EXCEPT ![c] = TRUE]
    /\ IF conn[c].thread = "gone"
       THEN server' = "undefined" /\ UNCHANGED conn
       ELSE conn' = [conn EXCEPT ![c] = Begin(@, "write")] /\ UNCHANGED server
    /\ UNCHANGED <<ssl, handing, m_buffer, torn, late>>

\* thread_runner::stop by any thread: io_context::stop.
Stop ==
    /\ server = "running"
    /\ server' = "stopped"
    /\ UNCHANGED <<ssl, handing, conn, data>>

-------------------------------------------------------------------------------
Opening(c) == OnRun(c) \/ OnHandshake(c) \/ OnAccept(c)

Completion(c) ==
    \/ Opening(c)
    \/ OnReadClosed(c)
    \/ OnRead(c)
    \/ OnReadError(c)
    \/ OnWriteError(c)
    \/ OnWrite(c)

Session(c) == Run(c) \/ Wait(c) \/ Disconnect(c)

Next ==
    \/ Construct
    \/ AcceptReturns
    \/ Stop
    \/ \E c \in Connections :
        \/ Accept(c)
        \/ Completion(c)
        \/ ReadPart(c)
        \/ Abort(c)
        \/ Session(c)
        \/ WakeSpuriously(c)
        \/ DoWrite(c)

Spec == Init /\ [][Next]_vars

\* The handshakes complete, by their timeouts at the latest, and no thread is
\* kept from its next step.  Nothing is assumed of what a client sends.
Fairness ==
    /\ WF_vars(AcceptReturns)
    /\ \A c \in Connections : WF_vars(Opening(c)) /\ WF_vars(Session(c))

FairSpec == Spec /\ Fairness

-------------------------------------------------------------------------------
TypeOK ==
    /\ server \in {"constructing", "idle", "running", "stopped", "failed", "undefined"}
    /\ ssl \in BOOLEAN
    /\ handing \in Connections \cup {Nobody}
    /\ conn \in [Connections -> SessionType(IF ssl THEN Operations ELSE Operations \ {"handshake"})]
    /\ m_buffer \in [Connections -> {"none", "intact", "torn", "broken"}]
    /\ torn \in [Connections -> BOOLEAN]
    /\ wrote \in [Connections -> BOOLEAN]
    /\ late \in [Connections -> BOOLEAN]

\* A session nobody writes on has one operation under way at a time: the
\* chain from the handshake through the reads does not fork.  (A write that
\* completes forks it: on_write calls do_read too.)
OneOperation == \A c \in Connections : Cardinality(conn[c].pending) <= 1 \/ wrote[c]

\* on_disconnect() comes after the last on_message(), and a session is not
\* destroyed under a read, unless its wait ended without a cause or somebody
\* wrote on it (a failed write notifies while the read is pending).
DisconnectIsLast ==
    \A c \in Connections :
        late[c] \/ Orphaned(conn[c]) => conn[c].stray \/ wrote[c]

\* A thread that waits with nothing left to wake it missed a notify() that
\* came before its wait.
StuckMeansLost == \A c \in Connections : Stuck(conn[c]) => conn[c].lost

\* on_message() gets messages whole until a read fails, unless somebody wrote
\* on the session: nothing but on_write empties m_buffer under a read.
WholeMessages == \A c \in Connections : torn[c] => wrote[c] \/ m_buffer[c] = "broken"

\* On a server that goes on running, a connection either comes to its first
\* read or its session ends, unless its thread missed its notify().
OpensOrEnds ==
    \A c \in Connections :
        conn[c].thread = "waiting" ~>
            \/ Reads \cap conn[c].pending # {}
            \/ conn[c].thread = "gone"
            \/ conn[c].lost
            \/ server # "running"
===============================================================================
