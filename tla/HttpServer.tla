------------------------------ MODULE HttpServer ------------------------------
(***************************************************************************)
(* muonpi::http::http_server and detail::session, over TCP or TLS.         *)
(*                                                                         *)
(* The session's scope guards call notify() on every way out of a          *)
(* completion that did not start another operation, and on two that did:   *)
(* the shutdown of TLS.  A thread that takes its socket after the accept   *)
(* handler has returned, or a completion whose session is gone, leaves     *)
(* the program in a state C++ says nothing of ("undefined").               *)
(***************************************************************************)
EXTENDS HttpRouting, SessionThread

CONSTANTS
    Connections,
    Requests,       \* what clients ask: records of target and credentials
    Nobody,         \* no accept handler is running
    MaxRequests     \* bound: requests on one connection

ASSUME RequestsAssumption == \A req \in Requests : req.target \in Seq(STRING) \ {<<>>}
ASSUME BoundAssumption == MaxRequests \in Nat /\ Nobody \notin Connections \cup Requests

VARIABLES
    server,         \* of the process: constructing, idle, running, stopped, failed, undefined
    ssl,            \* m_conf.ssl
    installed,      \* how many handlers m_handler has
    handing,        \* the connection whose accept handler sleeps, or Nobody
    conn,           \* the connections
    asked,          \* requests read on each
    reply           \* the request being answered on each, and its answer

vars == <<server, ssl, installed, handing, conn, asked, reply>>

Operations == {"handshake", "start", "read", "write", "shutdown"}
NoReply == [req |-> Nobody, answer |-> Refuse("none")]

\* What handle(req) answers while so many handlers are installed.
Routing == [req \in Requests |-> [top \in 0..Len(Tree[Root].children) |-> Handle(req, top)]]

Init ==
    /\ server = "constructing"
    /\ ssl \in BOOLEAN
    /\ installed = 0
    /\ handing = Nobody
    /\ conn = [c \in Connections |-> Unconnected]
    /\ asked = [c \in Connections |-> 0]
    /\ reply = [c \in Connections |-> NoReply]

\* The constructor returns without start() when a call on the acceptor
\* fails; otherwise the runner's thread arms the acceptor.
Construct ==
    /\ server = "constructing"
    /\ server' \in {"idle", "running"}
    /\ UNCHANGED <<ssl, installed, handing, conn, asked, reply>>

AddHandler ==
    /\ server # "constructing"
    /\ installed < Len(Tree[Root].children)
    /\ installed' = installed + 1
    /\ UNCHANGED <<server, ssl, handing, conn, asked, reply>>

-------------------------------------------------------------------------------
(* The thread of the io_context.                                           *)
Free == server = "running" /\ handing = Nobody

\* The accept handler: std::thread may throw, and the handler sleeps 2 ms.
Accept(c) ==
    /\ Free
    /\ conn[c].thread = "none"
    /\ \/ /\ conn' = [conn EXCEPT ![c].thread = "spawned"]
          /\ handing' = c
          /\ UNCHANGED server
       \/ /\ server' = "failed"
          /\ UNCHANGED <<conn, handing>>
    /\ UNCHANGED <<ssl, installed, asked, reply>>

\* do_accept() and the end of the handler, which takes the socket with it.
AcceptReturns ==
    /\ server = "running"
    /\ handing # Nobody
    /\ handing' = Nobody
    /\ server' = IF conn[handing].thread = "spawned" THEN "undefined" ELSE server
    /\ UNCHANGED <<ssl, installed, conn, asked, reply>>

\* Mutant: the guard notifies although the read is under way.
DoReadGuarded(s) == Notify(Begin(s, "read"))

DoRead(s) == Begin(s, "read")

\* A TCP socket is shut down at once, TLS in an operation of its own.
DoClose(s) == IF ssl THEN Begin(s, "shutdown") ELSE s

\* op of c completes, and its handler makes of the session one of outcomes.
Complete(c, op, outcomes) ==
    /\ Free
    /\ conn[c].thread # "gone"
    /\ op \in conn[c].pending
    /\ \E s \in outcomes : conn' = [conn EXCEPT ![c] = s]

HandshakeDone(c) ==
    /\ LET s == End(conn[c], "handshake")
       IN  Complete(c, "handshake", {Notify(s), DoRead(s)})
    /\ UNCHANGED <<server, ssl, installed, handing, asked, reply>>

StartDone(c) ==
    /\ Complete(c, "start", {DoRead(End(conn[c], "start"))})
    /\ UNCHANGED <<server, ssl, installed, handing, asked, reply>>

\* Mutant: the end of the stream is left to the shutdown, which TCP has none of.
ReadFailsUnnotified(c) ==
    /\ LET s == End(conn[c], "read")
       IN  Complete(c, "read", {DoClose(s), Notify(s)})
    /\ UNCHANGED <<server, ssl, installed, handing, asked, reply>>

\* on_read: the end of the stream, or another error (a timeout too).
ReadFails(c) ==
    /\ LET s == End(conn[c], "read")
       IN  Complete(c, "read", {Notify(DoClose(s)), Notify(s)})
    /\ UNCHANGED <<server, ssl, installed, handing, asked, reply>>

\* on_read: m_handler makes the response.  What throws leaves io_context::run.
ReadDone(c) ==
    /\ asked[c] < MaxRequests
    /\ asked' = [asked EXCEPT ![c] = @ + 1]
    /\ \E req \in Requests :
        LET s == End(conn[c], "read")
            answer == Routing[req][installed]
        IN  \/ /\ answer.status # "throws"
               /\ Complete(c, "read", {Begin(s, "write")})
               /\ reply' = [reply EXCEPT ![c] = [req |-> req, answer |-> answer]]
               /\ UNCHANGED server
            \/ /\ answer.status \in {"throws", "handled"}
               /\ Complete(c, "read", {Notify(s)})
               /\ server' = "failed"
               /\ UNCHANGED reply
    /\ UNCHANGED <<ssl, installed, handing>>

\* Mutant: the guard is dismissed in the error branch too.
WriteDoneUnguarded(c) ==
    /\ LET s == End(conn[c], "write")
       IN  Complete(c, "write", {s, Notify(DoClose(s)), DoRead(s)})
    /\ reply' = [reply EXCEPT ![c] = NoReply]
    /\ UNCHANGED <<server, ssl, installed, handing, asked>>

\* Mutant: no return after do_close().
WriteDoneFallsThrough(c) ==
    /\ LET s == End(conn[c], "write")
       IN  Complete(c, "write", {Notify(s), DoRead(DoClose(s)), DoRead(s)})
    /\ reply' = [reply EXCEPT ![c] = NoReply]
    /\ UNCHANGED <<server, ssl, installed, handing, asked>>

\* on_write.  close is a reference to a local of on_read, which returned: it
\* may read as either value.
WriteDone(c) ==
    /\ LET s == End(conn[c], "write")
       IN  Complete(c, "write", {Notify(s), Notify(DoClose(s)), DoRead(s)})
    /\ reply' = [reply EXCEPT ![c] = NoReply]
    /\ UNCHANGED <<server, ssl, installed, handing, asked>>

ShutdownDone(c) ==
    /\ Complete(c, "shutdown", {Notify(End(conn[c], "shutdown"))})
    /\ UNCHANGED <<server, ssl, installed, handing, asked, reply>>

\* The session was destroyed: its operations are aborted, and their
\* completions are called all the same.
Abort(c) ==
    /\ Free
    /\ Orphaned(conn[c])
    /\ server' = "undefined"
    /\ UNCHANGED <<ssl, installed, handing, conn, asked, reply>>

-------------------------------------------------------------------------------
(* The thread of a session.                                                *)
Goto(c, from, to) ==
    /\ server # "undefined"
    /\ conn[c].thread = from
    /\ conn' = [conn EXCEPT ![c].thread = to]
    /\ UNCHANGED <<server, ssl, installed, handing, asked, reply>>

\* Mutant: the first operations of TCP and TLS are swapped.
RunSwapped(c) ==
    /\ server # "undefined"
    /\ conn[c].thread = "spawned"
    /\ conn' = [conn EXCEPT ![c] =
                  [Begin(@, IF ssl THEN "start" ELSE "handshake") EXCEPT !.thread = "arm"]]
    /\ UNCHANGED <<server, ssl, installed, handing, asked, reply>>

\* The session takes the socket; run() starts the first operation.
Run(c) ==
    /\ server # "undefined"
    /\ conn[c].thread = "spawned"
    /\ conn' = [conn EXCEPT ![c] =
                  [Begin(@, IF ssl THEN "handshake" ELSE "start") EXCEPT !.thread = "arm"]]
    /\ UNCHANGED <<server, ssl, installed, handing, asked, reply>>

Wait(c) == Goto(c, "arm", "waiting")

WakeSpuriously(c) ==
    /\ server # "undefined"
    /\ conn[c].thread = "waiting"
    /\ conn' = [conn EXCEPT ![c].thread = "woken", ![c].stray = TRUE]
    /\ UNCHANGED <<server, ssl, installed, handing, asked, reply>>

\* run() returns and the session is destroyed.
Destroy(c) == Goto(c, "woken", "gone")

\* thread_runner::stop by any thread: io_context::stop.
Stop ==
    /\ server = "running"
    /\ server' = "stopped"
    /\ UNCHANGED <<ssl, installed, handing, conn, asked, reply>>

-------------------------------------------------------------------------------
Completion(c) ==
    \/ HandshakeDone(c)
    \/ StartDone(c)
    \/ ReadFails(c)
    \/ ReadDone(c)
    \/ WriteDone(c)
    \/ ShutdownDone(c)

Session(c) == Run(c) \/ Wait(c) \/ Destroy(c)

Next ==
    \/ Construct
    \/ AddHandler
    \/ AcceptReturns
    \/ Stop
    \/ \E c \in Connections :
        \/ Accept(c)
        \/ Completion(c)
        \/ Abort(c)
        \/ Session(c)
        \/ WakeSpuriously(c)

Spec == Init /\ [][Next]_vars

\* Every operation completes, after 30 s (expires_after) at the latest, and
\* no thread is kept from its next step.
Fairness ==
    /\ WF_vars(AcceptReturns)
    /\ \A c \in Connections : WF_vars(Completion(c)) /\ WF_vars(Session(c))

FairSpec == Spec /\ Fairness

-------------------------------------------------------------------------------
TypeOK ==
    /\ server \in {"constructing", "idle", "running", "stopped", "failed", "undefined"}
    /\ ssl \in BOOLEAN
    /\ installed \in 0..Len(Tree[Root].children)
    /\ handing \in Connections \cup {Nobody}
    /\ conn \in [Connections ->
                SessionType(IF ssl THEN Operations \ {"start"} ELSE Operations \ {"handshake", "shutdown"})]
    /\ asked \in [Connections -> 0..MaxRequests]

\* A stream carries one operation at a time, which Beast asks of its users:
\* the chain of completions of a session never forks, and a response is
\* under way exactly while its write is.
OneOperation ==
    \A c \in Connections :
        /\ Cardinality(conn[c].pending) <= 1
        /\ (reply[c] # NoReply) <=> ("write" \in conn[c].pending)

\* A session is not destroyed under an operation that refers to it, but for
\* a wait that ended without a cause and for the shutdown of TLS, which
\* on_read and on_write start and then notify all the same.
NoOrphans ==
    \A c \in Connections :
        Orphaned(conn[c]) => conn[c].stray \/ (ssl /\ conn[c].pending = {"shutdown"})

\* A thread that waits with nothing left to wake it missed a notify() that
\* came before its wait: no branch of a completion forgets to notify.
StuckMeansLost == \A c \in Connections : Stuck(conn[c]) => conn[c].lost

\* A request reaches the handle() of a handler only if every handler above
\* it, and it itself, that asks for authorisation accepted the credentials.
Authorised ==
    \A c \in Connections :
        reply[c].answer.status = "handled" =>
            \A h \in Above[reply[c].answer.by] :
                Tree[h].requires_auth => reply[c].req.credentials \in Tree[h].accepts

\* On a server that goes on running, a session ends, whatever its client
\* does, unless its thread missed its notify().
SessionsEnd ==
    \A c \in Connections :
        conn[c].thread = "waiting" ~>
            (conn[c].thread = "gone" \/ conn[c].lost \/ server # "running")
===============================================================================
