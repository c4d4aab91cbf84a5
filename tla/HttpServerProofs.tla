--------------------------- MODULE HttpServerProofs ---------------------------
(***************************************************************************)
(* Theorems about HttpServer, for any number of connections and requests,  *)
(* any tree of handlers, and over TCP and TLS.                             *)
(***************************************************************************)
EXTENDS HttpServer, SessionThreadProofs, WellFoundedInduction

Ops == IF ssl THEN Operations \ {"start"} ELSE Operations \ {"handshake", "shutdown"}

\* What holds of each session at each point of its thread: a thread that will
\* wait without an operation missed its notify(), and one that was notified
\* has left nothing behind but a shutdown.
Calm(s) ==
    /\ AtMostOne(s.pending)
    /\ s.thread \in {"none", "spawned"} => s.pending = {}
    /\ s.thread \in {"arm", "waiting"} /\ s.pending = {} => s.lost
    /\ s.thread \in {"woken", "gone"} =>
        s.stray \/ s.pending = {} \/ (ssl /\ s.pending = {"shutdown"})

AllCalm == \A c \in Connections : Calm(conn[c])

\* A reply is there exactly while it is written.
Replying ==
    /\ reply = [c \in Connections |-> reply[c]]
    /\ \A c \in Connections : reply[c] # NoReply <=> "write" \in conn[c].pending

Inv == TypeOK /\ AllCalm /\ Replying

-------------------------------------------------------------------------------
\* What the completion of an operation may make of its session: notify() and
\* nothing under way, the next operation, or a shutdown with a notify().
LEMMA Notified ==
    ASSUME TypeOK, NEW s \in SessionType(Ops), Calm(s), NEW op \in s.pending,
           s.thread # "gone", NEW w, w = Notify(End(s, op))
    PROVE  w \in SessionType(Ops) /\ Calm(w) /\ w.pending = {}
<1> DEFINE e == End(s, op)
<1>1. /\ e \in SessionType(Ops) /\ e.pending = {}
      /\ e.thread = s.thread /\ e.lost = s.lost /\ e.stray = s.stray
    BY EndFields DEF Calm
<1> HIDE DEF e
<1>2. /\ w \in SessionType(Ops) /\ w.pending = e.pending /\ w.stray = e.stray
      /\ e.thread = "waiting" => w.thread = "woken" /\ w.lost = e.lost
      /\ e.thread = "arm" => w.thread = "arm" /\ w.lost
      /\ e.thread \notin {"waiting", "arm"} => w = e
    BY <1>1, NotifyFields DEF e
<1> QED
    BY <1>1, <1>2 DEF Calm, AtMostOne

\* A completed operation that starts the next leaves the session calm.
LEMMA Continued ==
    ASSUME TypeOK, NEW s \in SessionType(Ops), Calm(s), NEW op \in s.pending,
           s.thread # "gone", op # "shutdown",
           NEW x \in Ops, NEW w, w = Begin(End(s, op), x)
    PROVE  w \in SessionType(Ops) /\ Calm(w) /\ w.pending = {x}
<1> DEFINE e == End(s, op)
<1>1. /\ e \in SessionType(Ops) /\ e.pending = {}
      /\ e.thread = s.thread /\ e.lost = s.lost /\ e.stray = s.stray
    BY EndFields DEF Calm
<1> HIDE DEF e
<1>2. /\ w \in SessionType(Ops) /\ w.pending = {x}
      /\ w.thread = s.thread /\ w.stray = s.stray
    BY <1>1, BeginFields DEF e
<1>3. s.thread = "woken" => s.stray
    BY DEF Calm
<1>4. s.thread \notin {"none", "spawned"}
    BY DEF Calm
<1> QED
    BY <1>2, <1>3, <1>4 DEF Calm, AtMostOne

\* A completed operation that closes the stream and notifies leaves the
\* session calm, with nothing to write.
LEMMA Closed ==
    ASSUME TypeOK, NEW s \in SessionType(Ops), Calm(s), NEW op \in s.pending,
           s.thread # "gone", op # "shutdown",
           NEW w, w = Notify(DoClose(End(s, op)))
    PROVE  w \in SessionType(Ops) /\ Calm(w) /\ "write" \notin w.pending
<1>1. CASE ~ssl
    BY <1>1, Notified DEF DoClose
<1>2. CASE ssl
  <2> DEFINE b == Begin(End(s, op), "shutdown")
  <2>1. "shutdown" \in Ops
    BY <1>2 DEF Ops, Operations
  <2>2. b \in SessionType(Ops) /\ Calm(b) /\ b.pending = {"shutdown"}
    BY <2>1, Continued
  <2>3. w = Notify(b)
    BY <1>2 DEF DoClose
  <2> HIDE DEF b
  <2>4. /\ w \in SessionType(Ops) /\ w.pending = b.pending /\ w.stray = b.stray
        /\ b.thread = "waiting" => w.thread = "woken" /\ w.lost = b.lost
        /\ b.thread = "arm" => w.thread = "arm" /\ w.lost
        /\ b.thread \notin {"waiting", "arm"} => w = b
    BY <2>2, <2>3, NotifyFields
  <2> QED
    BY <1>2, <2>2, <2>4 DEF Calm
<1> QED
    BY <1>1, <1>2

-------------------------------------------------------------------------------
\* A step moves one session, or none.
LEMMA OneMoves ==
    ASSUME Inv, NEW c \in Connections, NEW w \in SessionType(Ops), Calm(w),
           conn' = [conn EXCEPT ![c] = w], UNCHANGED <<ssl, installed>>,
           server' \in {"constructing", "idle", "running", "stopped", "failed", "undefined"},
           handing' \in Connections \cup {Nobody},
           asked' \in [Connections -> 0..MaxRequests],
           reply' = [d \in Connections |-> reply'[d]],
           reply'[c] # NoReply <=> "write" \in w.pending,
           \A d \in Connections \ {c} : reply'[d] = reply[d]
    PROVE  Inv'
<1>1. conn \in [Connections -> SessionType(Ops)]
    BY DEF Inv, TypeOK, Ops
<1>2. conn'[c] = w /\ \A d \in Connections \ {c} : conn'[d] = conn[d]
    BY <1>1
<1>3. conn' \in [Connections -> SessionType(Ops)'] /\ Ops' = Ops
    BY <1>1 DEF Ops
<1>4. TypeOK'
    BY <1>3 DEF Inv, TypeOK, Ops
<1>5. AllCalm'
  <2>1. \A d \in Connections : Calm(conn'[d])
    BY <1>2 DEF Inv, AllCalm
  <2> QED
    BY <2>1 DEF AllCalm, Calm
<1>6. Replying'
    BY <1>2 DEF Inv, Replying
<1> QED
    BY <1>4, <1>5, <1>6 DEF Inv

\* What the server does without a session keeps the invariant.
LEMMA NoneMoves ==
    ASSUME Inv, UNCHANGED <<ssl, conn, asked, reply>>,
           server' \in {"constructing", "idle", "running", "stopped", "failed", "undefined"},
           installed' \in 0..Len(Tree[Root].children),
           handing' \in Connections \cup {Nobody}
    PROVE  Inv'
<1>1. TypeOK'
    BY DEF Inv, TypeOK
<1>2. AllCalm' /\ Replying'
    BY DEF Inv, AllCalm, Replying, Calm
<1> QED
    BY <1>1, <1>2 DEF Inv

\* Every completion keeps the invariant.
LEMMA CompletionKeepsInv ==
    ASSUME Inv, NEW c \in Connections, Completion(c)
    PROVE  Inv'
<1> DEFINE s == conn[c]
<1>1. /\ TypeOK /\ Replying /\ s \in SessionType(Ops) /\ Calm(s)
      /\ ssl \in BOOLEAN
    BY DEF Inv, TypeOK, AllCalm, Ops
<1>2. /\ server \in {"constructing", "idle", "running", "stopped", "failed", "undefined"}
      /\ handing \in Connections \cup {Nobody} /\ asked \in [Connections -> 0..MaxRequests]
    BY <1>1 DEF TypeOK
<1>3. /\ reply = [d \in Connections |-> reply[d]]
      /\ reply[c] # NoReply <=> "write" \in s.pending
    BY <1>1 DEF Replying
<1>4. \A op \in s.pending : s.pending = {op} /\ op \in Ops
    BY <1>1 DEF Calm, AtMostOne, SessionType
<1>5. ASSUME NEW op \in {"handshake", "start", "read", "shutdown"}, NEW w,
             Complete(c, op, {w}), w \in SessionType(Ops), Calm(w), "write" \notin w.pending,
             UNCHANGED <<server, ssl, installed, handing, asked, reply>>
      PROVE  Inv'
  <2>1. conn' = [conn EXCEPT ![c] = w] /\ op \in s.pending
    BY <1>5 DEF Complete
  <2>2. reply[c] = NoReply
    BY <1>3, <1>4, <2>1
  <2> QED
    BY <1>2, <1>3, <1>5, <2>1, <2>2, OneMoves
<1>6. ASSUME Complete(c, "write", {Notify(End(s, "write")), Notify(DoClose(End(s, "write"))),
                                   DoRead(End(s, "write"))})
      PROVE  \E w \in SessionType(Ops) : /\ Calm(w) /\ "write" \notin w.pending
                                         /\ conn' = [conn EXCEPT ![c] = w]
  <2>1. "write" \in s.pending /\ s.thread # "gone" /\ "read" \in Ops
    BY <1>1, <1>6 DEF Complete, Ops, Operations
  <2>2. CASE conn' = [conn EXCEPT ![c] = Notify(End(s, "write"))]
    BY <1>1, <2>1, <2>2, Notified
  <2>3. CASE conn' = [conn EXCEPT ![c] = Notify(DoClose(End(s, "write")))]
    BY <1>1, <2>1, <2>3, Closed
  <2>4. CASE conn' = [conn EXCEPT ![c] = DoRead(End(s, "write"))]
    <3>1. PICK w : w = Begin(End(s, "write"), "read")
      OBVIOUS
    <3>2. w \in SessionType(Ops) /\ Calm(w) /\ w.pending = {"read"}
      BY <1>1, <2>1, <3>1, Continued
    <3>3. conn' = [conn EXCEPT ![c] = w] /\ "write" \notin w.pending
      BY <2>4, <3>1, <3>2 DEF DoRead
    <3> QED
      BY <3>2, <3>3
  <2> QED
    BY <1>6, <2>2, <2>3, <2>4 DEF Complete
<1>7. CASE HandshakeDone(c)
  <2>1. PICK w \in {Notify(End(s, "handshake")), DoRead(End(s, "handshake"))} :
            Complete(c, "handshake", {w})
    BY <1>7 DEF HandshakeDone, Complete
  <2>2. /\ "handshake" \in s.pending /\ s.thread # "gone" /\ "read" \in Ops
        /\ UNCHANGED <<server, ssl, installed, handing, asked, reply>>
    BY <1>1, <1>7 DEF HandshakeDone, Complete, Ops, Operations
  <2>3. w \in SessionType(Ops) /\ Calm(w) /\ "write" \notin w.pending
    BY <1>1, <2>1, <2>2, Notified, Continued DEF DoRead
  <2> QED
    BY <1>5, <2>1, <2>2, <2>3
<1>8. CASE StartDone(c)
  <2> DEFINE w == DoRead(End(s, "start"))
  <2>1. /\ Complete(c, "start", {w})
        /\ "start" \in s.pending /\ s.thread # "gone" /\ "read" \in Ops
        /\ UNCHANGED <<server, ssl, installed, handing, asked, reply>>
    BY <1>1, <1>8 DEF StartDone, Complete, Ops, Operations
  <2>2. w \in SessionType(Ops) /\ Calm(w) /\ "write" \notin w.pending
    BY <1>1, <2>1, Continued DEF DoRead
  <2> QED
    BY <1>5, <2>1, <2>2
<1>9. CASE ReadFails(c)
  <2>1. PICK w \in {Notify(DoClose(End(s, "read"))), Notify(End(s, "read"))} :
            Complete(c, "read", {w})
    BY <1>9 DEF ReadFails, Complete
  <2>2. /\ "read" \in s.pending /\ s.thread # "gone"
        /\ UNCHANGED <<server, ssl, installed, handing, asked, reply>>
    BY <1>9 DEF ReadFails, Complete
  <2>3. w \in SessionType(Ops) /\ Calm(w) /\ "write" \notin w.pending
    BY <1>1, <2>1, <2>2, Notified, Closed
  <2> QED
    BY <1>5, <2>1, <2>2, <2>3
<1>10. CASE ReadDone(c)
  <2> DEFINE answer(req) == Routing[req][installed]
  <2>1. /\ asked[c] < MaxRequests /\ asked' = [asked EXCEPT ![c] = @ + 1]
        /\ "read" \in s.pending /\ s.thread # "gone"
        /\ UNCHANGED <<ssl, installed, handing>>
    BY <1>10 DEF ReadDone, Complete
  <2>2. asked' \in [Connections -> 0..MaxRequests]
    BY <1>2, <2>1, BoundAssumption
  <2>3. reply[c] = NoReply /\ "write" \in Ops
    BY <1>1, <1>3, <1>4, <2>1 DEF Ops, Operations
  <2>4. ASSUME NEW req \in Requests, NEW a, Complete(c, "read", {Begin(End(s, "read"), "write")}),
               reply' = [reply EXCEPT ![c] = [req |-> req, answer |-> a]], UNCHANGED server
        PROVE  Inv'
    <3> DEFINE w == Begin(End(s, "read"), "write")
    <3>1. w \in SessionType(Ops) /\ Calm(w) /\ w.pending = {"write"}
      BY <1>1, <2>1, <2>3, Continued
    <3>2. conn' = [conn EXCEPT ![c] = w]
      BY <2>4 DEF Complete
    <3> HIDE DEF w
    <3>3. /\ reply' = [d \in Connections |-> reply'[d]]
          /\ reply'[c] = [req |-> req, answer |-> a]
          /\ \A d \in Connections \ {c} : reply'[d] = reply[d]
      BY <1>3, <2>4
    <3>4. reply'[c] # NoReply
      BY <3>3, BoundAssumption DEF NoReply
    <3> QED
      BY <1>2, <2>1, <2>2, <2>4, <3>1, <3>2, <3>3, <3>4, OneMoves
  <2>5. ASSUME Complete(c, "read", {Notify(End(s, "read"))}), server' = "failed", UNCHANGED reply
        PROVE  Inv'
    <3> DEFINE w == Notify(End(s, "read"))
    <3>1. w \in SessionType(Ops) /\ Calm(w) /\ w.pending = {}
      BY <1>1, <2>1, Notified
    <3>2. conn' = [conn EXCEPT ![c] = w]
      BY <2>5 DEF Complete
    <3> HIDE DEF w
    <3> QED
      BY <1>2, <1>3, <2>1, <2>2, <2>3, <2>5, <3>1, <3>2, OneMoves
  <2> QED
    BY <1>10, <2>4, <2>5 DEF ReadDone
<1>11. CASE WriteDone(c)
  <2>1. PICK w \in SessionType(Ops) : /\ Calm(w) /\ "write" \notin w.pending
                                      /\ conn' = [conn EXCEPT ![c] = w]
    BY <1>6, <1>11 DEF WriteDone
  <2>2. /\ reply' = [reply EXCEPT ![c] = NoReply]
        /\ UNCHANGED <<server, ssl, installed, handing, asked>>
    BY <1>11 DEF WriteDone
  <2>3. /\ reply' = [d \in Connections |-> reply'[d]] /\ reply'[c] = NoReply
        /\ \A d \in Connections \ {c} : reply'[d] = reply[d]
    BY <1>3, <2>2
  <2> QED
    BY <1>2, <2>1, <2>2, <2>3, OneMoves
<1>12. CASE ShutdownDone(c)
  <2> DEFINE w == Notify(End(s, "shutdown"))
  <2>1. /\ Complete(c, "shutdown", {w}) /\ "shutdown" \in s.pending /\ s.thread # "gone"
        /\ UNCHANGED <<server, ssl, installed, handing, asked, reply>>
    BY <1>12 DEF ShutdownDone, Complete
  <2>2. w \in SessionType(Ops) /\ Calm(w) /\ "write" \notin w.pending
    BY <1>1, <2>1, Notified
  <2> QED
    BY <1>5, <2>1, <2>2
<1> QED
    BY <1>7, <1>8, <1>9, <1>10, <1>11, <1>12 DEF Completion

\* So does every step of a session's thread, which begins its first operation
\* and never waits without one, unless its notify() was lost.
LEMMA ThreadKeepsInv ==
    ASSUME Inv, NEW c \in Connections, Session(c) \/ WakeSpuriously(c)
    PROVE  Inv'
<1> DEFINE s == conn[c]
           first == IF ssl THEN "handshake" ELSE "start"
<1>1. /\ s \in SessionType(Ops) /\ Calm(s) /\ ssl \in BOOLEAN
      /\ server \in {"constructing", "idle", "running", "stopped", "failed", "undefined"}
      /\ handing \in Connections \cup {Nobody} /\ asked \in [Connections -> 0..MaxRequests]
    BY DEF Inv, TypeOK, AllCalm, Ops
<1>2. /\ reply = [d \in Connections |-> reply[d]]
      /\ reply[c] # NoReply <=> "write" \in s.pending
    BY DEF Inv, Replying
<1>3. UNCHANGED <<server, ssl, installed, handing, asked, reply>>
    BY DEF Session, Run, Wait, Destroy, WakeSpuriously, Goto
<1>4. ASSUME NEW w \in SessionType(Ops), Calm(w), conn' = [conn EXCEPT ![c] = w],
             "write" \in w.pending <=> "write" \in s.pending
      PROVE  Inv'
    BY <1>1, <1>2, <1>3, <1>4, OneMoves
<1>5. CASE Run(c)
  <2>1. s.thread = "spawned" /\ s.pending = {}
    BY <1>1, <1>5 DEF Run, Calm
  <2>2. first \in Ops /\ first # "write"
    BY <1>1 DEF Ops, Operations
  <2>3. PICK b \in SessionType(Ops) : b = Begin(s, first) /\ b.pending = {first}
    BY <1>1, <2>1, <2>2, BeginFields
  <2> DEFINE w == [b EXCEPT !.thread = "arm"]
  <2>4. w \in SessionType(Ops) /\ w.thread = "arm" /\ w.pending = {first}
    BY <2>3, ThreadFields DEF Threads
  <2>5. conn' = [conn EXCEPT ![c] = w]
    BY <1>5, <2>3, <2>4 DEF Run
  <2>6. Calm(w)
    BY <2>4 DEF Calm, AtMostOne
  <2> QED
    BY <1>4, <2>1, <2>2, <2>4, <2>5, <2>6
<1>6. CASE Wait(c)
  <2> DEFINE w == [s EXCEPT !.thread = "waiting"]
  <2>1. /\ w \in SessionType(Ops) /\ w.thread = "waiting"
        /\ w.pending = s.pending /\ w.lost = s.lost
    BY <1>1, ThreadFields DEF Threads
  <2>2. conn' = [conn EXCEPT ![c] = w] /\ s.thread = "arm"
    BY <1>6, <2>1 DEF Wait, Goto
  <2>3. Calm(w)
    BY <1>1, <2>1, <2>2 DEF Calm
  <2> QED
    BY <1>4, <2>1, <2>2, <2>3
<1>7. CASE Destroy(c)
  <2> DEFINE w == [s EXCEPT !.thread = "gone"]
  <2>1. /\ w \in SessionType(Ops) /\ w.thread = "gone"
        /\ w.pending = s.pending /\ w.stray = s.stray
    BY <1>1, ThreadFields DEF Threads
  <2>2. conn' = [conn EXCEPT ![c] = w] /\ s.thread = "woken"
    BY <1>7, <2>1 DEF Destroy, Goto
  <2>3. Calm(w)
    BY <1>1, <2>1, <2>2 DEF Calm
  <2> QED
    BY <1>4, <2>1, <2>2, <2>3
<1>8. CASE WakeSpuriously(c)
  <2>1. PICK w \in SessionType(Ops) :
            /\ w = [s EXCEPT !.thread = "woken", !.stray = TRUE] /\ w.thread = "woken"
            /\ w.pending = s.pending /\ w.stray
    BY <1>1, StrayFields
  <2>2. conn' = [conn EXCEPT ![c] = w]
    BY <1>8, <2>1 DEF WakeSpuriously
  <2>3. Calm(w)
    BY <1>1, <2>1 DEF Calm
  <2> QED
    BY <1>4, <2>1, <2>2, <2>3
<1> QED
    BY <1>5, <1>6, <1>7, <1>8 DEF Session

\* The server itself starts sessions, and gives up those it cannot start.
LEMMA ServerKeepsInv ==
    ASSUME Inv,
           Construct \/ AddHandler \/ AcceptReturns \/ Stop
           \/ \E c \in Connections : Accept(c) \/ Abort(c)
    PROVE  Inv'
<1>1. /\ server \in {"constructing", "idle", "running", "stopped", "failed", "undefined"}
      /\ handing \in Connections \cup {Nobody} /\ asked \in [Connections -> 0..MaxRequests]
      /\ installed \in 0..Len(Tree[Root].children)
    BY DEF Inv, TypeOK
<1>2. CASE AddHandler
  <2>1. PICK l \in Nat : l = Len(Tree[Root].children)
    BY HandlersAssumption
  <2>2. installed \in 0..l /\ installed < l /\ installed' = installed + 1
    BY <1>1, <1>2, <2>1 DEF AddHandler
  <2>3. installed' \in 0..l
    BY <2>2
  <2>4. UNCHANGED <<server, ssl, handing, conn, asked, reply>>
    BY <1>2 DEF AddHandler
  <2> QED
    BY <1>1, <2>1, <2>3, <2>4, NoneMoves
<1>3. CASE Construct \/ AcceptReturns \/ Stop \/ \E c \in Connections : Abort(c)
  <2>1. /\ UNCHANGED <<ssl, installed, conn, asked, reply>>
        /\ server' \in {"constructing", "idle", "running", "stopped", "failed", "undefined"}
        /\ handing' \in Connections \cup {Nobody}
    BY <1>1, <1>3 DEF Construct, AcceptReturns, Stop, Abort
  <2> QED
    BY <1>1, <2>1, NoneMoves
<1>4. ASSUME NEW c \in Connections, Accept(c) PROVE Inv'
  <2>1. UNCHANGED <<ssl, installed, asked, reply>>
    BY <1>4 DEF Accept
  <2>2. CASE server' = "failed" /\ UNCHANGED <<conn, handing>>
    BY <1>1, <2>1, <2>2, NoneMoves
  <2>3. CASE conn' = [conn EXCEPT ![c].thread = "spawned"] /\ handing' = c /\ UNCHANGED server
    <3>1. /\ conn[c] \in SessionType(Ops) /\ conn[c].thread = "none" /\ conn[c].pending = {}
          /\ conn \in [Connections -> SessionType(Ops)]
      BY <1>4 DEF Inv, TypeOK, AllCalm, Calm, Ops, Accept
    <3> DEFINE w == [conn[c] EXCEPT !.thread = "spawned"]
    <3>2. w \in SessionType(Ops) /\ w.thread = "spawned" /\ w.pending = {}
      BY <3>1, ThreadFields DEF Threads
    <3>3. conn' = [conn EXCEPT ![c] = w] /\ Calm(w)
      BY <2>3, <3>1, <3>2 DEF Calm, AtMostOne
    <3>4. /\ reply = [d \in Connections |-> reply[d]]
          /\ reply[c] # NoReply <=> "write" \in w.pending
      BY <3>1, <3>2 DEF Inv, Replying
    <3> QED
      BY <1>1, <2>1, <2>3, <3>2, <3>3, <3>4, OneMoves
  <2> QED
    BY <1>4, <2>2, <2>3 DEF Accept
<1> QED
    BY <1>2, <1>3, <1>4

\* The inductive invariant: every session is calm, and replies are written.
THEOREM Invariance == Spec => []Inv
<1>1. Init => Inv
  <2> SUFFICES ASSUME Init PROVE Inv
    OBVIOUS
  <2>1. conn = [c \in Connections |-> Unconnected] /\ ssl \in BOOLEAN
    BY DEF Init
  <2>2. Unconnected \in SessionType(Ops)
    BY DEF Unconnected, SessionType, Threads
  <2>3. 0 \in 0..Len(Tree[Root].children) /\ 0 \in 0..MaxRequests
    BY HandlersAssumption, BoundAssumption
  <2>4. TypeOK
    BY <2>1, <2>2, <2>3 DEF Init, TypeOK, Ops
  <2>5. \A c \in Connections : conn[c].thread = "none" /\ conn[c].pending = {}
    BY <2>1 DEF Unconnected
  <2>6. AllCalm
    BY <2>5 DEF AllCalm, Calm, AtMostOne
  <2>7. Replying
    BY <2>5 DEF Init, Replying
  <2> QED
    BY <2>4, <2>6, <2>7 DEF Inv
<1>2. Inv /\ [Next]_vars => Inv'
  <2>1. CASE UNCHANGED vars
    BY <2>1 DEF vars, Inv, TypeOK, AllCalm, Calm, Replying
  <2> QED
    BY <2>1, CompletionKeepsInv, ThreadKeepsInv, ServerKeepsInv DEF Next
<1> QED
    BY <1>1, <1>2, PTL DEF Spec

\* Every variable keeps its type.
THEOREM Typing == Spec => []TypeOK
<1>1. Inv => TypeOK
    BY DEF Inv
<1> QED
    BY <1>1, Invariance, PTL

\* A session never has two operations under way on its stream, and its reply
\* lasts as long as its write.
THEOREM StreamsCarryOne == Spec => []OneOperation
<1>1. Inv => OneOperation
    BY AtMostOneCardinality DEF Inv, AllCalm, Calm, Replying, OneOperation
<1> QED
    BY <1>1, Invariance, PTL

\* No session is destroyed under an operation but by a wake-up without a cause
\* or with its TLS shutdown under way.
THEOREM SessionsOutlive == Spec => []NoOrphans
<1>1. Inv => NoOrphans
    BY DEF Inv, AllCalm, Calm, NoOrphans, Orphaned
<1> QED
    BY <1>1, Invariance, PTL

\* Every branch of every completion notifies or begins another operation.
THEOREM NotifiesComeFirst == Spec => []StuckMeansLost
<1>1. Inv => StuckMeansLost
    BY DEF Inv, AllCalm, Calm, StuckMeansLost, Stuck
<1> QED
    BY <1>1, Invariance, PTL

-------------------------------------------------------------------------------
(* The handlers a request passes.  Induction over its path is by the       *)
(* smallest counterexample, as a set of numbers.                           *)
LEMMA SmallestOf ==
    ASSUME NEW T, T \subseteq Nat, T # {}
    PROVE  \E m \in T : \A k \in T : m <= k
<1> DEFINE R == {ss \in Nat \X Nat : ss[1] < ss[2]}
<1>1. IsWellFoundedOn(R, Nat)
    BY NatLessThanWellFounded DEF OpToRel
<1> HIDE DEF R
<1>2. PICK m \in T : \A k \in T : ~(<<k, m>> \in R)
    BY <1>1, WFMin
<1>3. ASSUME NEW k \in T, k < m
      PROVE  <<k, m>> \in R
    BY <1>3 DEF R
<1>4. m \in T /\ \A k \in T : ~(k < m)
    BY <1>2, <1>3
<1>5. m \in Nat /\ \A k \in T : m <= k
    BY <1>4
<1> QED
    BY <1>4, <1>5

\* The least number of a set is in it.
LEMMA MinIsElement ==
    ASSUME NEW T, T \subseteq Nat, T # {}
    PROVE  Min(T) \in T
    BY SmallestOf DEF Min

\* The next part of a path is one of those left, or there is none.
LEMMA NextPartInPath ==
    ASSUME NEW path, Len(path) \in Nat, NEW i \in Nat
    PROVE  NextPart(path, i) = 0 \/ NextPart(path, i) \in i..Len(path)
<1> DEFINE I == {j \in i..Len(path) : path[j] # ""}
<1>1. NextPart(path, i) = IF I # {} THEN Min(I) ELSE 0
    BY DEF NextPart, SelectInSubSeq
<1>2. PICK l \in Nat : l = Len(path)
    OBVIOUS
<1>3. I \subseteq i..l
    BY <1>2
<1>4. i..l \subseteq Nat
    OBVIOUS
<1> HIDE DEF I
<1>5. I \subseteq Nat /\ I \subseteq i..Len(path)
    BY <1>2, <1>3, <1>4
<1> QED
    BY <1>1, <1>5, MinIsElement

\* The first handler that matches is one of the list, or there is none.
LEMMA FirstMatchInList ==
    ASSUME NEW handlers, Len(handlers) \in Nat, NEW part
    PROVE  FirstMatch(handlers, part) = 0 \/ FirstMatch(handlers, part) \in 1..Len(handlers)
<1> DEFINE I == {j \in 1..Len(handlers) : part \in Tree[handlers[j]].matches}
<1>1. FirstMatch(handlers, part) = IF I # {} THEN Min(I) ELSE 0
    BY DEF FirstMatch, SelectInSeq
<1>2. I \subseteq Nat /\ I \subseteq 1..Len(handlers)
    OBVIOUS
<1> HIDE DEF I
<1> QED
    BY <1>1, <1>2, MinIsElement

\* The handlers that are tried are children.
LEMMA ListHasChildren ==
    ASSUME NEW h \in Handlers \cup {Root}, NEW top \in 0..Len(Tree[Root].children)
    PROVE  /\ Len(List(h, top)) \in Nat
           /\ \A k \in 1..Len(List(h, top)) :
                List(h, top)[k] \in Handlers /\ List(h, top)[k] \in ToSet(Tree[h].children)
<1> DEFINE children == Tree[h].children
<1>1. children \in Seq(Handlers)
    BY HandlersAssumption
<1>2. CASE h # Root
    BY <1>1, <1>2 DEF List, ToSet
<1>3. CASE h = Root
  <2>1. PICK l \in Nat : l = Len(children) /\ top \in 0..l
    BY <1>1, <1>3
  <2>2. List(h, top) = SubSeq(children, 1, top)
    BY <1>3 DEF List
  <2> HIDE DEF children
  <2>3. /\ Len(List(h, top)) = top
        /\ \A k \in 1..top : List(h, top)[k] = children[k] /\ k \in DOMAIN children
                             /\ children[k] \in Handlers
    BY <1>1, <2>1, <2>2
  <2> QED
    BY <2>1, <2>3 DEF ToSet, children
<1> QED
    BY <1>2, <1>3

\* A function that answers from part n of a path on as handle() does.
HandlesFrom(f, n, path, credentials, top) ==
    f = [i \in n..Len(path) + 1 |-> [h \in Handlers \cup {Root} |->
            HandleAt(path, i, h, credentials, top, f)]]

\* handle() calls itself only with less of the path.
LEMMA HandleAtDepends ==
    ASSUME NEW path, Len(path) \in Nat, NEW i \in 1..Len(path) + 1, NEW h, NEW credentials,
           NEW top, NEW f, NEW g, \A j \in i + 1..Len(path) + 1 : f[j] = g[j]
    PROVE  HandleAt(path, i, h, credentials, top, f) = HandleAt(path, i, h, credentials, top, g)
<1>1. PICK j : j = NextPart(path, i)
    OBVIOUS
<1>2. j = 0 \/ j \in i..Len(path)
    BY <1>1, NextPartInPath
<1>3. j # 0 => f[j + 1] = g[j + 1]
    BY <1>2
<1> QED
    BY <1>1, <1>3 DEF HandleAt

\* The functions that handle a path from each of its parts on exist.
LEMMA HandleExists ==
    ASSUME NEW path, Len(path) \in Nat, NEW credentials, NEW top
    PROVE  \E f : HandlesFrom(f, 1, path, credentials, top)
<1>1. PICK l \in Nat : l = Len(path)
    OBVIOUS
<1> DEFINE D == Handlers \cup {Root}
           Row(f, i) == [h \in D |-> HandleAt(path, i, h, credentials, top, f)]
           From(f, n) == f = [i \in n..l + 1 |-> Row(f, i)]
           T == {d \in 0..l : ~\E f : From(f, l + 1 - d)}
<1>2. ASSUME NEW i \in 1..l + 1, NEW f, NEW g, \A j \in i + 1..l + 1 : f[j] = g[j]
      PROVE  Row(f, i) = Row(g, i)
    BY <1>1, <1>2, HandleAtDepends
<1>3. ASSUME NEW n \in 1..l + 1, NEW f, \A i \in n + 1..l + 1 : f[i] = Row(f, i)
      PROVE  \E g : From(g, n)
  <2> HIDE DEF Row
  <2> DEFINE g == [i \in n..l + 1 |-> IF i = n THEN Row(f, n) ELSE f[i]]
  <2>1. \A i \in n + 1..l + 1 : g[i] = f[i]
    OBVIOUS
  <2>2. \A i \in n..l + 1 : Row(g, i) = Row(f, i)
    <3> SUFFICES ASSUME NEW i \in n..l + 1
                 PROVE  Row(g, i) = Row(f, i)
      OBVIOUS
    <3>1. i \in 1..l + 1 /\ \A j \in i + 1..l + 1 : g[j] = f[j]
      BY <2>1
    <3> HIDE DEF g
    <3> QED
      BY <1>2, <3>1
  <2>3. \A i \in n..l + 1 : g[i] = Row(f, i)
    BY <1>3
  <2>4. From(g, n)
    BY <2>2, <2>3
  <2> QED
    BY <2>4
<1>4. T = {}
  <2> SUFFICES ASSUME T # {}
               PROVE  FALSE
    OBVIOUS
  <2> HIDE DEF Row, From
  <2>5. T \subseteq Nat
    BY <1>1
  <2> HIDE DEF T
  <2>1. PICK m \in T : \A k \in T : m <= k
    BY <2>5, SmallestOf
  <2> USE DEF T
  <2>2. m \in 0..l /\ ~\E f : From(f, l + 1 - m)
    BY <2>1
  <2>3. PICK n \in 1..l + 1 : n = l + 1 - m
    BY <1>1, <2>2
  <2>4. \E f : \A i \in n + 1..l + 1 : f[i] = Row(f, i)
    <3>1. CASE m = 0
      <4>1. n + 1..l + 1 = {}
        BY <1>1, <2>3, <3>1
      <4> QED
        BY <4>1
    <3>2. CASE m # 0
      <4>1. m - 1 \in 0..l /\ ~(m <= m - 1) /\ l + 1 - (m - 1) = n + 1
        BY <1>1, <2>2, <2>3, <3>2
      <4>2. m - 1 \notin T
        BY <2>1, <4>1
      <4>3. PICK f : From(f, l + 1 - (m - 1))
        BY <4>1, <4>2
      <4>4. From(f, n + 1)
        BY <4>1, <4>3
      <4> QED
        BY <4>4 DEF From
    <3> QED
      BY <3>1, <3>2
  <2> QED
    BY <1>3, <2>2, <2>3, <2>4
<1>5. \E f : From(f, 1)
  <2> HIDE DEF Row, From
  <2>1. l \in 0..l /\ l + 1 - l = 1
    BY <1>1
  <2>2. \E f : From(f, l + 1 - l)
    BY <1>4, <2>1
  <2> QED
    BY <2>1, <2>2
<1> QED
    BY <1>1, <1>5 DEF HandlesFrom

\* What Dispatch chooses are these functions, from the first part and the root.
LEMMA DispatchIsHandle ==
    ASSUME NEW path, Len(path) \in Nat, NEW credentials, NEW top
    PROVE  \E f : /\ HandlesFrom(f, 1, path, credentials, top)
                  /\ Dispatch(path, credentials, top) = f[1][Root]
<1> DEFINE P(f) == HandlesFrom(f, 1, path, credentials, top)
           F == CHOOSE f : P(f)
<1>1. Dispatch(path, credentials, top) = F[1][Root]
    BY DEF Dispatch, HandlesFrom
<1> HIDE DEF P
<1>2. P(F)
  <2>1. \E f : P(f)
    BY HandleExists DEF P
  <2> QED
    BY <2>1
<1> HIDE DEF F
<1> QED
    BY <1>1, <1>2 DEF P

\* h was reached with these credentials: all that are above it accept them.
Accepting(S, credentials) ==
    \A h \in S : Tree[h].requires_auth => credentials \in Tree[h].accepts
Passed(h, credentials) ==
    \E S \in SUBSET Handlers :
        Upward(S) /\ Accepting(S, credentials) /\ (h = Root \/ h \in S)

\* A child of a handler that was passed, which accepts the credentials, is
\* passed.
LEMMA PassedOn ==
    ASSUME NEW credentials, NEW h \in Handlers \cup {Root}, Passed(h, credentials),
           NEW g \in Handlers, g \in ToSet(Tree[h].children),
           Authorisation(g, credentials) = "ok"
    PROVE  Passed(g, credentials)
<1>1. PICK S \in SUBSET Handlers :
        Upward(S) /\ Accepting(S, credentials) /\ (h = Root \/ h \in S)
    BY DEF Passed
<1> DEFINE U == S \cup {g}
<1>2. Tree[g].requires_auth => credentials \in Tree[g].accepts
    BY DEF Authorisation
<1>3. Accepting(U, credentials)
    BY <1>1, <1>2 DEF Accepting
<1>4. ASSUME NEW p \in Handlers, NEW q \in U, q \in ToSet(Tree[p].children)
      PROVE  p \in U
  <2>1. CASE q = g
    <3>1. ToSet(Tree[p].children) \cap ToSet(Tree[h].children) # {}
      BY <1>4, <2>1
    <3>2. p = h
      BY <3>1, HandlersAssumption
    <3>3. Root \notin Handlers
      BY HandlersAssumption
    <3> QED
      BY <1>1, <3>2, <3>3
  <2>2. CASE q \in S
    BY <1>1, <1>4, <2>2 DEF Upward
  <2> QED
    BY <2>1, <2>2
<1>5. Upward(U)
    BY <1>4 DEF Upward
<1> QED
    BY <1>1, <1>3, <1>5 DEF Passed

\* Who handles a request was passed: itself and all above it accept.
LEMMA HandledMeansPassed ==
    ASSUME NEW path, Len(path) \in Nat, NEW credentials,
           NEW top \in 0..Len(Tree[Root].children),
           NEW f, HandlesFrom(f, 1, path, credentials, top)
    PROVE  f[1][Root].status = "handled" =>
             f[1][Root].by \in Handlers /\ Passed(f[1][Root].by, credentials)
<1>1. PICK l \in Nat : l = Len(path)
    OBVIOUS
<1> DEFINE D == Handlers \cup {Root}
           Good(answer) == answer.status = "handled" =>
                             answer.by \in Handlers /\ Passed(answer.by, credentials)
           T == {d \in 0..l : \E h \in D : Passed(h, credentials) /\ ~Good(f[l + 1 - d][h])}
<1>2. \A i \in 1..l + 1, h \in D :
        f[i][h] = HandleAt(path, i, h, credentials, top, f)
    BY <1>1 DEF HandlesFrom
<1>3. T = {}
  <2> SUFFICES ASSUME T # {}
               PROVE  FALSE
    OBVIOUS
  <2> HIDE DEF Good
  <2>1. T \subseteq Nat
    BY <1>1
  <2> HIDE DEF T
  <2>2. PICK m \in T : \A k \in T : m <= k
    BY <2>1, SmallestOf
  <2> USE DEF T
  <2>3. PICK h \in D : Passed(h, credentials) /\ ~Good(f[l + 1 - m][h])
    BY <2>2
  <2>4. PICK n \in 1..l + 1 : n = l + 1 - m /\ m \in 0..l
    BY <1>1, <2>2
  <2>5. PICK j : j = NextPart(path, n)
    OBVIOUS
  <2>6. PICK k : k = FirstMatch(List(h, top), path[j])
    OBVIOUS
  <2>7. PICK g : g = List(h, top)[k]
    OBVIOUS
  <2>8. PICK a : a = f[n][h]
    OBVIOUS
  <2>9. a = IF j = 0 \/ k = 0 THEN Refuse("bad_request")
            ELSE IF Authorisation(g, credentials) # "ok"
            THEN Refuse(Authorisation(g, credentials))
            ELSE IF List(g, top) = <<>> \/ j = Len(path)
            THEN Answer("handled", g)
            ELSE f[j + 1][g]
    BY <1>2, <2>3, <2>4, <2>5, <2>6, <2>7, <2>8 DEF HandleAt
  <2>10. ~Good(a) /\ Passed(h, credentials)
    BY <2>3, <2>4, <2>8
  <2>11. a.status = "handled"
    BY <2>10 DEF Good
  <2>12. j # 0 /\ k # 0 /\ Authorisation(g, credentials) = "ok"
    BY <2>9, <2>11 DEF Refuse, Answer, Authorisation
  <2>13. j \in n..l
    BY <1>1, <2>4, <2>5, <2>12, NextPartInPath
  <2>14. g \in Handlers /\ g \in ToSet(Tree[h].children)
    <3>1. Len(List(h, top)) \in Nat
      BY ListHasChildren
    <3>2. k \in 1..Len(List(h, top))
      BY <2>6, <2>12, <3>1, FirstMatchInList
    <3> QED
      BY <2>7, <3>2, ListHasChildren
  <2>15. Passed(g, credentials)
    BY <2>10, <2>12, <2>14, PassedOn
  <2>16. CASE List(g, top) = <<>> \/ j = Len(path)
    <3>1. a = Answer("handled", g)
      BY <2>9, <2>12, <2>16
    <3>2. a.by = g
      BY <3>1 DEF Answer
    <3> QED
      BY <2>10, <2>14, <2>15, <3>2 DEF Good
  <2>17. CASE ~(List(g, top) = <<>> \/ j = Len(path))
    <3>1. a = f[j + 1][g]
      BY <2>9, <2>12, <2>17
    <3>2. PICK d : d = l - j
      OBVIOUS
    <3>3. d \in 0..l /\ ~(m <= d) /\ l + 1 - d = j + 1
      BY <1>1, <2>4, <2>13, <3>2
    <3>4. d \notin T
      BY <2>2, <3>3
    <3>5. Good(f[j + 1][g])
      BY <2>14, <2>15, <3>3, <3>4
    <3> QED
      BY <2>10, <3>1, <3>5
  <2> QED
    BY <2>16, <2>17
<1>4. Passed(Root, credentials)
  <2>1. Upward({}) /\ Accepting({}, credentials)
    BY DEF Upward, Accepting
  <2> QED
    BY <2>1 DEF Passed
<1>5. l \in 0..l /\ l + 1 - l = 1
    BY <1>1
<1> QED
    BY <1>3, <1>4, <1>5

\* What handle(req) lets through is authorised.
AllAccept(by, credentials) ==
    \A h \in Above[by] : Tree[h].requires_auth => credentials \in Tree[h].accepts

\* Who handles a request is authorised by every handler on the way.
LEMMA HandleAuthorises ==
    ASSUME NEW req \in Requests, NEW top \in 0..Len(Tree[Root].children),
           Handle(req, top).status = "handled"
    PROVE  AllAccept(Handle(req, top).by, req.credentials)
<1>1. PICK path : path = Split(req.target)
    OBVIOUS
<1>2. Len(path) \in Nat
  <2>1. req.target \in Seq(STRING) /\ req.target # <<>>
    BY RequestsAssumption
  <2>2. Front(req.target) \in Seq(STRING)
    BY <2>1 DEF Front
  <2>3. path \in Seq(STRING)
    BY <1>1, <2>1, <2>2 DEF Split
  <2> QED
    BY <2>3
<1>3. Handle(req, top) = Dispatch(path, req.credentials, top)
    BY <1>1 DEF Handle, Refuse, Answer
<1>4. PICK f : /\ HandlesFrom(f, 1, path, req.credentials, top)
               /\ Dispatch(path, req.credentials, top) = f[1][Root]
    BY <1>2, DispatchIsHandle
<1>5. PICK by \in Handlers : by = Handle(req, top).by /\ Passed(by, req.credentials)
    BY <1>2, <1>3, <1>4, HandledMeansPassed
<1>6. PICK S \in SUBSET Handlers : Upward(S) /\ Accepting(S, req.credentials) /\ by \in S
  <2>1. by # Root
    BY HandlersAssumption
  <2> QED
    BY <1>5, <2>1 DEF Passed
<1>7. Above[by] \subseteq S
    BY <1>6 DEF Above
<1> QED
    BY <1>5, <1>6, <1>7 DEF AllAccept, Accepting

\* What a step makes of a reply.
LEMMA NewReply ==
    ASSUME Inv, [Next]_vars, NEW c \in Connections
    PROVE  \/ reply'[c] = reply[c]
           \/ reply'[c] = NoReply
           \/ \E req \in Requests :
                reply'[c] = [req |-> req, answer |-> Handle(req, installed)]
<1>1. reply = [d \in Connections |-> reply[d]]
    BY DEF Inv, Replying
<1>2. installed \in 0..Len(Tree[Root].children)
    BY DEF Inv, TypeOK
<1>3. \A req \in Requests : Routing[req][installed] = Handle(req, installed)
    BY <1>2 DEF Routing
<1>4. CASE reply' = reply
    BY <1>4
<1>5. ASSUME NEW d \in Connections, reply' = [reply EXCEPT ![d] = NoReply]
      PROVE  reply'[c] = reply[c] \/ reply'[c] = NoReply
    BY <1>1, <1>5
<1>6. ASSUME NEW d \in Connections, NEW req \in Requests,
             reply' = [reply EXCEPT ![d] = [req |-> req, answer |-> Routing[req][installed]]]
      PROVE  reply'[c] = reply[c]
             \/ reply'[c] = [req |-> req, answer |-> Handle(req, installed)]
    BY <1>1, <1>3, <1>6
<1>7. CASE \E d \in Connections : ReadDone(d)
  <2>1. PICK d \in Connections, req \in Requests :
          \/ reply' = reply
          \/ reply' = [reply EXCEPT ![d] = [req |-> req, answer |-> Routing[req][installed]]]
    BY <1>7 DEF ReadDone
  <2> QED
    BY <1>4, <1>6, <2>1
<1>8. CASE \E d \in Connections : WriteDone(d)
  <2>1. PICK d \in Connections : reply' = [reply EXCEPT ![d] = NoReply]
    BY <1>8 DEF WriteDone
  <2> QED
    BY <1>5, <2>1
<1>9. CASE \E d \in Connections : Accept(d) \/ Abort(d) \/ Session(d) \/ WakeSpuriously(d)
    BY <1>4, <1>9 DEF Accept, Abort, Session, Run, Wait, Destroy, Goto, WakeSpuriously
<1>10. CASE \E d \in Connections :
            HandshakeDone(d) \/ StartDone(d) \/ ReadFails(d) \/ ShutdownDone(d)
    BY <1>4, <1>10 DEF HandshakeDone, StartDone, ReadFails, ShutdownDone
<1>11. CASE Construct \/ AddHandler \/ AcceptReturns \/ Stop \/ UNCHANGED vars
    BY <1>4, <1>11 DEF Construct, AddHandler, AcceptReturns, Stop, vars
<1> QED
    BY <1>7, <1>8, <1>9, <1>10, <1>11 DEF Next, Completion

\* The answer a connection was given.
Authorise(r) == r.answer.status = "handled" => AllAccept(r.answer.by, r.req.credentials)

\* Every step keeps the replies authorised.
LEMMA AuthorisedStep ==
    ASSUME Inv, \A c \in Connections : Authorise(reply[c]), [Next]_vars
    PROVE  \A c \in Connections : Authorise(reply'[c])
<1> SUFFICES ASSUME NEW c \in Connections
             PROVE  Authorise(reply'[c])
    OBVIOUS
<1>1. installed \in 0..Len(Tree[Root].children)
    BY DEF Inv, TypeOK
<1>2. CASE reply'[c] = reply[c]
    BY <1>2
<1>3. CASE reply'[c] = NoReply
    BY <1>3 DEF Authorise, NoReply, Refuse, Answer
<1>4. ASSUME NEW req \in Requests,
             reply'[c] = [req |-> req, answer |-> Handle(req, installed)]
      PROVE  Authorise(reply'[c])
  <2>1. reply'[c].req = req /\ reply'[c].answer = Handle(req, installed)
    BY <1>4
  <2> QED
    BY <1>1, <2>1, HandleAuthorises DEF Authorise
<1> QED
    BY <1>2, <1>3, <1>4, NewReply

(* Authorised is an invariant: a request reaches the handle() of a handler *)
(* only with credentials that every handler above it, and it itself, that  *)
(* asks for them accepted, however deep the tree is and however many       *)
(* handlers were installed when it came (handle(), http_server.cpp).       *)
THEOREM RequestsAreAuthorised == Spec => []Authorised
<1> DEFINE A == \A c \in Connections : Authorise(reply[c])
<1>1. Init => A
    BY DEF Init, Authorise, NoReply, Refuse, Answer
<1>2. Inv /\ A /\ [Next]_vars => A'
    BY AuthorisedStep
<1>3. A => Authorised
    BY DEF Authorised, Authorise, AllAccept
<1> HIDE DEF A
<1> QED
    BY <1>1, <1>2, <1>3, Invariance, PTL DEF Spec
===============================================================================
