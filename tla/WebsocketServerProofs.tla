------------------------- MODULE WebsocketServerProofs ------------------------
(***************************************************************************)
(* Theorems about WebsocketServer, for any number of connections and any   *)
(* of them written on, over TCP and TLS.                                   *)
(***************************************************************************)
EXTENDS WebsocketServer, SessionThreadProofs

Ops == IF ssl THEN Operations ELSE Operations \ {"handshake"}

\* What holds of each session at each point of its thread, and more of those
\* nobody wrote on: they have one operation, and none once they were notified.
Calm(s, written) ==
    /\ s.thread \in {"none", "spawned"} => s.pending = {}
    /\ s.thread \in {"arm", "waiting"} /\ s.pending = {} => s.lost
    /\ ~written =>
        /\ AtMostOne(s.pending) /\ "write" \notin s.pending
        /\ s.thread \in {"woken", "gone"} => s.stray \/ s.pending = {}

\* A message is torn only by a write, and read late only after a notify().
Whole(c) ==
    /\ m_buffer[c] = "torn" => wrote[c]
    /\ torn[c] => wrote[c] \/ m_buffer[c] = "broken"
    /\ late[c] => conn[c].stray \/ wrote[c]

Inv == TypeOK /\ \A c \in Connections : Calm(conn[c], wrote[c]) /\ Whole(c)

-------------------------------------------------------------------------------
\* What the completion of an operation may make of its session: one operation
\* less and a notify(), or another operation in its place.
LEMMA Notified ==
    ASSUME NEW s \in SessionType(Ops), NEW written \in BOOLEAN, Calm(s, written),
           NEW op \in s.pending, s.thread # "gone", NEW w, w = Notify(End(s, op))
    PROVE  w \in SessionType(Ops) /\ Calm(w, written) /\ w.stray = s.stray
<1> DEFINE e == End(s, op)
<1>1. /\ e \in SessionType(Ops) /\ e.pending = s.pending \ {op}
      /\ AtMostOne(s.pending) => e.pending = {}
      /\ e.thread = s.thread /\ e.lost = s.lost /\ e.stray = s.stray
    BY EndFields
<1> HIDE DEF e
<1>2. /\ w \in SessionType(Ops) /\ w.pending = e.pending /\ w.stray = e.stray
      /\ e.thread = "waiting" => w.thread = "woken" /\ w.lost = e.lost
      /\ e.thread = "arm" => w.thread = "arm" /\ w.lost
      /\ e.thread \notin {"waiting", "arm"} => w = e
    BY <1>1, NotifyFields DEF e
<1> QED
    BY <1>1, <1>2 DEF Calm, AtMostOne

\* A completed operation that starts the next leaves the session calm.
LEMMA Continued ==
    ASSUME NEW s \in SessionType(Ops), NEW written \in BOOLEAN, Calm(s, written),
           NEW op \in s.pending, s.thread # "gone",
           NEW x \in Ops, ~written => x # "write", NEW w, w = Begin(End(s, op), x)
    PROVE  w \in SessionType(Ops) /\ Calm(w, written) /\ w.stray = s.stray
<1> DEFINE e == End(s, op)
<1>1. /\ e \in SessionType(Ops) /\ e.pending = s.pending \ {op}
      /\ AtMostOne(s.pending) => e.pending = {}
      /\ e.thread = s.thread /\ e.lost = s.lost /\ e.stray = s.stray
    BY EndFields
<1> HIDE DEF e
<1>2. /\ w \in SessionType(Ops) /\ w.pending = e.pending \cup {x}
      /\ w.thread = s.thread /\ w.stray = s.stray
    BY <1>1, BeginFields DEF e
<1>3. s.thread \notin {"none", "spawned"}
    BY DEF Calm
<1> QED
    BY <1>1, <1>2, <1>3 DEF Calm, AtMostOne

-------------------------------------------------------------------------------
Servers == {"constructing", "idle", "running", "stopped", "failed", "undefined"}

\* A step moves one session, with its data, or none.
LEMMA OneMoves ==
    ASSUME Inv, NEW c \in Connections, NEW w \in SessionType(Ops),
           conn' = [conn EXCEPT ![c] = w], UNCHANGED ssl,
           server' \in Servers, handing' \in Connections \cup {Nobody},
           m_buffer' \in [Connections -> {"none", "intact", "torn", "broken"}],
           torn' \in [Connections -> BOOLEAN], wrote' \in [Connections -> BOOLEAN],
           late' \in [Connections -> BOOLEAN],
           Calm(w, wrote'[c]), Whole(c)',
           \A d \in Connections \ {c} :
               UNCHANGED <<m_buffer[d], torn[d], wrote[d], late[d]>>
    PROVE  Inv'
<1>1. conn \in [Connections -> SessionType(Ops)]
    BY DEF Inv, TypeOK, Ops
<1>2. conn'[c] = w /\ \A d \in Connections \ {c} : conn'[d] = conn[d]
    BY <1>1
<1>3. conn' \in [Connections -> SessionType(Ops)'] /\ Ops' = Ops
    BY <1>1 DEF Ops
<1>4. TypeOK'
    BY <1>3 DEF Inv, TypeOK, Ops, Servers
<1>5. ASSUME NEW d \in Connections PROVE Calm(conn'[d], wrote'[d]) /\ Whole(d)'
    BY <1>2 DEF Inv, Whole
<1>6. \A d \in Connections : Calm(conn[d], wrote[d])' /\ Whole(d)'
    BY <1>5 DEF Calm
<1> QED
    BY <1>4, <1>6 DEF Inv

\* What the server does without a session keeps the invariant.
LEMMA NoneMoves ==
    ASSUME Inv, UNCHANGED <<ssl, conn, data>>,
           server' \in Servers, handing' \in Connections \cup {Nobody}
    PROVE  Inv'
    BY DEF Inv, TypeOK, Calm, Whole, data, Servers

\* A step of one session that leaves its messages keeps the invariant.
LEMMA DataStays ==
    ASSUME Inv, NEW c \in Connections, NEW w \in SessionType(Ops),
           conn' = [conn EXCEPT ![c] = w], UNCHANGED <<ssl, data>>,
           server' \in Servers, handing' \in Connections \cup {Nobody},
           Calm(w, wrote[c]), conn[c].stray => w.stray
    PROVE  Inv'
<1>1. /\ m_buffer \in [Connections -> {"none", "intact", "torn", "broken"}]
      /\ torn \in [Connections -> BOOLEAN] /\ wrote \in [Connections -> BOOLEAN]
      /\ late \in [Connections -> BOOLEAN] /\ conn \in [Connections -> SessionType(Ops)]
      /\ Whole(c)
    BY DEF Inv, TypeOK, Ops
<1>2. UNCHANGED <<m_buffer, torn, wrote, late>> /\ conn'[c] = w
    BY <1>1 DEF data
<1>3. Whole(c)'
    BY <1>1, <1>2 DEF Whole
<1> QED
    BY <1>1, <1>2, <1>3, OneMoves

\* What on_message does to the data of a session whose read goes on.
LEMMA MessageKeepsInv ==
    ASSUME Inv, NEW c \in Connections, NEW op \in Reads, Complete(c, op, {conn[c]}),
           NEW partial, OnMessage(c, partial),
           NEW b \in {"none", "broken"}, m_buffer' = [m_buffer EXCEPT ![c] = b],
           b = "none" => m_buffer[c] # "broken" /\ partial = {"torn"}
    PROVE  Inv'
<1>1. /\ m_buffer \in [Connections -> {"none", "intact", "torn", "broken"}]
      /\ torn \in [Connections -> BOOLEAN] /\ wrote \in [Connections -> BOOLEAN]
      /\ late \in [Connections -> BOOLEAN]
      /\ server \in Servers /\ handing \in Connections \cup {Nobody}
      /\ conn[c] \in SessionType(Ops) /\ conn \in [Connections -> SessionType(Ops)]
      /\ Calm(conn[c], wrote[c]) /\ Whole(c)
    BY DEF Inv, TypeOK, Ops, Servers
<1>2. /\ UNCHANGED <<server, ssl, handing, wrote>> /\ op \in conn[c].pending
      /\ conn' = [conn EXCEPT ![c] = conn[c]]
    BY DEF Complete, OnMessage
<1>3. /\ torn' = [torn EXCEPT ![c] = @ \/ m_buffer[c] \in partial]
      /\ late' = [late EXCEPT ![c] = @ \/ conn[c].thread = "woken"]
    BY DEF OnMessage
<1>4. /\ torn' \in [Connections -> BOOLEAN] /\ late' \in [Connections -> BOOLEAN]
      /\ torn'[c] <=> torn[c] \/ m_buffer[c] \in partial
      /\ late'[c] <=> late[c] \/ conn[c].thread = "woken"
      /\ \A d \in Connections \ {c} : torn'[d] = torn[d] /\ late'[d] = late[d]
    BY <1>1, <1>3
<1>5. /\ m_buffer' \in [Connections -> {"none", "intact", "torn", "broken"}]
      /\ m_buffer'[c] = b /\ \A d \in Connections \ {c} : m_buffer'[d] = m_buffer[d]
    BY <1>1
<1>6. conn[c].thread = "woken" => conn[c].stray \/ wrote[c]
    BY <1>1, <1>2 DEF Calm
<1>7. Whole(c)'
    BY <1>1, <1>2, <1>4, <1>5, <1>6 DEF Whole
<1> QED
    BY <1>1, <1>2, <1>4, <1>5, <1>7, OneMoves

\* Every completion keeps the invariant.
LEMMA CompletionKeepsInv ==
    ASSUME Inv, NEW c \in Connections, Completion(c)
    PROVE  Inv'
<1> DEFINE s == conn[c]
<1>1. /\ s \in SessionType(Ops) /\ Calm(s, wrote[c]) /\ wrote[c] \in BOOLEAN
      /\ ssl \in BOOLEAN /\ server \in Servers /\ handing \in Connections \cup {Nobody}
    BY DEF Inv, TypeOK, Ops, Servers
<1>2. \A op \in s.pending : op \in Ops
    BY <1>1 DEF SessionType
<1>3. ASSUME NEW op, NEW w \in SessionType(Ops), Complete(c, op, {w}), UNCHANGED data,
             Calm(w, wrote[c]), w.stray = s.stray
      PROVE  Inv'
  <2>1. conn' = [conn EXCEPT ![c] = w] /\ UNCHANGED <<server, ssl, handing>>
    BY <1>3 DEF Complete
  <2> QED
    BY <1>1, <1>3, <2>1, DataStays
<1>4. ASSUME NEW op, Complete(c, op, {Notify(End(s, op))}), UNCHANGED data
      PROVE  Inv'
  <2>1. op \in s.pending /\ s.thread # "gone"
    BY <1>4 DEF Complete
  <2>2. /\ Notify(End(s, op)) \in SessionType(Ops) /\ Calm(Notify(End(s, op)), wrote[c])
        /\ Notify(End(s, op)).stray = s.stray
    BY <1>1, <2>1, Notified
  <2> QED
    BY <1>3, <1>4, <2>2
<1>5. ASSUME NEW op, NEW x \in Ops \ {"write"}, Complete(c, op, {Begin(End(s, op), x)}),
             UNCHANGED data
      PROVE  Inv'
  <2>1. op \in s.pending /\ s.thread # "gone"
    BY <1>5 DEF Complete
  <2>2. PICK w : w = Begin(End(s, op), x)
    OBVIOUS
  <2>3. w \in SessionType(Ops) /\ Calm(w, wrote[c]) /\ w.stray = s.stray
    BY <1>1, <2>1, <2>2, Continued
  <2> QED
    BY <1>3, <1>5, <2>2, <2>3
<1>6. CASE OnRun(c)
  <2>1. (IF ssl THEN "handshake" ELSE "accept") \in Ops \ {"write"}
    BY DEF Ops, Operations
  <2> QED
    BY <1>5, <1>6, <2>1 DEF OnRun
<1>7. CASE OnHandshake(c)
  <2>1. \/ Complete(c, "handshake", {Notify(End(s, "handshake"))})
        \/ Complete(c, "handshake", {Begin(End(s, "handshake"), "accept")})
    BY <1>7 DEF OnHandshake, Complete
  <2>2. "accept" \in Ops \ {"write"} /\ UNCHANGED data
    BY <1>7 DEF Ops, Operations, OnHandshake
  <2> QED
    BY <1>4, <1>5, <2>1, <2>2
<1>8. CASE OnAccept(c)
  <2>1. \/ Complete(c, "accept", {Notify(End(s, "accept"))})
        \/ Complete(c, "accept", {Begin(End(s, "accept"), "read")})
    BY <1>8 DEF OnAccept, Complete
  <2>2. "read" \in Ops \ {"write"} /\ UNCHANGED data
    BY <1>8 DEF Ops, Operations, Reads, OnAccept
  <2> QED
    BY <1>4, <1>5, <2>1, <2>2
<1>9. CASE OnReadClosed(c)
    BY <1>4, <1>9 DEF OnReadClosed
<1>10. CASE OnRead(c)
    BY <1>10, MessageKeepsInv DEF OnRead
<1>11. CASE OnReadError(c)
    BY <1>11, MessageKeepsInv DEF OnReadError
<1>12. CASE OnWriteError(c)
    BY <1>4, <1>12 DEF OnWriteError
<1>13. CASE OnWrite(c)
  <2>0. PICK x, w : x = "read of on_write" /\ w = Begin(End(s, "write"), x)
    OBVIOUS
  <2>1. /\ conn' = [conn EXCEPT ![c] = w] /\ "write" \in s.pending /\ s.thread # "gone"
        /\ UNCHANGED <<server, ssl, handing, torn, wrote, late>>
        /\ m_buffer' = [m_buffer EXCEPT ![c] = IF @ = "intact" THEN "torn" ELSE @]
        /\ x \in Ops /\ x # "write"
    BY <1>13, <2>0 DEF OnWrite, Complete, Ops, Operations, Reads
  <2>2. w \in SessionType(Ops) /\ Calm(w, wrote[c]) /\ w.stray = s.stray
    <3>1. w = Begin(End(s, "write"), x) /\ x \in Ops /\ (~wrote[c] => x # "write")
      BY <2>0, <2>1
    <3>2. s.thread # "gone" /\ "write" \in s.pending
      BY <2>1
    <3> QED
      BY <1>1, <3>1, <3>2, Continued
  <2>3. wrote[c]
    BY <1>1, <2>1 DEF Calm
  <2>4. /\ m_buffer \in [Connections -> {"none", "intact", "torn", "broken"}]
        /\ torn \in [Connections -> BOOLEAN] /\ wrote \in [Connections -> BOOLEAN]
        /\ late \in [Connections -> BOOLEAN]
    BY DEF Inv, TypeOK
  <2>5. /\ m_buffer' \in [Connections -> {"none", "intact", "torn", "broken"}]
        /\ \A d \in Connections \ {c} : m_buffer'[d] = m_buffer[d]
    BY <2>1, <2>4
  <2>6. Whole(c)'
    BY <2>1, <2>3 DEF Whole
  <2> QED
    BY <1>1, <2>1, <2>2, <2>4, <2>5, <2>6, OneMoves
<1> QED
    BY <1>6, <1>7, <1>8, <1>9, <1>10, <1>11, <1>12, <1>13 DEF Completion, Opening

\* So does every step of a session's thread.
LEMMA ThreadKeepsInv ==
    ASSUME Inv, NEW c \in Connections, Session(c) \/ WakeSpuriously(c)
    PROVE  Inv'
<1> DEFINE s == conn[c]
<1>1. /\ s \in SessionType(Ops) /\ Calm(s, wrote[c]) /\ wrote[c] \in BOOLEAN
      /\ server \in Servers /\ handing \in Connections \cup {Nobody}
    BY DEF Inv, TypeOK, Ops, Servers
<1>2. UNCHANGED <<server, ssl, handing, data>>
    BY DEF Session, Run, Wait, Disconnect, WakeSpuriously, Goto
<1>3. ASSUME NEW w \in SessionType(Ops), Calm(w, wrote[c]), conn' = [conn EXCEPT ![c] = w],
             s.stray => w.stray
      PROVE  Inv'
    BY <1>1, <1>2, <1>3, DataStays
<1>4. CASE Run(c)
  <2> DEFINE b == Begin(s, "run")
             w == [b EXCEPT !.thread = "arm"]
  <2>1. s.thread = "spawned" /\ s.pending = {} /\ "run" \in Ops
    BY <1>1, <1>4 DEF Run, Goto, Calm, Ops, Operations
  <2>2. b \in SessionType(Ops) /\ b.pending = {"run"} /\ b.stray = s.stray
    BY <1>1, <2>1, BeginFields
  <2> HIDE DEF b
  <2>3. /\ w \in SessionType(Ops) /\ w.thread = "arm" /\ w.pending = {"run"}
        /\ w.stray = s.stray
    BY <2>2, ThreadFields DEF Threads
  <2>4. conn' = [conn EXCEPT ![c] = w]
    BY <1>4 DEF Run, Goto, b
  <2>5. Calm(w, wrote[c])
    BY <2>3 DEF Calm, AtMostOne
  <2> QED
    BY <1>3, <2>3, <2>4, <2>5
<1>5. CASE Wait(c)
  <2> DEFINE w == [s EXCEPT !.thread = "waiting"]
  <2>1. /\ w \in SessionType(Ops) /\ w.thread = "waiting"
        /\ w.pending = s.pending /\ w.lost = s.lost /\ w.stray = s.stray
    BY <1>1, ThreadFields DEF Threads
  <2>2. conn' = [conn EXCEPT ![c] = w] /\ s.thread = "arm"
    BY <1>5 DEF Wait, Goto
  <2>3. Calm(w, wrote[c])
    BY <1>1, <2>1, <2>2 DEF Calm
  <2> QED
    BY <1>3, <2>1, <2>2, <2>3
<1>6. CASE Disconnect(c)
  <2> DEFINE w == [s EXCEPT !.thread = "gone"]
  <2>1. /\ w \in SessionType(Ops) /\ w.thread = "gone"
        /\ w.pending = s.pending /\ w.stray = s.stray
    BY <1>1, ThreadFields DEF Threads
  <2>2. conn' = [conn EXCEPT ![c] = w] /\ s.thread = "woken"
    BY <1>6 DEF Disconnect, Goto
  <2>3. Calm(w, wrote[c])
    BY <1>1, <2>1, <2>2 DEF Calm
  <2> QED
    BY <1>3, <2>1, <2>2, <2>3
<1>7. CASE WakeSpuriously(c)
  <2> DEFINE w == [s EXCEPT !.thread = "woken", !.stray = TRUE]
  <2>1. w \in SessionType(Ops) /\ w.thread = "woken" /\ w.pending = s.pending /\ w.stray
    BY <1>1, StrayFields
  <2>2. conn' = [conn EXCEPT ![c] = w]
    BY <1>7 DEF WakeSpuriously, Goto
  <2>3. Calm(w, wrote[c])
    BY <1>1, <2>1 DEF Calm
  <2> QED
    BY <1>3, <2>1, <2>2, <2>3
<1> QED
    BY <1>4, <1>5, <1>6, <1>7 DEF Session

\* The user writes at any time: what held of the operation alone is gone.
LEMMA WriteKeepsInv ==
    ASSUME Inv, NEW c \in Connections, DoWrite(c)
    PROVE  Inv'
<1>1. /\ m_buffer \in [Connections -> {"none", "intact", "torn", "broken"}]
      /\ torn \in [Connections -> BOOLEAN] /\ wrote \in [Connections -> BOOLEAN]
      /\ late \in [Connections -> BOOLEAN]
      /\ server \in Servers /\ handing \in Connections \cup {Nobody}
      /\ conn[c] \in SessionType(Ops) /\ conn \in [Connections -> SessionType(Ops)]
      /\ Calm(conn[c], wrote[c])
    BY DEF Inv, TypeOK, Ops, Servers
<1>2. /\ wrote' = [wrote EXCEPT ![c] = TRUE] /\ server' \in Servers
      /\ UNCHANGED <<ssl, handing, m_buffer, torn, late>>
      /\ conn[c].thread \notin {"none", "spawned"}
    BY <1>1 DEF DoWrite, Servers
<1>3. /\ wrote' \in [Connections -> BOOLEAN] /\ wrote'[c]
      /\ \A d \in Connections \ {c} : wrote'[d] = wrote[d]
    BY <1>1, <1>2
<1>4. Whole(c)'
    BY <1>3 DEF Whole
<1>5. PICK w \in SessionType(Ops) : Calm(w, TRUE) /\ conn' = [conn EXCEPT ![c] = w]
  <2>1. CASE conn' = conn
    BY <1>1, <2>1 DEF Calm
  <2>2. CASE conn' = [conn EXCEPT ![c] = Begin(@, "write")]
    <3> DEFINE w == Begin(conn[c], "write")
    <3>1. "write" \in Ops
      BY DEF Ops, Operations
    <3>2. /\ w \in SessionType(Ops) /\ w.pending = conn[c].pending \cup {"write"}
          /\ w.thread = conn[c].thread
      BY <1>1, <3>1, BeginFields
    <3>3. conn' = [conn EXCEPT ![c] = w]
      BY <1>1, <2>2
    <3>4. Calm(w, TRUE)
      BY <1>2, <3>2 DEF Calm
    <3> QED
      BY <3>2, <3>3, <3>4
  <2> QED
    BY <2>1, <2>2 DEF DoWrite
<1>6. Calm(w, wrote'[c])
    BY <1>3, <1>5 DEF Calm
<1> QED
    BY <1>1, <1>2, <1>3, <1>4, <1>5, <1>6, OneMoves

\* The server itself starts sessions, and a part of a message comes in.
LEMMA ServerKeepsInv ==
    ASSUME Inv,
           Construct \/ AcceptReturns \/ Stop
           \/ \E c \in Connections : Accept(c) \/ Abort(c) \/ ReadPart(c)
    PROVE  Inv'
<1>1. /\ server \in Servers /\ handing \in Connections \cup {Nobody}
      /\ conn \in [Connections -> SessionType(Ops)]
      /\ m_buffer \in [Connections -> {"none", "intact", "torn", "broken"}]
      /\ torn \in [Connections -> BOOLEAN] /\ wrote \in [Connections -> BOOLEAN]
      /\ late \in [Connections -> BOOLEAN]
    BY DEF Inv, TypeOK, Servers, Ops
<1>2. CASE Construct \/ AcceptReturns \/ Stop \/ \E c \in Connections : Abort(c)
  <2>1. /\ UNCHANGED <<ssl, conn, data>>
        /\ server' \in Servers /\ handing' \in Connections \cup {Nobody}
    BY <1>1, <1>2 DEF Construct, AcceptReturns, Stop, Abort, Servers
  <2> QED
    BY <2>1, NoneMoves
<1>3. ASSUME NEW c \in Connections, Accept(c) PROVE Inv'
  <2>1. UNCHANGED <<ssl, data>>
    BY <1>3 DEF Accept
  <2>2. CASE server' = "failed" /\ UNCHANGED <<conn, handing>>
    BY <1>1, <2>1, <2>2, NoneMoves DEF Servers
  <2>3. CASE conn' = [conn EXCEPT ![c].thread = "spawned"] /\ handing' = c /\ UNCHANGED server
    <3> DEFINE w == [conn[c] EXCEPT !.thread = "spawned"]
    <3>1. /\ conn[c] \in SessionType(Ops) /\ conn[c].thread = "none" /\ conn[c].pending = {}
      BY <1>1, <1>3 DEF Inv, Calm, Accept
    <3>2. /\ w \in SessionType(Ops) /\ w.thread = "spawned" /\ w.pending = {}
          /\ w.stray = conn[c].stray
      BY <3>1, ThreadFields DEF Threads
    <3>3. conn' = [conn EXCEPT ![c] = w]
      BY <1>1, <2>3
    <3>4. Calm(w, wrote[c])
      BY <3>2 DEF Calm, AtMostOne
    <3> QED
      BY <1>1, <2>1, <2>3, <3>2, <3>3, <3>4, DataStays
  <2> QED
    BY <1>3, <2>2, <2>3 DEF Accept
<1>4. ASSUME NEW c \in Connections, ReadPart(c) PROVE Inv'
  <2>1. /\ m_buffer' = [m_buffer EXCEPT ![c] = "intact"]
        /\ UNCHANGED <<server, ssl, handing, conn, torn, wrote, late>>
        /\ m_buffer[c] = "none"
    BY <1>4 DEF ReadPart
  <2>2. /\ m_buffer' \in [Connections -> {"none", "intact", "torn", "broken"}]
        /\ m_buffer'[c] = "intact"
        /\ \A d \in Connections \ {c} : m_buffer'[d] = m_buffer[d]
    BY <1>1, <2>1
  <2>3. conn' = [conn EXCEPT ![c] = conn[c]] /\ conn[c] \in SessionType(Ops)
    BY <1>1, <2>1
  <2>4. Calm(conn[c], wrote'[c]) /\ Whole(c)
    BY <2>1 DEF Inv
  <2>5. Whole(c)'
    BY <2>1, <2>2, <2>4 DEF Whole
  <2> QED
    BY <1>1, <2>1, <2>2, <2>3, <2>4, <2>5, OneMoves
<1> QED
    BY <1>2, <1>3, <1>4

\* The inductive invariant: every session is calm and its messages are whole,
\* as far as nobody writes on it.
THEOREM Invariance == Spec => []Inv
<1>1. Init => Inv
  <2> SUFFICES ASSUME Init PROVE Inv
    OBVIOUS
  <2>1. conn = [c \in Connections |-> Unconnected]
    BY DEF Init
  <2>2. Unconnected \in SessionType(Ops)
    BY DEF Unconnected, SessionType, Threads
  <2>3. TypeOK
    BY <2>1, <2>2 DEF Init, TypeOK, Ops
  <2>4. \A c \in Connections : conn[c].thread = "none" /\ conn[c].pending = {}
    BY <2>1 DEF Unconnected
  <2>5. \A c \in Connections : Calm(conn[c], wrote[c])
    BY <2>4 DEF Calm, AtMostOne
  <2>6. \A c \in Connections : Whole(c)
    BY DEF Init, Whole
  <2> QED
    BY <2>3, <2>5, <2>6 DEF Inv
<1>2. Inv /\ [Next]_vars => Inv'
  <2>1. CASE UNCHANGED vars
    BY <2>1 DEF vars, data, Inv, TypeOK, Calm, Whole
  <2> QED
    BY <2>1, CompletionKeepsInv, ThreadKeepsInv, WriteKeepsInv, ServerKeepsInv DEF Next
<1> QED
    BY <1>1, <1>2, PTL DEF Spec

\* Every variable keeps its type.
THEOREM Typing == Spec => []TypeOK
<1>1. Inv => TypeOK
    BY DEF Inv
<1> QED
    BY <1>1, Invariance, PTL

\* A session nobody writes on never has two operations under way.
THEOREM StreamsCarryOne == Spec => []OneOperation
<1>1. Inv => OneOperation
    BY AtMostOneCardinality DEF Inv, Calm, OneOperation
<1> QED
    BY <1>1, Invariance, PTL

\* Nothing follows on_disconnect(), unless somebody wrote or the wait ended
\* without a cause.
THEOREM NothingFollows == Spec => []DisconnectIsLast
<1>1. Inv => DisconnectIsLast
    BY DEF Inv, Calm, Whole, DisconnectIsLast, Orphaned
<1> QED
    BY <1>1, Invariance, PTL

\* Every branch of every completion, with writes at any time, notifies or
\* leaves an operation that will.
THEOREM NotifiesComeFirst == Spec => []StuckMeansLost
<1>1. Inv => StuckMeansLost
    BY DEF Inv, Calm, StuckMeansLost, Stuck
<1> QED
    BY <1>1, Invariance, PTL

\* Messages come whole until a read fails, unless somebody writes.
THEOREM MessagesAreWhole == Spec => []WholeMessages
<1>1. Inv => WholeMessages
    BY DEF Inv, Whole, WholeMessages
<1> QED
    BY <1>1, Invariance, PTL
===============================================================================
