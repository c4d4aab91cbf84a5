------------------------------ MODULE HttpRequest -----------------------------
(***************************************************************************)
(* muonpi::http::http_request: one blocking call after the other on a      *)
(* stream of its own, any of which may throw.  What was written may still  *)
(* be handled by the remote after the caller has gone.                     *)
(***************************************************************************)
EXTENDS Naturals

VARIABLES
    stage,          \* the call that blocks; "idle" between requests
    ssl, body,      \* the arguments of http_request
    number,         \* which request this is, and so which stream
    arriving,       \* external: requests on their way to the remote
    reply,          \* external: what the remote answered on this stream
    outcome         \* what the last request returned: a status, or "throws"

requestVars == <<stage, ssl, body, number, arriving, reply, outcome>>
call == <<ssl, body, number>>

RequestInit ==
    /\ stage = "idle" /\ ssl = FALSE /\ body = <<>> /\ number = 0
    /\ arriving = {} /\ reply = "none" /\ outcome = "none"

\* http_request(destination, body, ssl, fields)
Request(text, secure) ==
    /\ stage = "idle"
    /\ stage' = "resolve" /\ ssl' = secure /\ body' = text
    /\ number' = number + 1
    /\ reply' = "none" /\ outcome' = "none"
    /\ UNCHANGED arriving

Go(from, to) == stage = from /\ stage' = to /\ UNCHANGED call

Resolve == Go("resolve", "connect") /\ UNCHANGED <<arriving, reply, outcome>>

Connect ==
    /\ Go("connect", IF ssl THEN "handshake" ELSE "write")
    /\ UNCHANGED <<arriving, reply, outcome>>

Handshake == Go("handshake", "write") /\ UNCHANGED <<arriving, reply, outcome>>

Sent == arriving \cup {[number |-> number, body |-> body]}

\* create_request()
Write == Go("write", "read") /\ arriving' = Sent /\ UNCHANGED <<reply, outcome>>

Read ==
    /\ reply # "none"
    /\ Go("read", "shutdown")
    /\ UNCHANGED <<arriving, reply, outcome>>

\* eof of a TLS stream, not_connected of a TCP stream are no errors.
Shutdown == Go("shutdown", "idle") /\ outcome' = reply /\ UNCHANGED <<arriving, reply>>

\* Any call may throw; a write that does may have sent everything, and a
\* shutdown that does has a response to throw away.
Throw ==
    /\ stage # "idle"
    /\ stage' = "idle" /\ outcome' = "throws"
    /\ \/ UNCHANGED arriving
       \/ stage = "write" /\ arriving' = Sent
    /\ UNCHANGED <<call, reply>>

\* The remote handles a request and answers; nobody may be left to read it.
Answer(r, status) ==
    /\ r \in arriving
    /\ arriving' = arriving \ {r}
    /\ reply' = IF r.number = number /\ stage = "read" THEN status ELSE reply
    /\ UNCHANGED <<stage, call, outcome>>

RequestNext == Resolve \/ Connect \/ Handshake \/ Write \/ Read \/ Shutdown \/ Throw
===============================================================================
