------------------------------- MODULE MqttLink -------------------------------
(***************************************************************************)
(* muonpi::link::mqtt: the runner thread (pre_run, step, post_run and the  *)
(* connect() they call), the thread of the mosquitto library that calls    *)
(* callback_connected and callback_disconnected, a user who subscribes and *)
(* a thread that calls stop().  They share m_status, m_tries, the promise  *)
(* and the future without a lock; assignments are steps of their own where *)
(* another thread may come in between.                                     *)
(*                                                                         *)
(* External: the library and the broker.  Sessions are clean, so the       *)
(* broker forgets the subscriptions with the connection, and the library   *)
(* reconnects on its own after a loss.                                     *)
(***************************************************************************)
EXTENDS Naturals

CONSTANTS
    Topics,
    MaxRetries,   \* m_config.max_retries
    MaxEvents     \* bound: answers and losses of the network

ASSUME BoundsAssumption == MaxRetries \in Nat /\ MaxEvents \in Nat

VARIABLES
    m_status, m_tries, m_subscribers,
    m_connect_promise,   \* "unused", "open", or the value set: "true", "false"
    future_valid,        \* m_connect_future.valid()
    m_run,               \* and, inverted, m_quit
    rpc, within, tries,  \* the runner, the hook that called connect(), a local
    npc,                 \* the library's thread
    link, broker,        \* the connection, and the topics the broker knows
    upc,                 \* how far a user's subscribe(topic) is, per topic
    spc,                 \* the thread that calls stop()
    events,              \* answers and losses so far
    attempts,            \* history: connects since the last success
    overtaken,           \* history: an answer came too late for its connect
    late                 \* history: topics inserted after their session ended

shared  == <<m_status, m_tries, m_subscribers, m_connect_promise, future_valid>>
runner  == <<rpc, within, tries>>
network == <<npc, link, broker, events>>
history == <<attempts, overtaken, late>>
vars    == <<shared, m_run, runner, network, upc, spc, history>>

Status == {"Invalid", "Connected", "Disconnected", "Connecting", "Error"}

\* connect(), up to its return
Connecting == {"backoff", "check", "read", "bump", "limit", "dial", "renew",
               "future", "await", "get"}
RunnerPc   == Connecting \cup {"start", "true", "false", "loop", "arm", "waiting",
               "notified", "post", "disconnect", "close", "over", "aborted"}
NetworkPc  == {"off", "idle", "acked", "connected", "resubscribe", "fulfil", "refused",
               "reject", "lost", "error", "dead"}

Init ==
    /\ m_status = "Invalid" /\ m_tries = 0 /\ m_subscribers = {}
    /\ m_connect_promise = "unused" /\ future_valid = FALSE /\ m_run = TRUE
    /\ rpc = "start" /\ within = "pre_run" /\ tries = 0
    /\ npc = "off" /\ link = "none" /\ broker = {} /\ events = 0
    /\ upc = [t \in Topics |-> "idle"] /\ spc = "none"
    /\ attempts = 0 /\ overtaken = FALSE /\ late = {}

-------------------------------------------------------------------------------
(* The runner.                                                             *)

Goto(from, to) == rpc = from /\ rpc' = to

\* connect() is called: its wait takes m_tries seconds, or no time at all.
GotoConnect(from) == Goto(from, IF m_tries = 0 THEN "check" ELSE "backoff")

PreRun ==
    /\ GotoConnect("start")
    /\ npc' = "idle"
    /\ UNCHANGED <<shared, m_run, within, tries, link, broker, events, upc, spc, history>>

\* The wait on m_connect_condition times out, or ends early, without a cause
\* or by on_stop: then connect() fails.
Backoff ==
    /\ Goto("backoff", "check") \/ Goto("backoff", "false")
    /\ UNCHANGED <<shared, m_run, within, tries, network, upc, spc, history>>

\* check_connection(), its polling of a Connecting status included.
Check ==
    /\ Goto("check", IF m_status = "Connected" THEN "true" ELSE "read")
    /\ UNCHANGED <<shared, m_run, within, tries, network, upc, spc, history>>

\* m_tries++, which the library's thread may reset in between.
ReadTries ==
    /\ Goto("read", "bump")
    /\ tries' = m_tries
    /\ UNCHANGED <<shared, m_run, within, network, upc, spc, history>>

Bump ==
    /\ Goto("bump", "limit")
    /\ m_tries' = tries + 1 /\ tries' = 0
    /\ attempts' = attempts + 1
    /\ m_status' = "Connecting"
    /\ UNCHANGED <<m_subscribers, m_connect_promise, future_valid, m_run, within,
                   network, upc, spc, overtaken, late>>

\* Mutant: one retry too many.
LimitOffByOne ==
    /\ Goto("limit", IF m_tries > MaxRetries + 1 THEN "false" ELSE "dial")
    /\ m_status' = IF m_tries > MaxRetries + 1 THEN "Error" ELSE m_status
    /\ UNCHANGED <<m_tries, m_subscribers, m_connect_promise, future_valid, m_run,
                   within, tries, network, upc, spc, history>>

Limit ==
    /\ Goto("limit", IF m_tries > MaxRetries THEN "false" ELSE "dial")
    /\ m_status' = IF m_tries > MaxRetries THEN "Error" ELSE m_status
    /\ UNCHANGED <<m_tries, m_subscribers, m_connect_promise, future_valid, m_run,
                   within, tries, network, upc, spc, history>>

LoginFails ==
    /\ Goto("dial", "false")
    /\ UNCHANGED <<shared, m_run, within, tries, network, upc, spc, history>>

\* mosquitto_connect closes what there is and may fail to reach the broker.
Dial ==
    /\ \/ GotoConnect("dial") /\ link' = "down"
       \/ Goto("dial", "renew") /\ link' = "pending"
    /\ broker' = {}
    /\ overtaken' = (overtaken \/ npc # "idle" \/ m_status = "Connected")
    /\ UNCHANGED <<shared, m_run, within, tries, npc, events, upc, spc, attempts, late>>

RenewPromise ==
    /\ Goto("renew", "future")
    /\ m_connect_promise' = "open"
    /\ UNCHANGED <<m_status, m_tries, m_subscribers, future_valid, m_run, within,
                   tries, network, upc, spc, history>>

GetFuture ==
    /\ Goto("future", "await")
    /\ future_valid' = TRUE
    /\ UNCHANGED <<m_status, m_tries, m_subscribers, m_connect_promise, m_run, within,
                   tries, network, upc, spc, history>>

\* Mutant: wait in the place of wait_for.
AwaitForEver ==
    /\ m_connect_promise \in {"true", "false"} /\ Goto("await", "get")
    /\ UNCHANGED <<shared, m_run, within, tries, network, upc, spc, history>>

\* wait_for(m_config.timeout): after a timeout the future stays valid.
Await ==
    /\ \/ m_connect_promise \in {"true", "false"} /\ Goto("await", "get")
       \/ m_connect_promise = "open" /\ GotoConnect("await")
    /\ UNCHANGED <<shared, m_run, within, tries, network, upc, spc, history>>

GetResult ==
    /\ IF m_connect_promise = "true" THEN Goto("get", "true") ELSE GotoConnect("get")
    /\ future_valid' = FALSE
    /\ UNCHANGED <<m_status, m_tries, m_subscribers, m_connect_promise, m_run, within,
                   tries, network, upc, spc, history>>

\* connect() returned to pre_run or to step.  A failed pre_run ends the run
\* without post_run; a failed step ends the loop.
ConnectReturned ==
    /\ \/ Goto("true", IF within = "step" \/ m_status \in {"Connected", "Connecting"}
                       THEN "loop" ELSE "over")
       \/ Goto("false", IF within = "step" THEN "post" ELSE "over")
    /\ UNCHANGED <<shared, m_run, within, tries, network, upc, spc, history>>

\* Mutant: the loop does not test m_run.
LoopForEver ==
    /\ Goto("loop", "arm")
    /\ within' = "step"
    /\ UNCHANGED <<shared, m_run, tries, network, upc, spc, history>>

\* The loop of thread_runner::run and the wait at the beginning of step().
LoopTest ==
    /\ Goto("loop", IF m_run THEN "arm" ELSE "post")
    /\ within' = "step"
    /\ UNCHANGED <<shared, m_run, tries, network, upc, spc, history>>

Wait ==
    /\ Goto("arm", "waiting")
    /\ UNCHANGED <<shared, m_run, within, tries, network, upc, spc, history>>

\* The wait has no predicate: notified, or for no cause, it ends.
Wake ==
    /\ \E at \in {"waiting", "notified"} : IF m_run THEN GotoConnect(at) ELSE Goto(at, "loop")
    /\ UNCHANGED <<shared, m_run, within, tries, network, upc, spc, history>>

\* post_run(): the subscribers unsubscribe while they are destroyed.
PostRun ==
    /\ Goto("post", "disconnect")
    /\ m_subscribers' = {}
    /\ broker' = IF m_status = "Connected" THEN broker \ m_subscribers ELSE broker
    /\ UNCHANGED <<m_status, m_tries, m_connect_promise, future_valid, m_run, within,
                   tries, npc, link, events, upc, spc, history>>

\* mosquitto calls succeed when the socket is open, answered or not.
Open == link \in {"pending", "up"}

\* disconnect(): without a socket mosquitto_disconnect fails, and post_run
\* leaves the library as it is.  With one, callback_disconnected(0) sets the
\* same status once more.
Disconnect ==
    /\ IF m_status = "Connected" /\ ~Open
       THEN Goto("disconnect", "over") /\ UNCHANGED <<m_status, link>>
       ELSE /\ Goto("disconnect", "close")
            /\ m_status' = IF m_status = "Connected" THEN "Disconnected" ELSE m_status
            /\ link' = IF m_status = "Connected" THEN "closed" ELSE link
    /\ UNCHANGED <<m_tries, m_subscribers, m_connect_promise, future_valid, m_run,
                   within, tries, npc, broker, events, upc, spc, history>>

\* mosquitto_loop_stop cancels the library's thread wherever it is.
Close ==
    /\ Goto("close", "over")
    /\ npc' = "dead" /\ link' = "closed" /\ broker' = {}
    /\ UNCHANGED <<shared, m_run, within, tries, events, upc, spc, history>>

-------------------------------------------------------------------------------
(* The library's thread: what the network does, and the callbacks.         *)

NGoto(from, to) == npc = from /\ npc' = to

Event == events < MaxEvents /\ events' = events + 1

Answer ==
    /\ Event /\ link = "pending"
    /\ \/ NGoto("idle", "acked") /\ link' = "up"
       \/ NGoto("idle", "refused") /\ link' = "down"
    /\ UNCHANGED <<shared, m_run, runner, broker, upc, spc, history>>

Lose ==
    /\ Event /\ link \in {"pending", "up"} /\ link' = "down"
    /\ NGoto("idle", "lost")
    /\ broker' = {}
    /\ UNCHANGED <<shared, m_run, runner, upc, spc, history>>

Reconnect ==
    /\ npc = "idle" /\ link = "down" /\ link' = "pending"
    /\ UNCHANGED <<shared, m_run, runner, npc, broker, events, upc, spc, history>>

\* callback_connected: nobody waits for an answer once the future was read.
FutureTest ==
    /\ \/ NGoto("acked", IF future_valid THEN "connected" ELSE "idle")
       \/ NGoto("refused", IF future_valid THEN "reject" ELSE "idle")
    /\ UNCHANGED <<shared, m_run, runner, link, broker, events, upc, spc, history>>

SetConnected ==
    /\ NGoto("connected", "resubscribe")
    /\ m_status' = "Connected"
    /\ UNCHANGED <<m_tries, m_subscribers, m_connect_promise, future_valid, m_run, runner,
                   link, broker, events, upc, spc, history>>

\* Mutant: the topics are not subscribed again.
ResetOnly ==
    /\ NGoto("resubscribe", "fulfil")
    /\ m_tries' = 0 /\ attempts' = 0
    /\ UNCHANGED <<m_status, m_subscribers, m_connect_promise, future_valid, m_run,
                   runner, link, broker, events, upc, spc, overtaken, late>>

\* Mutant: a success takes one try back, below zero.
ResetByOne ==
    /\ NGoto("resubscribe", "fulfil")
    /\ m_tries' = m_tries - 1 /\ attempts' = 0
    /\ broker' = IF link = "up" THEN broker \cup m_subscribers ELSE broker
    /\ UNCHANGED <<m_status, m_subscribers, m_connect_promise, future_valid, m_run,
                   runner, link, events, upc, spc, overtaken, late>>

ResetAndResubscribe ==
    /\ NGoto("resubscribe", "fulfil")
    /\ m_tries' = 0 /\ attempts' = 0
    /\ broker' = IF link = "up" THEN broker \cup m_subscribers ELSE broker
    /\ UNCHANGED <<m_status, m_subscribers, m_connect_promise, future_valid, m_run,
                   runner, link, events, upc, spc, overtaken, late>>

\* set_value on a promise that has its value throws, through the library.
SetValue(v) ==
    IF m_connect_promise = "open"
    THEN m_connect_promise' = v /\ UNCHANGED rpc
    ELSE rpc' = "aborted" /\ UNCHANGED m_connect_promise

Fulfil ==
    /\ NGoto("fulfil", "idle")
    /\ SetValue("true")
    /\ UNCHANGED <<m_status, m_tries, m_subscribers, future_valid, m_run, within, tries,
                   link, broker, events, upc, spc, history>>

Reject ==
    /\ NGoto("reject", "idle")
    /\ m_status' = "Error"
    /\ SetValue("false")
    /\ UNCHANGED <<m_tries, m_subscribers, future_valid, m_run, within, tries, link,
                   broker, events, upc, spc, history>>

\* callback_disconnected notifies the runner before it sets the status.
NotifyLost ==
    /\ NGoto("lost", IF m_status \in {"Error", "Disconnected"} THEN "idle" ELSE "error")
    /\ rpc' = IF npc' = "error" /\ rpc = "waiting" THEN "notified" ELSE rpc
    /\ UNCHANGED <<shared, m_run, within, tries, link, broker, events, upc, spc, history>>

SetError ==
    /\ NGoto("error", "idle")
    /\ m_status' = "Error"
    /\ UNCHANGED <<m_tries, m_subscribers, m_connect_promise, future_valid, m_run, runner,
                   link, broker, events, upc, spc, history>>

-------------------------------------------------------------------------------
(* The user's subscribe(topic), and stop().                                *)

Subscribe(t) ==
    /\ upc[t] = "idle" /\ t \notin m_subscribers
    /\ m_status = "Connected"
    /\ upc' = [upc EXCEPT ![t] = "checked"]
    /\ UNCHANGED <<shared, m_run, runner, network, spc, history>>

\* mosquitto_subscribe: an error is thrown on to the user.
SendSubscribe(t) ==
    /\ upc[t] = "checked"
    /\ upc' = [upc EXCEPT ![t] = IF Open THEN "sent" ELSE "idle"]
    /\ broker' = IF link = "up" THEN broker \cup {t} ELSE broker
    /\ UNCHANGED <<shared, m_run, runner, npc, link, events, spc, history>>

Insert(t) ==
    /\ upc[t] = "sent" /\ upc' = [upc EXCEPT ![t] = "idle"]
    /\ m_subscribers' = m_subscribers \cup {t}
    /\ late' = IF t \in broker THEN late ELSE late \cup {t}
    /\ UNCHANGED <<m_status, m_tries, m_connect_promise, future_valid, m_run, runner,
                   network, spc, attempts, overtaken>>

Stop ==
    /\ spc = "none" /\ spc' = "notify"
    /\ m_run' = FALSE
    /\ UNCHANGED <<shared, runner, network, upc, history>>

\* m_condition is notified, then m_connect_condition by on_stop: the wait there
\* may end either way at any time, so only the first adds a behaviour.
StopNotify ==
    /\ spc = "notify" /\ spc' = "done"
    /\ rpc' = IF rpc = "waiting" THEN "notified" ELSE rpc
    /\ UNCHANGED <<shared, m_run, within, tries, network, upc, history>>

-------------------------------------------------------------------------------
Connect ==
    \/ Backoff \/ Check \/ ReadTries \/ Bump \/ Limit \/ LoginFails \/ Dial
    \/ RenewPromise \/ GetFuture \/ Await \/ GetResult

Run == PreRun \/ Connect \/ ConnectReturned \/ LoopTest \/ Wait \/ Wake \/ PostRun
       \/ Disconnect \/ Close

Callback == FutureTest \/ SetConnected \/ ResetAndResubscribe \/ Fulfil \/ Reject
            \/ NotifyLost \/ SetError

Next ==
    /\ rpc # "aborted"
    /\ \/ Run \/ Callback \/ Answer \/ Lose \/ Reconnect
       \/ \E t \in Topics : Subscribe(t) \/ SendSubscribe(t) \/ Insert(t)
       \/ Stop \/ StopNotify

Spec == Init /\ [][Next]_vars

\* The runner and the callbacks are scheduled and stop() goes on; a wait on
\* m_condition ends only if somebody notifies it.
Fairness ==
    /\ WF_vars(rpc \notin {"waiting", "aborted"} /\ Run)
    /\ WF_vars(rpc # "aborted" /\ Callback)
    /\ WF_vars(rpc # "aborted" /\ StopNotify)

FairSpec == Spec /\ Fairness

-------------------------------------------------------------------------------
TypeOK ==
    /\ m_status \in Status /\ m_tries \in Nat /\ m_subscribers \subseteq Topics
    /\ m_connect_promise \in {"unused", "open", "true", "false"}
    /\ future_valid \in BOOLEAN /\ m_run \in BOOLEAN
    /\ rpc \in RunnerPc /\ within \in {"pre_run", "step"} /\ tries \in Nat
    /\ npc \in NetworkPc /\ link \in {"none", "pending", "up", "down", "closed"}
    /\ broker \subseteq Topics /\ events \in Nat
    /\ upc \in [Topics -> {"idle", "checked", "sent"}] /\ spc \in {"none", "notify", "done"}
    /\ attempts \in Nat /\ overtaken \in BOOLEAN /\ late \subseteq Topics

\* Without a success in between no more than max_retries connections are
\* attempted, although the library's thread resets m_tries while the runner
\* may be in the middle of m_tries++.
RetryBounded == rpc = "dial" => attempts <= MaxRetries

\* While the link is reported as Connected and no callback runs, there is a
\* connection, and the broker knows every topic of m_subscribers: after a loss
\* the topics are subscribed again.  Two races are left out: a connect that
\* closes the connection of a late answer (overtaken), and a topic inserted
\* after the session it was subscribed in (late).
ConnectedIsServed ==
    m_status = "Connected" /\ npc = "idle" /\ ~overtaken =>
        link = "up" /\ m_subscribers \ late \subseteq broker

\* connect() gives up or succeeds, whatever the order of late answers, losses
\* and timeouts, once the network is silent.
ConnectEnds == rpc \in Connecting ~> rpc \notin Connecting

\* A stop() that finds the runner inside connect() ends the run: the retries
\* do not look at m_quit, but the loop tests m_run after them.
StopDuringConnect == ~m_run /\ rpc \in Connecting ~> rpc \in {"over", "aborted"}

\* The documentation of stop() and finish(): the main loop finishes.
StopEnds == ~m_run ~> rpc \in {"over", "aborted"}
=============================================================================
