----------------------------- MODULE ThreadRunner -----------------------------
(***************************************************************************)
(* muonpi::thread_runner: the main loop every sink, link and server of the *)
(* library inherits.  One object is used by its owner (who starts, joins,  *)
(* waits for, finishes and destroys it), by helpers (other threads that    *)
(* may call stop) and by the threads that execute its runs: a worker after *)
(* start, the owner itself after start_synchronuos.                        *)
(*                                                                         *)
(* The virtual hooks pre_run, step, custom_run and post_run return, fail   *)
(* or throw as they like.  m_quit is set right after m_run and is read     *)
(* only by subclasses, so it is the complement of m_run here.              *)
(***************************************************************************)
EXTENDS Integers

CONSTANTS
    Owner, Workers, Helpers,   \* the threads
    Null,                      \* an empty pointer, an invalid future
    StopCodes,                 \* what stop is called with
    PreErrors, LoopErrors,     \* nonzero results of pre_run, of step and custom_run
    PostResults                \* results of post_run

ASSUME ActorsAssumption ==
    /\ Owner \notin Workers \cup Helpers
    /\ Workers \cap Helpers = {}
    /\ Null \notin Workers \cup {Owner}

ASSUME CodesAssumption ==
    /\ StopCodes \subseteq Int
    /\ 0 \in StopCodes
    /\ PreErrors \subseteq Int \ {0}
    /\ LoopErrors \subseteq Int \ {0}
    /\ PostResults \subseteq Int

\* run() answers post_run() + m_exit_code: a post_run that answered the
\* negative of an error would turn it into success.
ASSUME NoCancelling == \A p \in PostResults, r \in LoopErrors : p + r # 0

VARIABLES
    m_state, m_run, m_exit_code, m_thread, m_run_future, use_custom_run,
    pc, clean, value,          \* per executor: where run() is, and its locals
    failed,                    \* history: a hook before post_run failed in this run
    cpc, call, code,           \* per client: where its call is, which, with what
    on_stop_called, answer, phase

stopVars   == <<m_run, m_exit_code, on_stop_called>>
threadVars == <<m_thread, m_run_future, use_custom_run>>
locals     == <<clean, value, failed>>
runVars    == <<pc, locals>>
clientVars == <<cpc, call, code, answer, phase>>
vars       == <<m_state, stopVars, threadVars, runVars, clientVars>>

Executors == {Owner} \cup Workers
Clients   == {Owner} \cup Helpers

\* The enumeration is ordered; up to Initial, start is allowed.
Terminal == {"Stopped", "Error"}
Resting  == Terminal \cup {"Initial"}
State    == Resting \cup {"Initialising", "Running", "Finalising"}

Launched == {"exec", "run"}
Hooks    == {"pre", "step", "custom", "post"}
Underway == Hooks \cup {"loop", "final", "clean", "leave"}
RunPc    == Launched \cup Underway \cup {"none", "promise"}
ClientPc == {"idle", "sync", "code", "notify", "join", "future", "get", "answered"}
Calls    == {"none", "stop", "finish", "join", "wait"}

Active == {e \in Executors : pc[e] # "none"}

NoFuture == [by |-> Null, ready |-> FALSE, value |-> 0]
Valid    == m_run_future.by # Null

Init ==
    /\ m_state = "Initial" /\ m_run = TRUE /\ m_exit_code = 0
    /\ m_thread = Null /\ m_run_future = NoFuture
    /\ use_custom_run \in BOOLEAN
    /\ pc = [e \in Executors |-> "none"]
    /\ clean = [e \in Executors |-> FALSE]
    /\ value = [e \in Executors |-> 0]
    /\ failed = FALSE
    /\ cpc = [c \in Clients |-> "idle"]
    /\ call = [c \in Clients |-> "none"]
    /\ code = [c \in Clients |-> 0]
    /\ on_stop_called = FALSE /\ answer = 0 /\ phase = "alive"

-------------------------------------------------------------------------------
(* The run: exec() and run(), on executor e.                               *)

Goto(e, from, to) == pc[e] = from /\ pc' = [pc EXCEPT ![e] = to]

\* The future is published by the executing thread, not by start().
ExecBegin(e) ==
    /\ Goto(e, "exec", "run")
    /\ m_run_future' = [by |-> e, ready |-> FALSE, value |-> 0]
    /\ UNCHANGED <<m_state, m_thread, use_custom_run, stopVars, locals, clientVars>>

SetInitialising(e) ==
    /\ Goto(e, "run", "pre")
    /\ m_state' = "Initialising"
    /\ failed' = FALSE
    /\ UNCHANGED <<threadVars, stopVars, clean, value, clientVars>>

PreReturns(e) ==
    /\ Goto(e, "pre", IF use_custom_run THEN "custom" ELSE "loop")
    /\ m_state' = "Running"
    /\ UNCHANGED <<threadVars, stopVars, locals, clientVars>>

PreFails(e) ==
    /\ Goto(e, "pre", "leave")
    /\ \E r \in PreErrors : value' = [value EXCEPT ![e] = r]
    /\ failed' = TRUE
    /\ UNCHANGED <<m_state, threadVars, stopVars, clean, clientVars>>

LoopTest(e) ==
    /\ Goto(e, "loop", IF m_run THEN "step" ELSE "final")
    /\ UNCHANGED <<m_state, threadVars, stopVars, locals, clientVars>>

LoopReturns(e) ==
    /\ Goto(e, "step", "loop") \/ Goto(e, "custom", "final")
    /\ UNCHANGED <<m_state, threadVars, stopVars, locals, clientVars>>

\* Mutant: the result of the loop is logged but not recorded.
LoopFailsUnrecorded(e) ==
    /\ Goto(e, "step", "final") \/ Goto(e, "custom", "final")
    /\ failed' = TRUE
    /\ UNCHANGED <<m_state, threadVars, stopVars, clean, value, clientVars>>

LoopFails(e) ==
    /\ Goto(e, "step", "final") \/ Goto(e, "custom", "final")
    /\ \E r \in LoopErrors : m_exit_code' = r
    /\ failed' = TRUE
    /\ UNCHANGED <<m_state, threadVars, m_run, on_stop_called, clean, value,
                   clientVars>>

SetFinalising(e) ==
    /\ Goto(e, "final", "clean")
    /\ m_state' = "Finalising"
    /\ UNCHANGED <<threadVars, stopVars, locals, clientVars>>

EvalClean(e) ==
    /\ Goto(e, "clean", "post")
    /\ clean' = [clean EXCEPT ![e] = m_exit_code = 0]
    /\ UNCHANGED <<m_state, threadVars, stopVars, value, failed, clientVars>>

\* m_exit_code is read again here: a stop that came after EvalClean counts.
PostReturns(e) ==
    /\ Goto(e, "post", "leave")
    /\ \E r \in PostResults : value' = [value EXCEPT ![e] = r + m_exit_code]
    /\ UNCHANGED <<m_state, threadVars, stopVars, clean, failed, clientVars>>

HookThrows(e) ==
    /\ \E h \in Hooks : Goto(e, h, "leave")
    /\ value' = [value EXCEPT ![e] = -1]
    /\ failed' = (failed \/ pc[e] # "post")
    /\ UNCHANGED <<m_state, threadVars, stopVars, clean, clientVars>>

\* Mutant: run() has no scope guard.
LeaveSilently(e) ==
    /\ Goto(e, "leave", "promise")
    /\ UNCHANGED <<m_state, threadVars, stopVars, locals, clientVars>>

\* The scope guard of run(); it does not notify m_state_condition.  Locals
\* go back to their initial value where they die.
Leave(e) ==
    /\ Goto(e, "leave", "promise")
    /\ m_state' = IF clean[e] THEN "Stopped" ELSE "Error"
    /\ clean' = [clean EXCEPT ![e] = FALSE]
    /\ UNCHANGED <<threadVars, stopVars, value, failed, clientVars>>

\* Mutant: exec() forgets set_value.
SetPromiseForgotten(e) ==
    /\ Goto(e, "promise", "none")
    /\ cpc' = IF e = Owner THEN [cpc EXCEPT ![Owner] = "idle"] ELSE cpc
    /\ UNCHANGED <<m_state, threadVars, stopVars, locals, call, code, answer, phase>>

\* set_value reaches whoever still holds this run's future.
SetPromise(e) ==
    /\ Goto(e, "promise", "none")
    /\ m_run_future' = IF m_run_future.by = e
                       THEN [by |-> e, ready |-> TRUE, value |-> value[e]]
                       ELSE m_run_future
    /\ value' = [value EXCEPT ![e] = 0]
    /\ cpc' = IF e = Owner THEN [cpc EXCEPT ![Owner] = "idle"] ELSE cpc
    /\ UNCHANGED <<m_state, m_thread, use_custom_run, stopVars, clean, failed,
                   call, code, answer, phase>>

-------------------------------------------------------------------------------
(* The calls of the clients.                                               *)

Enter(c, f) == cpc[c] = "idle" /\ call' = [call EXCEPT ![c] = f]
Return(c)   == cpc' = [cpc EXCEPT ![c] = "idle"] /\ call' = [call EXCEPT ![c] = "none"]

\* Mutant: start() looks at m_state only.
StartUnguarded ==
    /\ cpc[Owner] = "idle" /\ m_state \in Resting
    /\ \E w \in Workers : Goto(w, "none", "exec") /\ m_thread' = w
    /\ UNCHANGED <<m_state, m_run_future, use_custom_run, stopVars, locals, clientVars>>

Start ==
    /\ cpc[Owner] = "idle"
    /\ m_state \in Resting /\ m_thread = Null
    /\ \E w \in Workers : Goto(w, "none", "exec") /\ m_thread' = w
    /\ UNCHANGED <<m_state, m_run_future, use_custom_run, stopVars, locals, clientVars>>

\* The caller's part of the contract: no started run is still executing
\* (start_synchronuos itself does not look at m_thread).
StartSynchronuos ==
    /\ cpc[Owner] = "idle" /\ cpc' = [cpc EXCEPT ![Owner] = "sync"]
    /\ \A w \in Workers : pc[w] = "none"
    /\ m_state \in Resting
    /\ Goto(Owner, "none", "exec")
    /\ UNCHANGED <<m_state, threadVars, stopVars, locals, call, code, answer, phase>>

\* stop(r), and the stop() that finish() begins with.
StopBegin(c) ==
    /\ \/ Enter(c, "stop") /\ \E r \in StopCodes : code' = [code EXCEPT ![c] = r]
       \/ c = Owner /\ Enter(c, "finish") /\ code' = [code EXCEPT ![c] = 0]
    /\ cpc' = [cpc EXCEPT ![c] = "code"]
    /\ m_run' = FALSE
    /\ UNCHANGED <<m_state, threadVars, m_exit_code, on_stop_called, runVars,
                   answer, phase>>

StopCode(c) ==
    /\ cpc[c] = "code" /\ cpc' = [cpc EXCEPT ![c] = "notify"]
    /\ m_exit_code' = code[c]
    /\ code' = [code EXCEPT ![c] = 0]
    /\ UNCHANGED <<m_state, threadVars, m_run, on_stop_called, runVars, call,
                   answer, phase>>

\* Mutant: stop() leaves on_stop out.
StopSilently(c) ==
    /\ cpc[c] = "notify"
    /\ IF call[c] = "finish"
       THEN cpc' = [cpc EXCEPT ![c] = "join"] /\ UNCHANGED call
       ELSE Return(c)
    /\ UNCHANGED <<m_state, threadVars, stopVars, runVars, code, answer, phase>>

\* m_condition is notified and on_stop called: custom_run is told to return.
StopNotify(c) ==
    /\ cpc[c] = "notify"
    /\ IF call[c] = "finish"
       THEN cpc' = [cpc EXCEPT ![c] = "join"] /\ UNCHANGED call
       ELSE Return(c)
    /\ on_stop_called' = TRUE
    /\ UNCHANGED <<m_state, threadVars, m_run, m_exit_code, runVars, code, answer,
                   phase>>

JoinBegin ==
    /\ \/ Enter(Owner, "join")
       \/ Enter(Owner, "wait") /\ Valid
    /\ cpc' = [cpc EXCEPT ![Owner] = "join"]
    /\ UNCHANGED <<m_state, threadVars, stopVars, runVars, code, answer, phase>>

WaitInvalid ==
    /\ Enter(Owner, "wait") /\ ~Valid
    /\ cpc' = [cpc EXCEPT ![Owner] = "answered"]
    /\ answer' = -1
    /\ UNCHANGED <<m_state, threadVars, stopVars, runVars, code, phase>>

\* Mutant: the handle is detached instead of joined.
JoinDetaches ==
    /\ cpc[Owner] = "join" /\ cpc' = [cpc EXCEPT ![Owner] = "future"]
    /\ m_thread' = Null
    /\ UNCHANGED <<m_state, m_run_future, use_custom_run, stopVars, runVars,
                   call, code, answer, phase>>

\* Mutant: the joined thread object is kept.
JoinKeepsHandle ==
    /\ cpc[Owner] = "join" /\ cpc' = [cpc EXCEPT ![Owner] = "future"]
    /\ m_thread # Null => pc[m_thread] = "none"
    /\ m_thread' = IF m_thread = Null THEN Null ELSE "joined"
    /\ UNCHANGED <<m_state, m_run_future, use_custom_run, stopVars, runVars,
                   call, code, answer, phase>>

JoinThread ==
    /\ cpc[Owner] = "join" /\ cpc' = [cpc EXCEPT ![Owner] = "future"]
    /\ m_thread # Null => pc[m_thread] = "none"
    /\ m_thread' = Null
    /\ UNCHANGED <<m_state, m_run_future, use_custom_run, stopVars, runVars, call,
                   code, answer, phase>>

JoinFuture ==
    /\ cpc[Owner] = "future"
    /\ Valid => m_run_future.ready
    /\ IF call[Owner] = "wait"
       THEN cpc' = [cpc EXCEPT ![Owner] = "get"] /\ UNCHANGED call
       ELSE Return(Owner)
    /\ UNCHANGED <<m_state, threadVars, stopVars, runVars, code, answer, phase>>

\* get() leaves the future invalid.
Get ==
    /\ cpc[Owner] = "get" /\ cpc' = [cpc EXCEPT ![Owner] = "answered"]
    /\ answer' = m_run_future.value
    /\ m_run_future' = NoFuture
    /\ UNCHANGED <<m_state, m_thread, use_custom_run, stopVars, runVars, call,
                   code, phase>>

WaitReturns ==
    /\ cpc[Owner] = "answered" /\ Return(Owner)
    /\ answer' = 0
    /\ UNCHANGED <<m_state, threadVars, stopVars, runVars, code, phase>>

\* The destructor is the default one: destroying the unjoined std::thread
\* behind m_thread terminates the program.  No other call may be under way.
Destroy ==
    /\ \A c \in Clients : cpc[c] = "idle"
    /\ phase' = IF m_thread = Null THEN "destroyed" ELSE "aborted"
    /\ UNCHANGED <<m_state, threadVars, stopVars, runVars, cpc, call, code, answer>>

-------------------------------------------------------------------------------
\* custom_run may go on for ever until on_stop was called.
HookEnds(e) == PreReturns(e) \/ PreFails(e) \/ LoopReturns(e) \/ LoopFails(e)
               \/ PostReturns(e) \/ HookThrows(e)

RunStep(e) == ExecBegin(e) \/ SetInitialising(e) \/ LoopTest(e) \/ SetFinalising(e)
              \/ EvalClean(e) \/ Leave(e) \/ SetPromise(e) \/ HookEnds(e)

CallStep(c) ==
    \/ StopCode(c) \/ StopNotify(c)
    \/ c = Owner /\ (JoinThread \/ JoinFuture \/ Get \/ WaitReturns)

CallBegin(c) ==
    \/ StopBegin(c)
    \/ c = Owner /\ (Start \/ StartSynchronuos \/ JoinBegin \/ WaitInvalid \/ Destroy)

Next ==
    /\ phase = "alive"
    /\ \/ \E e \in Executors : RunStep(e)
       \/ \E c \in Clients : CallStep(c) \/ CallBegin(c)

Spec == Init /\ [][Next]_vars

\* Threads are scheduled, calls under way go on, and every hook returns:
\* custom_run once on_stop was called, the others always.
Fairness ==
    /\ \A e \in Executors :
          WF_vars(phase = "alive" /\ RunStep(e) /\ (pc[e] = "custom" => on_stop_called))
    /\ \A c \in Clients : WF_vars(phase = "alive" /\ CallStep(c))

FairSpec == Spec /\ Fairness

-------------------------------------------------------------------------------
TypeOK ==
    /\ m_state \in State /\ m_run \in BOOLEAN /\ m_exit_code \in Int
    /\ m_thread \in Workers \cup {Null}
    /\ m_run_future \in [by : Executors \cup {Null}, ready : BOOLEAN, value : Int]
    /\ use_custom_run \in BOOLEAN
    /\ pc \in [Executors -> RunPc] /\ clean \in [Executors -> BOOLEAN]
    /\ value \in [Executors -> Int] /\ failed \in BOOLEAN
    /\ cpc \in [Clients -> ClientPc] /\ call \in [Clients -> Calls]
    /\ code \in [Clients -> StopCodes]
    /\ on_stop_called \in BOOLEAN /\ answer \in Int
    /\ phase \in {"alive", "destroyed", "aborted"}

\* One object never executes two runs at a time, however start, join and
\* finish of its owner interleave with the end of the previous run: start()
\* looks at m_state, which is terminal before the old thread is over, and at
\* m_thread.
OneRun == \A e, f \in Active : e = f

\* Once join() is past the thread, and once the object is destroyed without
\* terminating the program, no thread still executes its run().
QuietAfterJoin ==
    cpc[Owner] \in {"future", "get"} \/ phase = "destroyed" => Active = {}

\* When pre_run, step or custom_run failed or threw and nobody called stop,
\* the run is not reported as Stopped and wait() does not answer 0.  (A stop
\* with code 0 may hide the failure: it overwrites m_exit_code.)
FailureSurfaces ==
    failed /\ m_run =>
        /\ m_state # "Stopped"
        /\ cpc[Owner] = "answered" => answer # 0

\* After a stop every run comes to its end: the one under way, and any that
\* is started later (m_run is never set again).
StopEndsRuns == ~m_run ~> (Active = {} \/ phase # "alive")

\* finish() returns: it is never left waiting for the thread or the future.
FinishReturns ==
    call[Owner] = "finish" ~> call[Owner] = "none"

\* The documentation of wait(): it waits for the main loop to finish.
WaitWaits == cpc[Owner] = "answered" => Active = {}

\* The lifecycle that an observer of state() relies on.
Stage ==
    CASE \E e \in Executors : pc[e] \in Launched  -> "launched"
      [] \E e \in Executors : pc[e] \in Underway  -> "underway"
      [] \E e \in Executors : pc[e] = "promise"   -> "ended"
      [] OTHER                                    -> "rest"

Lifecycle == INSTANCE RunnerLifecycle WITH state <- m_state, stage <- Stage

\* Every behaviour of the runner is one of the lifecycle specification.
LifecycleSpec == Lifecycle!Spec
=============================================================================
