-------------------------- MODULE ThreadRunnerProofs --------------------------
(***************************************************************************)
(* Theorems about ThreadRunner, for any number of threads and helpers and  *)
(* any result codes.                                                       *)
(***************************************************************************)
EXTENDS ThreadRunner, TLAPS

\* How the threads, the handle m_thread and the owner's calls belong together.
Ties ==
    /\ \A w \in Workers : pc[w] # "none" => m_thread = w
    /\ pc[Owner] # "none" <=> cpc[Owner] = "sync"
    /\ pc[Owner] # "none" => \A w \in Workers : pc[w] = "none"
    /\ cpc[Owner] \in {"future", "get"} => m_thread = Null
    /\ phase = "destroyed" => m_thread = Null /\ cpc[Owner] = "idle"

\* What m_state is at each point of a run.
StateAt ==
    /\ \A e \in Executors :
          /\ pc[e] \in Launched => m_state \in Resting
          /\ pc[e] = "pre" => m_state = "Initialising"
          /\ pc[e] \in {"loop", "step", "custom", "final"} => m_state = "Running"
          /\ pc[e] \in {"clean", "post"} => m_state = "Finalising"
          /\ pc[e] = "leave" => m_state \in {"Initialising", "Running", "Finalising"}
          /\ pc[e] = "leave" /\ clean[e] => m_state = "Finalising"
          /\ pc[e] = "promise" => m_state \in Terminal
          /\ clean[e] => pc[e] \in {"post", "leave"}
    /\ Active = {} => m_state \in Resting

\* Which future there is at each point of a run and of the owner's calls.
FutureAt ==
    /\ \A e \in Executors :
          pc[e] \notin {"none", "exec"} => m_run_future.by = e /\ ~m_run_future.ready
    /\ cpc[Owner] \in {"join", "future", "get"} /\ call[Owner] = "wait" => Valid
    /\ cpc[Owner] = "get" => m_run_future.ready
    /\ cpc[Owner] = "answered" => answer = -1 \/ Active = {}

\* How a failure travels from the hook to the state, the future and the answer
\* of wait, as long as nobody calls stop.
FailureAt ==
    /\ \A c \in Clients : cpc[c] \in {"code", "notify"} => ~m_run
    /\ m_run =>
          /\ \A e \in Executors :
                pc[e] \in {"pre", "loop", "step", "custom"} => ~failed
          /\ failed =>
                /\ \A e \in Executors :
                      /\ ~clean[e]
                      /\ pc[e] \in {"final", "clean", "post"} => m_exit_code \in LoopErrors
                      /\ pc[e] \in {"leave", "promise"} => value[e] # 0
                      /\ pc[e] \in Launched \cup {"promise"} => m_state = "Error"
                /\ Active = {} => m_state = "Error"
                /\ m_run_future.ready => m_run_future.value # 0
                /\ cpc[Owner] = "answered" => answer # 0

Inv == TypeOK /\ Ties /\ StateAt /\ FutureAt /\ FailureAt

-------------------------------------------------------------------------------
\* Every step keeps the types.
LEMMA TypeStep ==
    ASSUME TypeOK, [Next]_vars
    PROVE  TypeOK'
<1> USE ActorsAssumption, CodesAssumption DEF TypeOK, Executors, Clients, State, Resting, Terminal, RunPc, Launched, Underway, Hooks,
               ClientPc, Calls, NoFuture, Valid, locals, runVars, stopVars, threadVars, clientVars
<1>1. ASSUME NEW e \in Executors, ExecBegin(e) PROVE TypeOK'
    BY <1>1 DEF ExecBegin, Goto
<1>2. ASSUME NEW e \in Executors, SetInitialising(e) PROVE TypeOK'
    BY <1>2 DEF SetInitialising, Goto
<1>3. ASSUME NEW e \in Executors, PreReturns(e) PROVE TypeOK'
    BY <1>3 DEF PreReturns, Goto
<1>4. ASSUME NEW e \in Executors, PreFails(e) PROVE TypeOK'
    BY <1>4 DEF PreFails, Goto
<1>5. ASSUME NEW e \in Executors, LoopTest(e) PROVE TypeOK'
    BY <1>5 DEF LoopTest, Goto
<1>6. ASSUME NEW e \in Executors, LoopReturns(e) PROVE TypeOK'
    BY <1>6 DEF LoopReturns, Goto
<1>7. ASSUME NEW e \in Executors, LoopFails(e) PROVE TypeOK'
    BY <1>7 DEF LoopFails, Goto
<1>8. ASSUME NEW e \in Executors, SetFinalising(e) PROVE TypeOK'
    BY <1>8 DEF SetFinalising, Goto
<1>9. ASSUME NEW e \in Executors, EvalClean(e) PROVE TypeOK'
    BY <1>9 DEF EvalClean, Goto
<1>10. ASSUME NEW e \in Executors, PostReturns(e) PROVE TypeOK'
    BY <1>10 DEF PostReturns, Goto
<1>11. ASSUME NEW e \in Executors, HookThrows(e) PROVE TypeOK'
    BY <1>11 DEF HookThrows, Goto
<1>12. ASSUME NEW e \in Executors, Leave(e) PROVE TypeOK'
    BY <1>12 DEF Leave, Goto
<1>13. ASSUME NEW e \in Executors, SetPromise(e) PROVE TypeOK'
    BY <1>13 DEF SetPromise, Goto
<1>14. ASSUME NEW c \in Clients, StopBegin(c) PROVE TypeOK'
  <2>1. call' \in [Clients -> Calls] /\ code' \in [Clients -> StopCodes]
    BY <1>14 DEF StopBegin, Enter
  <2>2. cpc' \in [Clients -> ClientPc] /\ m_run' \in BOOLEAN
    BY <1>14 DEF StopBegin, Enter
  <2> QED
    BY <1>14, <2>1, <2>2 DEF StopBegin
<1>15. ASSUME NEW c \in Clients, StopCode(c) PROVE TypeOK'
    BY <1>15 DEF StopCode, Enter, Return
<1>16. ASSUME NEW c \in Clients, StopNotify(c) PROVE TypeOK'
    BY <1>16 DEF StopNotify, Enter, Return
<1>17. CASE Start
    BY <1>17 DEF Start, Enter, Return, Goto
<1>18. CASE StartSynchronuos
    BY <1>18 DEF StartSynchronuos, Enter, Return, Goto
<1>19. CASE JoinBegin
    BY <1>19 DEF JoinBegin, Enter, Return, Goto
<1>20. CASE WaitInvalid
    BY <1>20 DEF WaitInvalid, Enter, Return, Goto
<1>21. CASE JoinThread
    BY <1>21 DEF JoinThread, Enter, Return, Goto
<1>22. CASE JoinFuture
    BY <1>22 DEF JoinFuture, Enter, Return, Goto
<1>23. CASE Get
    BY <1>23 DEF Get, Enter, Return, Goto
<1>24. CASE WaitReturns
    BY <1>24 DEF WaitReturns, Enter, Return, Goto
<1>25. CASE Destroy
    BY <1>25 DEF Destroy, Enter, Return, Goto
<1>26. CASE UNCHANGED vars
    BY <1>26 DEF vars, locals, runVars, stopVars, threadVars, clientVars
<1> QED
    BY <1>1, <1>2, <1>3, <1>4, <1>5, <1>6, <1>7, <1>8, <1>9, <1>10, <1>11, <1>12, <1>13, <1>14, <1>15, <1>16, <1>17, <1>18, <1>19, <1>20, <1>21, <1>22, <1>23, <1>24, <1>25, <1>26
    DEF Next, RunStep, HookEnds, CallStep, CallBegin

\* The constructed object has its types.
LEMMA TypeInit == Init => TypeOK
<1> SUFFICES ASSUME Init PROVE TypeOK
    OBVIOUS
<1> USE DEF Init
<1>1. m_state \in State /\ m_run \in BOOLEAN /\ m_exit_code \in Int
    BY DEF State, Resting
<1>2. m_run_future \in [by : Executors \cup {Null}, ready : BOOLEAN, value : Int]
    BY DEF NoFuture
<1>3. pc \in [Executors -> RunPc] /\ clean \in [Executors -> BOOLEAN]
    BY DEF RunPc
<1>4. cpc \in [Clients -> ClientPc] /\ call \in [Clients -> Calls]
    BY DEF ClientPc, Calls
<1>5. code \in [Clients -> StopCodes]
    BY CodesAssumption
<1> QED
    BY <1>1, <1>2, <1>3, <1>4, <1>5 DEF TypeOK

\* Type correctness: m_exit_code, the future and every local stay in their
\* ranges whatever the hooks answer.
THEOREM Typing == Spec => []TypeOK
<1>1. TypeOK /\ [Next]_vars => TypeOK'
    BY TypeStep
<1> QED
    BY TypeInit, <1>1, PTL DEF Spec

-------------------------------------------------------------------------------
\* Every step keeps the ties: only start gives a thread a run, and only when
\* the last one was joined.
LEMMA TiesStep ==
    ASSUME TypeOK, Ties, [Next]_vars
    PROVE  Ties'
<1> USE ActorsAssumption DEF TypeOK, Ties, Hooks, Executors, Clients, Valid, NoFuture, locals, runVars, stopVars, threadVars, clientVars
<1>1. ASSUME NEW e \in Executors, phase = "alive", ExecBegin(e) PROVE Ties'
    BY <1>1 DEF ExecBegin, Goto
<1>2. ASSUME NEW e \in Executors, phase = "alive", SetInitialising(e) PROVE Ties'
    BY <1>2 DEF SetInitialising, Goto
<1>3. ASSUME NEW e \in Executors, phase = "alive", PreReturns(e) PROVE Ties'
    BY <1>3 DEF PreReturns, Goto
<1>4. ASSUME NEW e \in Executors, phase = "alive", PreFails(e) PROVE Ties'
    BY <1>4 DEF PreFails, Goto
<1>5. ASSUME NEW e \in Executors, phase = "alive", LoopTest(e) PROVE Ties'
    BY <1>5 DEF LoopTest, Goto
<1>6. ASSUME NEW e \in Executors, phase = "alive", LoopReturns(e) PROVE Ties'
    BY <1>6 DEF LoopReturns, Goto
<1>7. ASSUME NEW e \in Executors, phase = "alive", LoopFails(e) PROVE Ties'
    BY <1>7 DEF LoopFails, Goto
<1>8. ASSUME NEW e \in Executors, phase = "alive", SetFinalising(e) PROVE Ties'
    BY <1>8 DEF SetFinalising, Goto
<1>9. ASSUME NEW e \in Executors, phase = "alive", EvalClean(e) PROVE Ties'
    BY <1>9 DEF EvalClean, Goto
<1>10. ASSUME NEW e \in Executors, phase = "alive", PostReturns(e) PROVE Ties'
    BY <1>10 DEF PostReturns, Goto
<1>11. ASSUME NEW e \in Executors, phase = "alive", HookThrows(e) PROVE Ties'
    BY <1>11 DEF HookThrows, Goto
<1>12. ASSUME NEW e \in Executors, phase = "alive", Leave(e) PROVE Ties'
    BY <1>12 DEF Leave, Goto
<1>13. ASSUME NEW e \in Executors, phase = "alive", SetPromise(e) PROVE Ties'
    BY <1>13 DEF SetPromise, Goto
<1>14. ASSUME NEW c \in Clients, phase = "alive", StopBegin(c) PROVE Ties'
    BY <1>14 DEF StopBegin, Enter, Return
<1>15. ASSUME NEW c \in Clients, phase = "alive", StopCode(c) PROVE Ties'
    BY <1>15 DEF StopCode, Enter, Return
<1>16. ASSUME NEW c \in Clients, phase = "alive", StopNotify(c) PROVE Ties'
    BY <1>16 DEF StopNotify, Enter, Return
<1>17. CASE phase = "alive" /\ Start
    BY <1>17 DEF Start, Enter, Return, Goto
<1>18. CASE phase = "alive" /\ StartSynchronuos
    BY <1>18 DEF StartSynchronuos, Enter, Return, Goto
<1>19. CASE phase = "alive" /\ JoinBegin
    BY <1>19 DEF JoinBegin, Enter, Return, Goto
<1>20. CASE phase = "alive" /\ WaitInvalid
    BY <1>20 DEF WaitInvalid, Enter, Return, Goto
<1>21. CASE phase = "alive" /\ JoinThread
    BY <1>21 DEF JoinThread, Enter, Return, Goto
<1>22. CASE phase = "alive" /\ JoinFuture
    BY <1>22 DEF JoinFuture, Enter, Return, Goto
<1>23. CASE phase = "alive" /\ Get
    BY <1>23 DEF Get, Enter, Return, Goto
<1>24. CASE phase = "alive" /\ WaitReturns
    BY <1>24 DEF WaitReturns, Enter, Return, Goto
<1>25. CASE phase = "alive" /\ Destroy
    BY <1>25 DEF Destroy, Enter, Return, Goto
<1>26. CASE UNCHANGED vars
    BY <1>26 DEF vars, locals, runVars, stopVars, threadVars, clientVars
<1> QED
    BY <1>1, <1>2, <1>3, <1>4, <1>5, <1>6, <1>7, <1>8, <1>9, <1>10, <1>11, <1>12, <1>13, <1>14, <1>15, <1>16, <1>17, <1>18, <1>19, <1>20, <1>21, <1>22, <1>23, <1>24, <1>25, <1>26
    DEF Next, RunStep, HookEnds, CallStep, CallBegin

\* Every step keeps m_state in line with the run.
LEMMA StateStep ==
    ASSUME TypeOK, Ties, StateAt, [Next]_vars
    PROVE  StateAt'
<1> USE ActorsAssumption DEF TypeOK, Ties, StateAt, Active, Hooks, Executors, Clients, Valid, NoFuture, locals, runVars, stopVars, threadVars, clientVars,
               State, Resting, Terminal, RunPc, Launched, Underway
<1>1. ASSUME NEW e \in Executors, phase = "alive", ExecBegin(e) PROVE StateAt'
    BY <1>1 DEF ExecBegin, Goto
<1>2. ASSUME NEW e \in Executors, phase = "alive", SetInitialising(e) PROVE StateAt'
    BY <1>2 DEF SetInitialising, Goto
<1>3. ASSUME NEW e \in Executors, phase = "alive", PreReturns(e) PROVE StateAt'
    BY <1>3 DEF PreReturns, Goto
<1>4. ASSUME NEW e \in Executors, phase = "alive", PreFails(e) PROVE StateAt'
    BY <1>4 DEF PreFails, Goto
<1>5. ASSUME NEW e \in Executors, phase = "alive", LoopTest(e) PROVE StateAt'
    BY <1>5 DEF LoopTest, Goto
<1>6. ASSUME NEW e \in Executors, phase = "alive", LoopReturns(e) PROVE StateAt'
    BY <1>6 DEF LoopReturns, Goto
<1>7. ASSUME NEW e \in Executors, phase = "alive", LoopFails(e) PROVE StateAt'
    BY <1>7 DEF LoopFails, Goto
<1>8. ASSUME NEW e \in Executors, phase = "alive", SetFinalising(e) PROVE StateAt'
    BY <1>8 DEF SetFinalising, Goto
<1>9. ASSUME NEW e \in Executors, phase = "alive", EvalClean(e) PROVE StateAt'
    BY <1>9 DEF EvalClean, Goto
<1>10. ASSUME NEW e \in Executors, phase = "alive", PostReturns(e) PROVE StateAt'
    BY <1>10 DEF PostReturns, Goto
<1>11. ASSUME NEW e \in Executors, phase = "alive", HookThrows(e) PROVE StateAt'
    BY <1>11 DEF HookThrows, Goto
<1>12. ASSUME NEW e \in Executors, phase = "alive", Leave(e) PROVE StateAt'
    BY <1>12 DEF Leave, Goto
<1>13. ASSUME NEW e \in Executors, phase = "alive", SetPromise(e) PROVE StateAt'
    BY <1>13 DEF SetPromise, Goto
<1>14. ASSUME NEW c \in Clients, phase = "alive", StopBegin(c) PROVE StateAt'
    BY <1>14 DEF StopBegin, Enter, Return
<1>15. ASSUME NEW c \in Clients, phase = "alive", StopCode(c) PROVE StateAt'
    BY <1>15 DEF StopCode, Enter, Return
<1>16. ASSUME NEW c \in Clients, phase = "alive", StopNotify(c) PROVE StateAt'
    BY <1>16 DEF StopNotify, Enter, Return
<1>17. CASE phase = "alive" /\ Start
    BY <1>17 DEF Start, Enter, Return, Goto
<1>18. CASE phase = "alive" /\ StartSynchronuos
    BY <1>18 DEF StartSynchronuos, Enter, Return, Goto
<1>19. CASE phase = "alive" /\ JoinBegin
    BY <1>19 DEF JoinBegin, Enter, Return, Goto
<1>20. CASE phase = "alive" /\ WaitInvalid
    BY <1>20 DEF WaitInvalid, Enter, Return, Goto
<1>21. CASE phase = "alive" /\ JoinThread
    BY <1>21 DEF JoinThread, Enter, Return, Goto
<1>22. CASE phase = "alive" /\ JoinFuture
    BY <1>22 DEF JoinFuture, Enter, Return, Goto
<1>23. CASE phase = "alive" /\ Get
    BY <1>23 DEF Get, Enter, Return, Goto
<1>24. CASE phase = "alive" /\ WaitReturns
    BY <1>24 DEF WaitReturns, Enter, Return, Goto
<1>25. CASE phase = "alive" /\ Destroy
    BY <1>25 DEF Destroy, Enter, Return, Goto
<1>26. CASE UNCHANGED vars
    BY <1>26 DEF vars, locals, runVars, stopVars, threadVars, clientVars
<1> QED
    BY <1>1, <1>2, <1>3, <1>4, <1>5, <1>6, <1>7, <1>8, <1>9, <1>10, <1>11, <1>12, <1>13, <1>14, <1>15, <1>16, <1>17, <1>18, <1>19, <1>20, <1>21, <1>22, <1>23, <1>24, <1>25, <1>26
    DEF Next, RunStep, HookEnds, CallStep, CallBegin

\* Every step keeps the future the one of the last run.
LEMMA FutureStep ==
    ASSUME TypeOK, Ties, FutureAt, [Next]_vars
    PROVE  FutureAt'
<1> USE ActorsAssumption DEF TypeOK, Ties, FutureAt, Active, Hooks, Executors, Clients, Valid, NoFuture, locals, runVars, stopVars, threadVars, clientVars
<1>1. ASSUME NEW e \in Executors, phase = "alive", ExecBegin(e) PROVE FutureAt'
    BY <1>1 DEF ExecBegin, Goto
<1>2. ASSUME NEW e \in Executors, phase = "alive", SetInitialising(e) PROVE FutureAt'
    BY <1>2 DEF SetInitialising, Goto
<1>3. ASSUME NEW e \in Executors, phase = "alive", PreReturns(e) PROVE FutureAt'
    BY <1>3 DEF PreReturns, Goto
<1>4. ASSUME NEW e \in Executors, phase = "alive", PreFails(e) PROVE FutureAt'
    BY <1>4 DEF PreFails, Goto
<1>5. ASSUME NEW e \in Executors, phase = "alive", LoopTest(e) PROVE FutureAt'
    BY <1>5 DEF LoopTest, Goto
<1>6. ASSUME NEW e \in Executors, phase = "alive", LoopReturns(e) PROVE FutureAt'
    BY <1>6 DEF LoopReturns, Goto
<1>7. ASSUME NEW e \in Executors, phase = "alive", LoopFails(e) PROVE FutureAt'
    BY <1>7 DEF LoopFails, Goto
<1>8. ASSUME NEW e \in Executors, phase = "alive", SetFinalising(e) PROVE FutureAt'
    BY <1>8 DEF SetFinalising, Goto
<1>9. ASSUME NEW e \in Executors, phase = "alive", EvalClean(e) PROVE FutureAt'
    BY <1>9 DEF EvalClean, Goto
<1>10. ASSUME NEW e \in Executors, phase = "alive", PostReturns(e) PROVE FutureAt'
    BY <1>10 DEF PostReturns, Goto
<1>11. ASSUME NEW e \in Executors, phase = "alive", HookThrows(e) PROVE FutureAt'
    BY <1>11 DEF HookThrows, Goto
<1>12. ASSUME NEW e \in Executors, phase = "alive", Leave(e) PROVE FutureAt'
    BY <1>12 DEF Leave, Goto
<1>13. ASSUME NEW e \in Executors, phase = "alive", SetPromise(e) PROVE FutureAt'
    BY <1>13 DEF SetPromise, Goto
<1>14. ASSUME NEW c \in Clients, phase = "alive", StopBegin(c) PROVE FutureAt'
    BY <1>14 DEF StopBegin, Enter, Return
<1>15. ASSUME NEW c \in Clients, phase = "alive", StopCode(c) PROVE FutureAt'
    BY <1>15 DEF StopCode, Enter, Return
<1>16. ASSUME NEW c \in Clients, phase = "alive", StopNotify(c) PROVE FutureAt'
    BY <1>16 DEF StopNotify, Enter, Return
<1>17. CASE phase = "alive" /\ Start
    BY <1>17 DEF Start, Enter, Return, Goto
<1>18. CASE phase = "alive" /\ StartSynchronuos
    BY <1>18 DEF StartSynchronuos, Enter, Return, Goto
<1>19. CASE phase = "alive" /\ JoinBegin
    BY <1>19 DEF JoinBegin, Enter, Return, Goto
<1>20. CASE phase = "alive" /\ WaitInvalid
    BY <1>20 DEF WaitInvalid, Enter, Return, Goto
<1>21. CASE phase = "alive" /\ JoinThread
    BY <1>21 DEF JoinThread, Enter, Return, Goto
<1>22. CASE phase = "alive" /\ JoinFuture
    BY <1>22 DEF JoinFuture, Enter, Return, Goto
<1>23. CASE phase = "alive" /\ Get
    BY <1>23 DEF Get, Enter, Return, Goto
<1>24. CASE phase = "alive" /\ WaitReturns
    BY <1>24 DEF WaitReturns, Enter, Return, Goto
<1>25. CASE phase = "alive" /\ Destroy
    BY <1>25 DEF Destroy, Enter, Return, Goto
<1>26. CASE UNCHANGED vars
    BY <1>26 DEF vars, locals, runVars, stopVars, threadVars, clientVars
<1> QED
    BY <1>1, <1>2, <1>3, <1>4, <1>5, <1>6, <1>7, <1>8, <1>9, <1>10, <1>11, <1>12, <1>13, <1>14, <1>15, <1>16, <1>17, <1>18, <1>19, <1>20, <1>21, <1>22, <1>23, <1>24, <1>25, <1>26
    DEF Next, RunStep, HookEnds, CallStep, CallBegin

\* Every step passes a failure on.
LEMMA FailureStep ==
    ASSUME TypeOK, Ties, StateAt, FutureAt, FailureAt, [Next]_vars
    PROVE  FailureAt'
<1> USE ActorsAssumption, CodesAssumption, NoCancelling DEF TypeOK, Ties, StateAt, FutureAt, FailureAt, Active, Hooks,
               Executors, Clients, Valid, NoFuture, locals, runVars, stopVars, threadVars, clientVars, State, Resting, Terminal, RunPc, Launched, Underway
<1>1. ASSUME NEW e \in Executors, phase = "alive", ExecBegin(e) PROVE FailureAt'
    BY <1>1 DEF ExecBegin, Goto
<1>2. ASSUME NEW e \in Executors, phase = "alive", SetInitialising(e) PROVE FailureAt'
    BY <1>2 DEF SetInitialising, Goto
<1>3. ASSUME NEW e \in Executors, phase = "alive", PreReturns(e) PROVE FailureAt'
    BY <1>3 DEF PreReturns, Goto
<1>4. ASSUME NEW e \in Executors, phase = "alive", PreFails(e) PROVE FailureAt'
    BY <1>4 DEF PreFails, Goto
<1>5. ASSUME NEW e \in Executors, phase = "alive", LoopTest(e) PROVE FailureAt'
    BY <1>5 DEF LoopTest, Goto
<1>6. ASSUME NEW e \in Executors, phase = "alive", LoopReturns(e) PROVE FailureAt'
    BY <1>6 DEF LoopReturns, Goto
<1>7. ASSUME NEW e \in Executors, phase = "alive", LoopFails(e) PROVE FailureAt'
    BY <1>7 DEF LoopFails, Goto
<1>8. ASSUME NEW e \in Executors, phase = "alive", SetFinalising(e) PROVE FailureAt'
    BY <1>8 DEF SetFinalising, Goto
<1>9. ASSUME NEW e \in Executors, phase = "alive", EvalClean(e) PROVE FailureAt'
    BY <1>9 DEF EvalClean, Goto
<1>10. ASSUME NEW e \in Executors, phase = "alive", PostReturns(e) PROVE FailureAt'
    BY <1>10 DEF PostReturns, Goto
<1>11. ASSUME NEW e \in Executors, phase = "alive", HookThrows(e) PROVE FailureAt'
    BY <1>11 DEF HookThrows, Goto
<1>12. ASSUME NEW e \in Executors, phase = "alive", Leave(e) PROVE FailureAt'
    BY <1>12 DEF Leave, Goto
<1>13. ASSUME NEW e \in Executors, phase = "alive", SetPromise(e) PROVE FailureAt'
    BY <1>13 DEF SetPromise, Goto
<1>14. ASSUME NEW c \in Clients, phase = "alive", StopBegin(c) PROVE FailureAt'
    BY <1>14 DEF StopBegin, Enter, Return
<1>15. ASSUME NEW c \in Clients, phase = "alive", StopCode(c) PROVE FailureAt'
    BY <1>15 DEF StopCode, Enter, Return
<1>16. ASSUME NEW c \in Clients, phase = "alive", StopNotify(c) PROVE FailureAt'
    BY <1>16 DEF StopNotify, Enter, Return
<1>17. CASE phase = "alive" /\ Start
    BY <1>17 DEF Start, Enter, Return, Goto
<1>18. CASE phase = "alive" /\ StartSynchronuos
    BY <1>18 DEF StartSynchronuos, Enter, Return, Goto
<1>19. CASE phase = "alive" /\ JoinBegin
    BY <1>19 DEF JoinBegin, Enter, Return, Goto
<1>20. CASE phase = "alive" /\ WaitInvalid
    BY <1>20 DEF WaitInvalid, Enter, Return, Goto
<1>21. CASE phase = "alive" /\ JoinThread
    BY <1>21 DEF JoinThread, Enter, Return, Goto
<1>22. CASE phase = "alive" /\ JoinFuture
    BY <1>22 DEF JoinFuture, Enter, Return, Goto
<1>23. CASE phase = "alive" /\ Get
    BY <1>23 DEF Get, Enter, Return, Goto
<1>24. CASE phase = "alive" /\ WaitReturns
    BY <1>24 DEF WaitReturns, Enter, Return, Goto
<1>25. CASE phase = "alive" /\ Destroy
    BY <1>25 DEF Destroy, Enter, Return, Goto
<1>26. CASE UNCHANGED vars
    BY <1>26 DEF vars, locals, runVars, stopVars, threadVars, clientVars
<1> QED
    BY <1>1, <1>2, <1>3, <1>4, <1>5, <1>6, <1>7, <1>8, <1>9, <1>10, <1>11, <1>12, <1>13, <1>14, <1>15, <1>16, <1>17, <1>18, <1>19, <1>20, <1>21, <1>22, <1>23, <1>24, <1>25, <1>26
    DEF Next, RunStep, HookEnds, CallStep, CallBegin

-------------------------------------------------------------------------------
\* The constructed object satisfies the invariant: no run, no call, no future.
LEMMA Initially == Init => Inv
<1> SUFFICES ASSUME Init PROVE Inv
    OBVIOUS
<1>1. TypeOK
    BY TypeInit
<1>2. Ties
    BY DEF Init, Ties, Executors, Clients
<1>3. StateAt
    BY DEF Init, StateAt, Resting
<1>4. FutureAt /\ FailureAt
    BY DEF Init, FutureAt, FailureAt, NoFuture, Clients
<1> QED
    BY <1>1, <1>2, <1>3, <1>4 DEF Inv

\* The inductive invariant: exec(), run() and the owner's calls keep m_state,
\* m_thread, the future and a failure in line with each other.
THEOREM Invariance == Spec => []Inv
<1>1. Inv /\ [Next]_vars => Inv'
    BY TypeStep, TiesStep, StateStep, FutureStep, FailureStep DEF Inv
<1> QED
    BY Initially, <1>1, PTL DEF Spec

\* One object never executes two runs at a time, with any number of threads:
\* start() refuses while m_thread is set, and only join() clears it.
THEOREM NeverTwoRuns == Spec => []OneRun
<1>1. Inv => OneRun
    BY ActorsAssumption DEF Inv, Ties, OneRun, Active, Executors
<1> QED
    BY Invariance, <1>1, PTL

\* After join(), and in a destroyed object, no thread executes a run.
THEOREM JoinIsQuiet == Spec => []QuietAfterJoin
<1>1. Inv => QuietAfterJoin
    BY ActorsAssumption
    DEF Inv, TypeOK, Ties, QuietAfterJoin, Active, Executors, Clients
<1> QED
    BY Invariance, <1>1, PTL

\* A failure of pre_run, step or custom_run that no stop() overwrites is seen
\* in the state and in what wait() answers, for all result codes of the hooks
\* that cannot cancel out.
THEOREM FailuresSurface == Spec => []FailureSurfaces
<1>1. ASSUME Inv PROVE FailureSurfaces
  <2> SUFFICES ASSUME failed, m_run
               PROVE  m_state # "Stopped" /\ (cpc[Owner] = "answered" => answer # 0)
    BY DEF FailureSurfaces
  <2>1. cpc[Owner] = "answered" => answer # 0
    BY <1>1 DEF Inv, FailureAt
  <2>2. CASE Active = {}
    BY <1>1, <2>1, <2>2 DEF Inv, FailureAt
  <2>3. CASE Active # {}
    <3>1. PICK e \in Executors : pc[e] # "none"
      BY <2>3 DEF Active
    <3>2. pc[e] \in RunPc \ {"none"}
      BY <1>1, <3>1 DEF Inv, TypeOK
    <3>3. m_state # "Stopped"
      BY <1>1, <3>2
      DEF Inv, StateAt, FailureAt, RunPc, Launched, Underway, Hooks, Terminal
    <3> QED
      BY <2>1, <3>3
  <2> QED
    BY <2>2, <2>3
<1> QED
    BY Invariance, <1>1, PTL

-------------------------------------------------------------------------------
\* The stage of a run at point p.
StageOf(p) ==
    CASE p \in Launched  -> "launched"
      [] p \in Underway  -> "underway"
      [] p = "promise"   -> "ended"
      [] OTHER           -> "rest"

StageMatches ==
    /\ \A e \in Executors : pc[e] # "none" => Stage = StageOf(pc[e])
    /\ (\A e \in Executors : pc[e] = "none") => Stage = "rest"

\* There being one run at a time, the stage is that of the run under way.
LEMMA StageIs ==
    Inv => StageMatches
<1> SUFFICES ASSUME Inv
             PROVE  StageMatches
    OBVIOUS
<1>1. \A e, f \in Executors : pc[e] # "none" /\ pc[f] # "none" => e = f
    BY ActorsAssumption DEF Inv, Ties, Executors
<1>2. ASSUME NEW e \in Executors, pc[e] # "none" PROVE Stage = StageOf(pc[e])
    BY <1>1, <1>2 DEF Stage, StageOf, Launched, Underway, Hooks
<1>3. ASSUME \A e \in Executors : pc[e] = "none" PROVE Stage = "rest"
    BY <1>3 DEF Stage, Launched, Underway, Hooks
<1> QED
    BY <1>2, <1>3 DEF StageMatches

\* Every step of the runner is one of the lifecycle, or changes nothing of it.
LEMMA StepSimulation == Inv /\ Inv' /\ [Next]_vars => [Lifecycle!Next]_(Lifecycle!vars)
<1> SUFFICES ASSUME Inv, Inv', [Next]_vars
             PROVE  Lifecycle!Next \/ (m_state' = m_state /\ Stage' = Stage)
    BY DEF Lifecycle!vars
<1> DEFINE Sim == Lifecycle!Next \/ (m_state' = m_state /\ Stage' = Stage)
<1>1. TypeOK /\ Ties /\ StateAt
    BY DEF Inv
<1>2. StageMatches
    BY StageIs
<1>3. StageMatches'
    BY StageIs, PTL
<1>4. ASSUME NEW e \in Executors, ExecBegin(e) PROVE Sim
    BY <1>1, <1>2, <1>3, <1>4
    DEF ExecBegin, TypeOK, StateAt, StageMatches, StageOf, Launched, Underway, Hooks, Terminal, Resting, Goto
<1>5. ASSUME NEW e \in Executors, SetInitialising(e) PROVE Sim
    BY <1>1, <1>2, <1>3, <1>5
    DEF SetInitialising, TypeOK, StateAt, StageMatches, StageOf, Launched, Underway, Hooks, Terminal, Resting, Goto, Lifecycle!Next, Lifecycle!Initialise
<1>6. ASSUME NEW e \in Executors, PreReturns(e) PROVE Sim
    BY <1>1, <1>2, <1>3, <1>6
    DEF PreReturns, TypeOK, StateAt, StageMatches, StageOf, Launched, Underway, Hooks, Terminal, Resting, Goto, Lifecycle!Next, Lifecycle!Advance
<1>7. ASSUME NEW e \in Executors, PreFails(e) PROVE Sim
    BY <1>1, <1>2, <1>3, <1>7
    DEF PreFails, TypeOK, StateAt, StageMatches, StageOf, Launched, Underway, Hooks, Terminal, Resting, Goto
<1>8. ASSUME NEW e \in Executors, LoopTest(e) PROVE Sim
    BY <1>1, <1>2, <1>3, <1>8
    DEF LoopTest, TypeOK, StateAt, StageMatches, StageOf, Launched, Underway, Hooks, Terminal, Resting, Goto
<1>9. ASSUME NEW e \in Executors, LoopReturns(e) PROVE Sim
    BY <1>1, <1>2, <1>3, <1>9
    DEF LoopReturns, TypeOK, StateAt, StageMatches, StageOf, Launched, Underway, Hooks, Terminal, Resting, Goto
<1>10. ASSUME NEW e \in Executors, LoopFails(e) PROVE Sim
    BY <1>1, <1>2, <1>3, <1>10
    DEF LoopFails, TypeOK, StateAt, StageMatches, StageOf, Launched, Underway, Hooks, Terminal, Resting, Goto
<1>11. ASSUME NEW e \in Executors, SetFinalising(e) PROVE Sim
    BY <1>1, <1>2, <1>3, <1>11
    DEF SetFinalising, TypeOK, StateAt, StageMatches, StageOf, Launched, Underway, Hooks, Terminal, Resting, Goto, Lifecycle!Next, Lifecycle!Advance
<1>12. ASSUME NEW e \in Executors, EvalClean(e) PROVE Sim
    BY <1>1, <1>2, <1>3, <1>12
    DEF EvalClean, TypeOK, StateAt, StageMatches, StageOf, Launched, Underway, Hooks, Terminal, Resting, Goto
<1>13. ASSUME NEW e \in Executors, PostReturns(e) PROVE Sim
    BY <1>1, <1>2, <1>3, <1>13
    DEF PostReturns, TypeOK, StateAt, StageMatches, StageOf, Launched, Underway, Hooks, Terminal, Resting, Goto
<1>14. ASSUME NEW e \in Executors, HookThrows(e) PROVE Sim
    BY <1>1, <1>2, <1>3, <1>14
    DEF HookThrows, TypeOK, StateAt, StageMatches, StageOf, Launched, Underway, Hooks, Terminal, Resting, Goto
<1>15. ASSUME NEW e \in Executors, Leave(e) PROVE Sim
    BY <1>1, <1>2, <1>3, <1>15
    DEF Leave, TypeOK, StateAt, StageMatches, StageOf, Launched, Underway, Hooks, Terminal, Resting, Goto, Lifecycle!Next, Lifecycle!End
<1>16. ASSUME NEW e \in Executors, SetPromise(e) PROVE Sim
    BY <1>1, <1>2, <1>3, <1>16
    DEF SetPromise, TypeOK, StateAt, StageMatches, StageOf, Launched, Underway, Hooks, Terminal, Resting, Goto, Lifecycle!Next, Lifecycle!Retire, Ties, Executors
<1>17. CASE Start
    BY ActorsAssumption, <1>1, <1>2, <1>3, <1>17
    DEF Start, TypeOK, StateAt, StageMatches, StageOf, Launched, Underway, Hooks, Terminal, Resting, Goto, Ties, Executors,
        Lifecycle!Next, Lifecycle!Launch, Lifecycle!Resting, Lifecycle!Terminal
<1>18. CASE StartSynchronuos
    BY ActorsAssumption, <1>1, <1>2, <1>3, <1>18
    DEF StartSynchronuos, TypeOK, StateAt, StageMatches, StageOf, Launched, Underway, Hooks, Terminal, Resting, Goto, Ties, Executors,
        Lifecycle!Next, Lifecycle!Launch, Lifecycle!Resting, Lifecycle!Terminal
<1>19. ASSUME UNCHANGED <<m_state, runVars>> PROVE Sim
    BY <1>19 DEF locals, runVars, Stage
<1>20. ASSUME NEW c \in Clients, StopBegin(c) PROVE Sim
    BY <1>19, <1>20 DEF StopBegin
<1>21. ASSUME NEW c \in Clients, StopCode(c) PROVE Sim
    BY <1>19, <1>21 DEF StopCode
<1>22. ASSUME NEW c \in Clients, StopNotify(c) PROVE Sim
    BY <1>19, <1>22 DEF StopNotify
<1>23. CASE JoinBegin \/ WaitInvalid \/ JoinThread \/ JoinFuture
          \/ Get \/ WaitReturns \/ Destroy
    BY <1>19, <1>23 DEF JoinBegin, WaitInvalid, JoinThread, JoinFuture, Get, WaitReturns, Destroy
<1>24. CASE UNCHANGED vars
    BY <1>19, <1>24 DEF vars
<1> QED
    BY <1>4, <1>5, <1>6, <1>7, <1>8, <1>9, <1>10, <1>11, <1>12, <1>13, <1>14, <1>15, <1>16, <1>17, <1>18, <1>20, <1>21, <1>22, <1>23, <1>24
    DEF Next, RunStep, HookEnds, CallStep, CallBegin

\* The runner implements the lifecycle: whoever reads state() sees the states
\* in the documented order, and a terminal one only when no hook runs.
THEOREM ImplementsLifecycle == Spec => LifecycleSpec
<1>1. Init => Lifecycle!Init
    BY DEF Init, Lifecycle!Init, Stage, Launched, Underway, Hooks
<1> QED
    BY Invariance, <1>1, StepSimulation, PTL DEF Spec, LifecycleSpec, Lifecycle!Spec
=============================================================================
