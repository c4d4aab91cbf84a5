---------------------------- MODULE MqttLinkProofs ----------------------------
(***************************************************************************)
(* Theorems about MqttLink, for any topics, any max_retries and any number *)
(* of answers and losses.                                                  *)
(***************************************************************************)
EXTENDS MqttLink, TLAPS

\* The tries the runner counts are never behind its attempts, neither in
\* m_tries nor in the value of m_tries it is about to increment.
TriesCounted ==
    /\ attempts <= m_tries
    /\ rpc = "bump" => attempts <= tries
    /\ rpc = "dial" => m_tries <= MaxRetries

\* The library's thread does not exist before pre_run().
NotStarted == rpc = "start" => npc = "off" /\ m_status = "Invalid"

\* A callback that comes with an answer finds a status other than Connected,
\* and what holds of a Connected link holds from each of its steps on.
Session ==
    ~overtaken =>
        /\ npc \in {"acked", "connected"} => link = "up"
        /\ npc \in {"acked", "connected", "refused", "reject"} => m_status # "Connected"
        /\ m_status = "Connected" /\ npc \in {"idle", "resubscribe", "fulfil"} => link = "up"
        /\ m_status = "Connected" /\ npc \in {"idle", "fulfil"} =>
            m_subscribers \ late \subseteq broker

Inv == TypeOK /\ TriesCounted /\ NotStarted /\ Session

-------------------------------------------------------------------------------
\* Every step keeps the types.
LEMMA TypeStep ==
    ASSUME TypeOK, [Next]_vars
    PROVE  TypeOK'
<1> USE DEF Goto, GotoConnect, NGoto, shared, runner, network, history, TypeOK, RunnerPc, Connecting,
       NetworkPc, Status
<1>1. CASE PreRun
    BY <1>1 DEF PreRun
<1>2. CASE Backoff
    BY <1>2 DEF Backoff
<1>3. CASE Check
    BY <1>3 DEF Check
<1>4. CASE ReadTries
    BY <1>4 DEF ReadTries
<1>5. CASE Bump
    BY <1>5 DEF Bump
<1>6. CASE Limit
    BY <1>6 DEF Limit
<1>7. CASE LoginFails
    BY <1>7 DEF LoginFails
<1>8. CASE Dial
    BY <1>8 DEF Dial
<1>9. CASE RenewPromise
    BY <1>9 DEF RenewPromise
<1>10. CASE GetFuture
    BY <1>10 DEF GetFuture
<1>11. CASE Await
    BY <1>11 DEF Await
<1>12. CASE GetResult
  <2>1. /\ rpc' \in {"true", "check", "backoff"} /\ future_valid' \in BOOLEAN
        /\ UNCHANGED <<m_status, m_tries, m_subscribers, m_connect_promise, m_run, within,
                       tries, network, upc, spc, history>>
    BY <1>12 DEF GetResult
  <2> QED
    BY <2>1
<1>13. CASE ConnectReturned
    BY <1>13 DEF ConnectReturned
<1>14. CASE LoopTest
    BY <1>14 DEF LoopTest
<1>15. CASE Wait
    BY <1>15 DEF Wait
<1>16. CASE Wake
    BY <1>16 DEF Wake
<1>17. CASE PostRun
    BY <1>17 DEF PostRun
<1>18. CASE Disconnect
    BY <1>18 DEF Disconnect
<1>19. CASE Close
    BY <1>19 DEF Close
<1>20. CASE FutureTest
    BY <1>20 DEF FutureTest
<1>21. CASE SetConnected
    BY <1>21 DEF SetConnected
<1>22. CASE ResetAndResubscribe
    BY <1>22 DEF ResetAndResubscribe
<1>23. CASE Fulfil
    BY <1>23 DEF Fulfil, SetValue
<1>24. CASE Reject
    BY <1>24 DEF Reject, SetValue
<1>25. CASE NotifyLost
    BY <1>25 DEF NotifyLost
<1>26. CASE SetError
    BY <1>26 DEF SetError
<1>27. CASE Answer
    BY <1>27 DEF Answer, Event
<1>28. CASE Lose
    BY <1>28 DEF Lose, Event
<1>29. CASE Reconnect
    BY <1>29 DEF Reconnect
<1>30. CASE Stop
  <2>1. /\ m_run' \in BOOLEAN /\ spc' = "notify"
        /\ UNCHANGED <<shared, runner, network, upc, history>>
    BY <1>30 DEF Stop
  <2> QED
    BY <2>1
<1>31. CASE StopNotify
    BY <1>31 DEF StopNotify
<1>32. ASSUME NEW t \in Topics, Subscribe(t) PROVE TypeOK'
    BY <1>32 DEF Subscribe
<1>33. ASSUME NEW t \in Topics, SendSubscribe(t) PROVE TypeOK'
    BY <1>33 DEF SendSubscribe
<1>34. ASSUME NEW t \in Topics, Insert(t) PROVE TypeOK'
    BY <1>34 DEF Insert
<1>35. CASE UNCHANGED vars
    BY <1>35 DEF vars
<1> QED
    BY <1>1, <1>2, <1>3, <1>4, <1>5, <1>6, <1>7, <1>8, <1>9, <1>10, <1>11, <1>12,
       <1>13, <1>14, <1>15, <1>16, <1>17, <1>18, <1>19, <1>20, <1>21, <1>22, <1>23, <1>24,
       <1>25, <1>26, <1>27, <1>28, <1>29, <1>30, <1>31, <1>32, <1>33, <1>34, <1>35
    DEF Next, Run, Connect, Callback

\* The runner increments what it read, and a reset puts both counts to zero.
LEMMA TriesCountedStep ==
    ASSUME TypeOK, TriesCounted, [Next]_vars
    PROVE  TriesCounted'
<1>0. m_tries \in Nat /\ tries \in Nat /\ attempts \in Nat /\ MaxRetries \in Nat
    BY BoundsAssumption DEF TypeOK
<1> USE DEF Goto, GotoConnect, NGoto, shared, runner, network, history, TriesCounted
<1>1. CASE PreRun
    BY <1>0, <1>1 DEF PreRun
<1>2. CASE Backoff
    BY <1>0, <1>2 DEF Backoff
<1>3. CASE Check
    BY <1>0, <1>3 DEF Check
<1>4. CASE ReadTries
    BY <1>0, <1>4 DEF ReadTries
<1>5. CASE Bump
    BY <1>0, <1>5 DEF Bump
<1>6. CASE Limit
    BY <1>0, <1>6 DEF Limit
<1>7. CASE LoginFails
    BY <1>0, <1>7 DEF LoginFails
<1>8. CASE Dial
    BY <1>0, <1>8 DEF Dial
<1>9. CASE RenewPromise
    BY <1>0, <1>9 DEF RenewPromise
<1>10. CASE GetFuture
    BY <1>0, <1>10 DEF GetFuture
<1>11. CASE Await
    BY <1>0, <1>11 DEF Await
<1>12. CASE GetResult
    BY <1>0, <1>12 DEF GetResult
<1>13. CASE ConnectReturned
    BY <1>0, <1>13 DEF ConnectReturned
<1>14. CASE LoopTest
    BY <1>0, <1>14 DEF LoopTest
<1>15. CASE Wait
    BY <1>0, <1>15 DEF Wait
<1>16. CASE Wake
    BY <1>0, <1>16 DEF Wake
<1>17. CASE PostRun
    BY <1>0, <1>17 DEF PostRun
<1>18. CASE Disconnect
    BY <1>0, <1>18 DEF Disconnect
<1>19. CASE Close
    BY <1>0, <1>19 DEF Close
<1>20. CASE FutureTest
    BY <1>0, <1>20 DEF FutureTest
<1>21. CASE SetConnected
    BY <1>0, <1>21 DEF SetConnected
<1>22. CASE ResetAndResubscribe
    BY <1>0, <1>22 DEF ResetAndResubscribe
<1>23. CASE Fulfil
    BY <1>23, <1>0 DEF Fulfil, SetValue
<1>24. CASE Reject
    BY <1>24, <1>0 DEF Reject, SetValue
<1>25. CASE NotifyLost
    BY <1>0, <1>25 DEF NotifyLost
<1>26. CASE SetError
    BY <1>0, <1>26 DEF SetError
<1>27. CASE Answer
    BY <1>27, <1>0 DEF Answer, Event
<1>28. CASE Lose
    BY <1>28, <1>0 DEF Lose, Event
<1>29. CASE Reconnect
    BY <1>0, <1>29 DEF Reconnect
<1>30. CASE Stop
    BY <1>0, <1>30 DEF Stop
<1>31. CASE StopNotify
    BY <1>0, <1>31 DEF StopNotify
<1>32. ASSUME NEW t \in Topics, Subscribe(t) PROVE TriesCounted'
    BY <1>0, <1>32 DEF Subscribe
<1>33. ASSUME NEW t \in Topics, SendSubscribe(t) PROVE TriesCounted'
    BY <1>0, <1>33 DEF SendSubscribe
<1>34. ASSUME NEW t \in Topics, Insert(t) PROVE TriesCounted'
    BY <1>0, <1>34 DEF Insert
<1>35. CASE UNCHANGED vars
    BY <1>0, <1>35 DEF vars
<1> QED
    BY <1>1, <1>2, <1>3, <1>4, <1>5, <1>6, <1>7, <1>8, <1>9, <1>10, <1>11, <1>12,
       <1>13, <1>14, <1>15, <1>16, <1>17, <1>18, <1>19, <1>20, <1>21, <1>22, <1>23, <1>24,
       <1>25, <1>26, <1>27, <1>28, <1>29, <1>30, <1>31, <1>32, <1>33, <1>34, <1>35
    DEF Next, Run, Connect, Callback

\* Nothing leads back to the beginning of the run.
LEMMA NotStartedStep ==
    ASSUME TypeOK, NotStarted, [Next]_vars
    PROVE  NotStarted'
<1> USE DEF Goto, GotoConnect, NGoto, shared, runner, network, history, NotStarted
<1>1. CASE PreRun
    BY <1>1 DEF PreRun
<1>2. CASE Backoff
    BY <1>2 DEF Backoff
<1>3. CASE Check
    BY <1>3 DEF Check
<1>4. CASE ReadTries
    BY <1>4 DEF ReadTries
<1>5. CASE Bump
    BY <1>5 DEF Bump
<1>6. CASE Limit
    BY <1>6 DEF Limit
<1>7. CASE LoginFails
    BY <1>7 DEF LoginFails
<1>8. CASE Dial
    BY <1>8 DEF Dial
<1>9. CASE RenewPromise
    BY <1>9 DEF RenewPromise
<1>10. CASE GetFuture
    BY <1>10 DEF GetFuture
<1>11. CASE Await
    BY <1>11 DEF Await
<1>12. CASE GetResult
    BY <1>12 DEF GetResult
<1>13. CASE ConnectReturned
    BY <1>13 DEF ConnectReturned
<1>14. CASE LoopTest
    BY <1>14 DEF LoopTest
<1>15. CASE Wait
    BY <1>15 DEF Wait
<1>16. CASE Wake
    BY <1>16 DEF Wake
<1>17. CASE PostRun
    BY <1>17 DEF PostRun
<1>18. CASE Disconnect
    BY <1>18 DEF Disconnect
<1>19. CASE Close
    BY <1>19 DEF Close
<1>20. CASE FutureTest
    BY <1>20 DEF FutureTest
<1>21. CASE SetConnected
    BY <1>21 DEF SetConnected
<1>22. CASE ResetAndResubscribe
    BY <1>22 DEF ResetAndResubscribe
<1>23. CASE Fulfil
    BY <1>23 DEF Fulfil, SetValue
<1>24. CASE Reject
    BY <1>24 DEF Reject, SetValue
<1>25. CASE NotifyLost
    BY <1>25 DEF NotifyLost
<1>26. CASE SetError
    BY <1>26 DEF SetError
<1>27. CASE Answer
    BY <1>27 DEF Answer, Event
<1>28. CASE Lose
    BY <1>28 DEF Lose, Event
<1>29. CASE Reconnect
    BY <1>29 DEF Reconnect
<1>30. CASE Stop
    BY <1>30 DEF Stop
<1>31. CASE StopNotify
    BY <1>31 DEF StopNotify
<1>32. ASSUME NEW t \in Topics, Subscribe(t) PROVE NotStarted'
    BY <1>32 DEF Subscribe
<1>33. ASSUME NEW t \in Topics, SendSubscribe(t) PROVE NotStarted'
    BY <1>33 DEF SendSubscribe
<1>34. ASSUME NEW t \in Topics, Insert(t) PROVE NotStarted'
    BY <1>34 DEF Insert
<1>35. CASE UNCHANGED vars
    BY <1>35 DEF vars
<1> QED
    BY <1>1, <1>2, <1>3, <1>4, <1>5, <1>6, <1>7, <1>8, <1>9, <1>10, <1>11, <1>12,
       <1>13, <1>14, <1>15, <1>16, <1>17, <1>18, <1>19, <1>20, <1>21, <1>22, <1>23, <1>24,
       <1>25, <1>26, <1>27, <1>28, <1>29, <1>30, <1>31, <1>32, <1>33, <1>34, <1>35
    DEF Next, Run, Connect, Callback

\* Each step keeps what holds of a session.
LEMMA SessionStep ==
    ASSUME TypeOK, NotStarted, Session, [Next]_vars
    PROVE  Session'
<1>0. overtaken \in BOOLEAN
    BY DEF TypeOK
<1> USE DEF Goto, GotoConnect, NGoto, shared, runner, network, history, NotStarted, Session
<1>1. CASE PreRun
    BY <1>0, <1>1 DEF PreRun
<1>2. CASE Backoff
    BY <1>0, <1>2 DEF Backoff
<1>3. CASE Check
    BY <1>0, <1>3 DEF Check
<1>4. CASE ReadTries
    BY <1>0, <1>4 DEF ReadTries
<1>5. CASE Bump
    BY <1>0, <1>5 DEF Bump
<1>6. CASE Limit
    BY <1>0, <1>6 DEF Limit
<1>7. CASE LoginFails
    BY <1>0, <1>7 DEF LoginFails
<1>8. CASE Dial
    BY <1>0, <1>8 DEF Dial
<1>9. CASE RenewPromise
    BY <1>0, <1>9 DEF RenewPromise
<1>10. CASE GetFuture
    BY <1>0, <1>10 DEF GetFuture
<1>11. CASE Await
    BY <1>0, <1>11 DEF Await
<1>12. CASE GetResult
    BY <1>0, <1>12 DEF GetResult
<1>13. CASE ConnectReturned
    BY <1>0, <1>13 DEF ConnectReturned
<1>14. CASE LoopTest
    BY <1>0, <1>14 DEF LoopTest
<1>15. CASE Wait
    BY <1>0, <1>15 DEF Wait
<1>16. CASE Wake
    BY <1>0, <1>16 DEF Wake
<1>17. CASE PostRun
    BY <1>0, <1>17 DEF PostRun
<1>18. CASE Disconnect
    BY <1>0, <1>18 DEF Disconnect
<1>19. CASE Close
    BY <1>0, <1>19 DEF Close
<1>20. CASE FutureTest
    BY <1>0, <1>20 DEF FutureTest
<1>21. CASE SetConnected
    BY <1>0, <1>21 DEF SetConnected
<1>22. CASE ResetAndResubscribe
    BY <1>0, <1>22 DEF ResetAndResubscribe
<1>23. CASE Fulfil
    BY <1>23, <1>0 DEF Fulfil, SetValue
<1>24. CASE Reject
    BY <1>24, <1>0 DEF Reject, SetValue
<1>25. CASE NotifyLost
    BY <1>0, <1>25 DEF NotifyLost
<1>26. CASE SetError
    BY <1>0, <1>26 DEF SetError
<1>27. CASE Answer
    BY <1>27, <1>0 DEF Answer, Event
<1>28. CASE Lose
    BY <1>28, <1>0 DEF Lose, Event
<1>29. CASE Reconnect
    BY <1>0, <1>29 DEF Reconnect
<1>30. CASE Stop
    BY <1>0, <1>30 DEF Stop
<1>31. CASE StopNotify
    BY <1>0, <1>31 DEF StopNotify
<1>32. ASSUME NEW t \in Topics, Subscribe(t) PROVE Session'
    BY <1>0, <1>32 DEF Subscribe
<1>33. ASSUME NEW t \in Topics, SendSubscribe(t) PROVE Session'
    BY <1>0, <1>33 DEF SendSubscribe
<1>34. ASSUME NEW t \in Topics, Insert(t) PROVE Session'
    BY <1>0, <1>34 DEF Insert
<1>35. CASE UNCHANGED vars
    BY <1>0, <1>35 DEF vars
<1> QED
    BY <1>1, <1>2, <1>3, <1>4, <1>5, <1>6, <1>7, <1>8, <1>9, <1>10, <1>11, <1>12,
       <1>13, <1>14, <1>15, <1>16, <1>17, <1>18, <1>19, <1>20, <1>21, <1>22, <1>23, <1>24,
       <1>25, <1>26, <1>27, <1>28, <1>29, <1>30, <1>31, <1>32, <1>33, <1>34, <1>35
    DEF Next, Run, Connect, Callback

\* The inductive invariant: the tries are counted, and every step of an answer
\* and of its callback keeps the session.
THEOREM Invariance == Spec => []Inv
<1>1. Init => Inv
  <2> SUFFICES ASSUME Init PROVE Inv
    OBVIOUS
  <2>1. TypeOK
    BY DEF Init, TypeOK, RunnerPc, Connecting, NetworkPc, Status
  <2>2. TriesCounted /\ NotStarted /\ Session
    BY DEF Init, TriesCounted, NotStarted, Session
  <2> QED
    BY <2>1, <2>2 DEF Inv
<1>2. Inv /\ [Next]_vars => Inv'
    BY TypeStep, TriesCountedStep, NotStartedStep, SessionStep DEF Inv
<1> QED
    BY <1>1, <1>2, PTL DEF Spec

\* Every variable keeps its type.
THEOREM Typing == Spec => []TypeOK
<1>1. Inv => TypeOK
    BY DEF Inv
<1> QED
    BY <1>1, Invariance, PTL

\* The runner attempts at most max_retries connections between two successes,
\* whenever the library's thread resets m_tries.
THEOREM RetriesAreBounded == Spec => []RetryBounded
<1>1. Inv => RetryBounded
    BY BoundsAssumption DEF Inv, TypeOK, TriesCounted, RetryBounded
<1> QED
    BY <1>1, Invariance, PTL

\* A link reported as Connected is connected and its topics are subscribed,
\* after any number of losses, but for the two races of its definition.
THEOREM ConnectedLinkIsServed == Spec => []ConnectedIsServed
<1>1. Inv => ConnectedIsServed
    BY DEF Inv, Session, ConnectedIsServed
<1> QED
    BY <1>1, Invariance, PTL
===============================================================================
