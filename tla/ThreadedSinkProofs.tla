-------------------------- MODULE ThreadedSinkProofs --------------------------
(***************************************************************************)
(* Theorems about ThreadedSink, for any tree of sinks, any batch and any   *)
(* number of items.                                                        *)
(***************************************************************************)
EXTENDS ThreadedSink, SequenceTheorems, TLAPS

\* Why a thread that is about to take an item finds one: who notified it put
\* one there, or set m_quit before.
WhyAwake ==
    \A s \in Sinks :
        /\ stopper[s] \in {"notify", "done"} => m_quit[s]
        /\ m_items[s] = <<>> =>
            /\ pc[s] = "notified" => m_quit[s]
            /\ pc[s] = "quit" => m_quit[s] \/ spurious[s]
            /\ pc[s] = "pop" => spurious[s]
        /\ pc[s] = "undefined" => spurious[s]

\* How many items a sink has handled since stop() began, at each point of
\* the step it was in.
Since(s) == Len(handled[s]) - atStop[s]
BatchLeft ==
    \A s \in Sinks :
        /\ pc[s] \in {"pop", "process", "forward"} => n[s] < Batch
        /\ ~m_run[s] =>
            /\ pc[s] \in {"check", "arm", "waiting", "notified", "quit"} => Since(s) <= 0
            /\ pc[s] \in {"pop", "process"} => Since(s) <= n[s]
            /\ pc[s] = "forward" => Since(s) <= n[s] + 1
            /\ Since(s) <= Batch

\* A collection in the middle of its sinks has the last of them left.
IsRest(q, all) ==
    /\ Len(q) <= Len(all)
    /\ \A i \in 1..Len(q) : q[i] = all[Len(all) - Len(q) + i]

Handing ==
    \A s \in Sinks :
        /\ todo[s] # <<>> => pc[s] = "forward"
        /\ IsRest(todo[s], Targets[s])

\* The items s took out of its queue, the items it ever got into it, and the
\* items it gave to the i-th of its sinks.
Popped(s) == IF pc[s] = "process" THEN Len(handled[s]) + 1 ELSE Len(handled[s])
Received(s) == Popped(s) + Len(m_items[s])
Given(s, i) ==
    IF i > Len(Targets[s]) - Len(todo[s]) THEN Len(handled[s]) - 1 ELSE Len(handled[s])

\* A queue holds the items after the k-th, in their order.
Follows(q, k) == \A i \in 1..Len(q) : q[i] = k + i

\* Where the accepted items are: in the queues, each after those taken out
\* of it, and each sink got what the collection before it gave.
InFlight ==
    /\ Received(Root) = accepted
    /\ \A s \in Sinks :
        /\ Received(s) <= accepted
        /\ pc[s] \in {"process", "forward"} => item[s] = Popped(s)
        /\ Follows(m_items[s], Popped(s))
        /\ \A i \in 1..Len(Targets[s]) : Received(Targets[s][i]) = Given(s, i)

Inv == TypeOK /\ WhyAwake /\ BatchLeft /\ Handing /\ InFlight

-------------------------------------------------------------------------------
\* The head and the tail of a queue that is not empty.
LEMMA FrontOfQueue ==
    ASSUME NEW S, NEW q \in Seq(S), q # <<>>
    PROVE  /\ Head(q) \in S /\ Tail(q) \in Seq(S)
           /\ Len(q) > 0 /\ Head(q) = q[1] /\ Len(Tail(q)) = Len(q) - 1
           /\ \A i \in 1..Len(q) - 1 : Tail(q)[i] = q[i + 1]
    OBVIOUS

\* What an item added to the queue of s changes among queues.
LEMMA Enqueued ==
    ASSUME NEW f \in [Sinks -> Seq(Nat)], NEW s \in Sinks, NEW x \in Nat,
           NEW g, g = [f EXCEPT ![s] = Append(@, x)]
    PROVE  /\ g \in [Sinks -> Seq(Nat)]
           /\ \A t \in Sinks \ {s} : g[t] = f[t]
           /\ g[s] # <<>> /\ Len(g[s]) = Len(f[s]) + 1 /\ g[s][Len(f[s]) + 1] = x
           /\ \A i \in 1..Len(f[s]) : g[s][i] = f[s][i]
<1>1. g[s] = Append(f[s], x) /\ f[s] \in Seq(Nat)
    OBVIOUS
<1>2. /\ g \in [Sinks -> Seq(Nat)]
      /\ \A t \in Sinks \ {s} : g[t] = f[t]
    BY <1>1, AppendProperties
<1> QED
    BY <1>1, <1>2, AppendProperties

\* Every step keeps the types.
LEMMA TypeStep ==
    ASSUME TypeOK, [Next]_vars
    PROVE  TypeOK'
<1>0. Root \in Sinks /\ Targets \in [Sinks -> Seq(Sinks)]
    BY TreeAssumption
<1> USE DEF TypeOK, StepPc, Goto, Notified, InternalGet, history
<1>1. CASE Put
    BY <1>0, <1>1 DEF Put
<1>2. ASSUME NEW s \in Sinks, LoopTest(s) PROVE TypeOK'
    BY <1>2 DEF LoopTest
<1>3. ASSUME NEW s \in Sinks, CheckEmpty(s) PROVE TypeOK'
    BY <1>3 DEF CheckEmpty
<1>4. ASSUME NEW s \in Sinks, BeginWait(s) PROVE TypeOK'
    BY <1>4 DEF BeginWait
<1>5. ASSUME NEW s \in Sinks, Timeout(s) PROVE TypeOK'
    BY <1>5 DEF Timeout
<1>6. ASSUME NEW s \in Sinks, Wake(s) PROVE TypeOK'
    BY <1>6 DEF Wake
<1>7. ASSUME NEW s \in Sinks, WakeSpuriously(s) PROVE TypeOK'
    BY <1>7 DEF WakeSpuriously
<1>8. ASSUME NEW s \in Sinks, QuitTest(s) PROVE TypeOK'
    BY <1>8 DEF QuitTest
<1>9. ASSUME NEW s \in Sinks, Pop(s) PROVE TypeOK'
  <2>1. CASE m_items[s] = <<>>
    BY <1>9, <2>1 DEF Pop
  <2>2. CASE m_items[s] # <<>>
    <3>1. Head(m_items[s]) \in Nat /\ Tail(m_items[s]) \in Seq(Nat)
      BY <2>2, FrontOfQueue
    <3>2. /\ item' = [item EXCEPT ![s] = Head(m_items[s])]
          /\ m_items' = [m_items EXCEPT ![s] = Tail(m_items[s])]
      BY <1>9, <2>2 DEF Pop
    <3>3. /\ pc' = [pc EXCEPT ![s] = "process"]
          /\ spurious' = [spurious EXCEPT ![s] = FALSE]
          /\ UNCHANGED <<m_run, m_quit, n, todo, stopper, accepted, handled, atStop>>
      BY <1>9, <2>2 DEF Pop
    <3> QED
      BY <3>1, <3>2, <3>3
  <2> QED
    BY <2>1, <2>2
<1>10. ASSUME NEW s \in Sinks, Process(s) PROVE TypeOK'
  <2>1. Append(handled[s], item[s]) \in Seq(Nat) /\ Targets[s] \in Seq(Sinks)
    BY <1>0
  <2>2. /\ handled' = [handled EXCEPT ![s] = Append(@, item[s])]
        /\ todo' = [todo EXCEPT ![s] = Targets[s]]
        /\ pc' = [pc EXCEPT ![s] = "forward"]
        /\ UNCHANGED <<m_items, m_run, m_quit, item, n, stopper, accepted, atStop, spurious>>
    BY <1>10 DEF Process
  <2> QED
    BY <2>1, <2>2
<1>11. ASSUME NEW s \in Sinks, Forward(s) PROVE TypeOK'
  <2> DEFINE t == Head(todo[s])
  <2>1. t \in Sinks /\ Tail(todo[s]) \in Seq(Sinks)
    BY <1>11, FrontOfQueue DEF Forward
  <2>2. /\ m_items' = [m_items EXCEPT ![t] = Append(@, item[s])]
        /\ todo' = [todo EXCEPT ![s] = Tail(@)]
        /\ pc' = Notified(pc, t)
        /\ UNCHANGED <<m_run, m_quit, item, n, stopper, accepted, history>>
    BY <1>11 DEF Forward
  <2>3. Append(m_items[t], item[s]) \in Seq(Nat)
    BY <2>1
  <2> HIDE DEF t
  <2>4. m_items' \in [Sinks -> Seq(Nat)] /\ todo' \in [Sinks -> Seq(Sinks)]
    BY <2>1, <2>2, <2>3
  <2> QED
    BY <2>1, <2>2, <2>4
<1>12. ASSUME NEW s \in Sinks, NextItem(s) PROVE TypeOK'
  <2>1. pc' \in [Sinks -> StepPc \cup {"loop", "over", "undefined"}]
    BY <1>12 DEF NextItem
  <2>2. n' \in [Sinks -> Nat] /\ item' \in [Sinks -> Nat]
    BY <1>12 DEF NextItem
  <2> QED
    BY <1>12, <2>1, <2>2 DEF NextItem
<1>13. ASSUME NEW s \in Sinks, Tick(s) PROVE TypeOK'
    BY <1>13 DEF Tick
<1>14. ASSUME NEW s \in Sinks, ProcessFails(s) PROVE TypeOK'
    BY <1>14 DEF ProcessFails
<1>15. ASSUME NEW s \in Sinks, StopRun(s) PROVE TypeOK'
    BY <1>15 DEF StopRun
<1>16. ASSUME NEW s \in Sinks, StopQuit(s) PROVE TypeOK'
    BY <1>16 DEF StopQuit
<1>17. ASSUME NEW s \in Sinks, StopNotify(s) PROVE TypeOK'
  <2>1. pc' \in [Sinks -> StepPc \cup {"loop", "over", "undefined"}]
    BY <1>17 DEF StopNotify
  <2> QED
    BY <1>17, <2>1 DEF StopNotify
<1>18. CASE UNCHANGED vars
    BY <1>18 DEF vars
<1> QED
    BY <1>1, <1>2, <1>3, <1>4, <1>5, <1>6, <1>7, <1>8, <1>9, <1>10, <1>11, <1>12,
       <1>13, <1>14, <1>15, <1>16, <1>17, <1>18
    DEF Next, Proceed, Stop

\* The empty queues and the threads at the head of their loops have their types.
LEMMA TypeInit == Init => TypeOK
    BY DEF Init, TypeOK, StepPc

\* Type correctness: the queues hold numbers of items, whatever is put,
\* stopped or failed.
THEOREM Typing == Spec => []TypeOK
    BY TypeInit, TypeStep, PTL DEF Spec

-------------------------------------------------------------------------------
\* Every step keeps the reason for which a thread is awake.
LEMMA WhyAwakeStep ==
    ASSUME TypeOK, WhyAwake, [Next]_vars
    PROVE  WhyAwake'
<1>0. /\ DOMAIN pc = Sinks /\ DOMAIN m_items = Sinks /\ m_items \in [Sinks -> Seq(Nat)]
      /\ pc \in [Sinks -> StepPc \cup {"loop", "over", "undefined"}]
      /\ m_quit \in [Sinks -> BOOLEAN] /\ spurious \in [Sinks -> BOOLEAN]
      /\ stopper \in [Sinks -> {"none", "quit", "notify", "done"}]
      /\ Root \in Sinks
    BY TreeAssumption DEF TypeOK
<1> USE DEF WhyAwake, Goto, Notified, InternalGet, history
<1>1. CASE Put
  <2>1. /\ m_items' = [m_items EXCEPT ![Root] = Append(@, accepted + 1)]
        /\ pc' = Notified(pc, Root)
        /\ UNCHANGED <<m_quit, stopper, spurious>>
        /\ accepted + 1 \in Nat
    BY <1>1 DEF Put, TypeOK
  <2>2. m_items'[Root] # <<>> /\ \A s \in Sinks \ {Root} : m_items'[s] = m_items[s]
    BY <1>0, <2>1, Enqueued
  <2>3. \A s \in Sinks : pc'[s] = pc[s] \/ s = Root
    BY <1>0, <2>1
  <2>4. pc[Root] = "undefined" \/ pc'[Root] # "undefined"
    BY <1>0, <2>1
  <2> QED
    BY <2>1, <2>2, <2>3, <2>4
<1>2. ASSUME NEW s \in Sinks, LoopTest(s) PROVE WhyAwake'
    BY <1>0, <1>2 DEF LoopTest
<1>3. ASSUME NEW s \in Sinks, CheckEmpty(s) PROVE WhyAwake'
    BY <1>0, <1>3 DEF CheckEmpty
<1>4. ASSUME NEW s \in Sinks, BeginWait(s) PROVE WhyAwake'
    BY <1>0, <1>4 DEF BeginWait
<1>5. ASSUME NEW s \in Sinks, Timeout(s) PROVE WhyAwake'
    BY <1>0, <1>5 DEF Timeout
<1>6. ASSUME NEW s \in Sinks, Wake(s) PROVE WhyAwake'
    BY <1>0, <1>6 DEF Wake
<1>7. ASSUME NEW s \in Sinks, WakeSpuriously(s) PROVE WhyAwake'
    BY <1>0, <1>7 DEF WakeSpuriously
<1>8. ASSUME NEW s \in Sinks, QuitTest(s) PROVE WhyAwake'
    BY <1>0, <1>8 DEF QuitTest
<1>9. ASSUME NEW s \in Sinks, Pop(s) PROVE WhyAwake'
    BY <1>0, <1>9 DEF Pop
<1>10. ASSUME NEW s \in Sinks, Process(s) PROVE WhyAwake'
    BY <1>0, <1>10 DEF Process
<1>11. ASSUME NEW s \in Sinks, Forward(s) PROVE WhyAwake'
  <2> DEFINE t == Head(todo[s])
  <2>1. /\ m_items' = [m_items EXCEPT ![t] = Append(@, item[s])]
        /\ pc' = Notified(pc, t)
        /\ UNCHANGED <<m_quit, stopper, spurious>>
        /\ t \in Sinks /\ item[s] \in Nat
    BY <1>11, FrontOfQueue DEF Forward, TypeOK
  <2> HIDE DEF t
  <2>2. m_items'[t] # <<>> /\ \A r \in Sinks \ {t} : m_items'[r] = m_items[r]
    <3>1. /\ m_items \in [Sinks -> Seq(Nat)] /\ t \in Sinks /\ item[s] \in Nat
          /\ m_items' = [m_items EXCEPT ![t] = Append(@, item[s])]
      BY <1>0, <2>1 DEF TypeOK
    <3> QED
      BY <3>1, Enqueued
  <2>3. \A r \in Sinks : pc'[r] = pc[r] \/ r = t
    BY <1>0, <2>1
  <2>4. pc[t] = "undefined" \/ pc'[t] # "undefined"
    BY <1>0, <2>1
  <2> QED
    BY <2>1, <2>2, <2>3, <2>4
<1>12. ASSUME NEW s \in Sinks, NextItem(s) PROVE WhyAwake'
    BY <1>0, <1>12 DEF NextItem
<1>13. ASSUME NEW s \in Sinks, Tick(s) PROVE WhyAwake'
    BY <1>0, <1>13 DEF Tick
<1>14. ASSUME NEW s \in Sinks, ProcessFails(s) PROVE WhyAwake'
    BY <1>0, <1>14 DEF ProcessFails
<1>15. ASSUME NEW s \in Sinks, StopRun(s) PROVE WhyAwake'
    BY <1>0, <1>15 DEF StopRun
<1>16. ASSUME NEW s \in Sinks, StopQuit(s) PROVE WhyAwake'
    BY <1>0, <1>16 DEF StopQuit
<1>17. ASSUME NEW s \in Sinks, StopNotify(s) PROVE WhyAwake'
    BY <1>0, <1>17 DEF StopNotify
<1>18. CASE UNCHANGED vars
    BY <1>18 DEF vars
<1> QED
    BY <1>1, <1>2, <1>3, <1>4, <1>5, <1>6, <1>7, <1>8, <1>9, <1>10, <1>11, <1>12,
       <1>13, <1>14, <1>15, <1>16, <1>17, <1>18
    DEF Next, Proceed, Stop

\* Every step keeps the count of the batch.
LEMMA BatchLeftStep ==
    ASSUME TypeOK, BatchLeft, [Next]_vars
    PROVE  BatchLeft'
<1>0. /\ pc \in [Sinks -> StepPc \cup {"loop", "over", "undefined"}]
      /\ m_run \in [Sinks -> BOOLEAN]
      /\ n \in [Sinks -> Nat] /\ atStop \in [Sinks -> Nat]
      /\ \A s \in Sinks : Len(handled[s]) \in Nat
      /\ Batch \in Nat \ {0} /\ Root \in Sinks
    BY TreeAssumption, BoundsAssumption DEF TypeOK
<1> USE DEF BatchLeft, Since, Goto, Notified, InternalGet, history
<1>1. CASE Put
    BY <1>0, <1>1 DEF Put
<1>2. ASSUME NEW s \in Sinks, LoopTest(s) PROVE BatchLeft'
    BY <1>0, <1>2 DEF LoopTest
<1>3. ASSUME NEW s \in Sinks, CheckEmpty(s) PROVE BatchLeft'
    BY <1>0, <1>3 DEF CheckEmpty
<1>4. ASSUME NEW s \in Sinks, BeginWait(s) PROVE BatchLeft'
    BY <1>0, <1>4 DEF BeginWait
<1>5. ASSUME NEW s \in Sinks, Timeout(s) PROVE BatchLeft'
    BY <1>0, <1>5 DEF Timeout
<1>6. ASSUME NEW s \in Sinks, Wake(s) PROVE BatchLeft'
    BY <1>0, <1>6 DEF Wake
<1>7. ASSUME NEW s \in Sinks, WakeSpuriously(s) PROVE BatchLeft'
    BY <1>0, <1>7 DEF WakeSpuriously
<1>8. ASSUME NEW s \in Sinks, QuitTest(s) PROVE BatchLeft'
    BY <1>0, <1>8 DEF QuitTest
<1>9. ASSUME NEW s \in Sinks, Pop(s) PROVE BatchLeft'
    BY <1>0, <1>9 DEF Pop
<1>10. ASSUME NEW s \in Sinks, Process(s) PROVE BatchLeft'
  <2>1. /\ Len(handled'[s]) = Len(handled[s]) + 1
        /\ \A t \in Sinks \ {s} : handled'[t] = handled[t]
    BY <1>10, Enqueued DEF Process, TypeOK
  <2> QED
    BY <1>0, <1>10, <2>1 DEF Process
<1>11. ASSUME NEW s \in Sinks, Forward(s) PROVE BatchLeft'
  <2> DEFINE t == Head(todo[s])
  <2>1. /\ pc' = Notified(pc, t)
        /\ UNCHANGED <<m_run, n, handled, atStop>>
        /\ t \in Sinks
    BY <1>11, FrontOfQueue DEF Forward, TypeOK
  <2> HIDE DEF t
  <2> QED
    BY <1>0, <2>1
<1>12. ASSUME NEW s \in Sinks, NextItem(s) PROVE BatchLeft'
  <2>1. /\ pc[s] = "forward" /\ n' = [n EXCEPT ![s] = @ + 1]
        /\ UNCHANGED <<m_run, handled, atStop>>
        /\ \/ pc' = [pc EXCEPT ![s] = "pop"] /\ n[s] + 1 < Batch
           \/ pc' = [pc EXCEPT ![s] = "tick"]
    BY <1>12 DEF NextItem
  <2> QED
    BY <1>0, <2>1
<1>13. ASSUME NEW s \in Sinks, Tick(s) PROVE BatchLeft'
    BY <1>0, <1>13 DEF Tick
<1>14. ASSUME NEW s \in Sinks, ProcessFails(s) PROVE BatchLeft'
    BY <1>0, <1>14 DEF ProcessFails
<1>15. ASSUME NEW s \in Sinks, StopRun(s) PROVE BatchLeft'
  <2>1. /\ UNCHANGED <<pc, n, handled>>
        /\ atStop'[s] = Len(handled[s])
        /\ \A t \in Sinks \ {s} : atStop'[t] = atStop[t] /\ m_run'[t] = m_run[t]
    BY <1>0, <1>15 DEF StopRun
  <2>2. Len(handled'[s]) - atStop'[s] = 0
    BY <1>0, <2>1
  <2> QED
    BY <1>0, <2>1, <2>2
<1>16. ASSUME NEW s \in Sinks, StopQuit(s) PROVE BatchLeft'
    BY <1>0, <1>16 DEF StopQuit
<1>17. ASSUME NEW s \in Sinks, StopNotify(s) PROVE BatchLeft'
    BY <1>0, <1>17 DEF StopNotify
<1>18. CASE UNCHANGED vars
    BY <1>18 DEF vars
<1> QED
    BY <1>1, <1>2, <1>3, <1>4, <1>5, <1>6, <1>7, <1>8, <1>9, <1>10, <1>11, <1>12,
       <1>13, <1>14, <1>15, <1>16, <1>17, <1>18
    DEF Next, Proceed, Stop

\* All sinks are left at first, and after each one those behind it.
LEMMA RestOfAll ==
    ASSUME NEW all \in Seq(Sinks)
    PROVE  IsRest(all, all) /\ IsRest(<<>>, all)
<1>1. Len(all) \in Nat /\ \A i \in 1..Len(all) : Len(all) - Len(all) + i = i
    OBVIOUS
<1> QED
    BY <1>1 DEF IsRest

\* The rest of a list of sinks, without its first, is the rest of that list.
LEMMA RestOfRest ==
    ASSUME NEW all \in Seq(Sinks), NEW q \in Seq(Sinks), q # <<>>, IsRest(q, all)
    PROVE  /\ IsRest(Tail(q), all)
           /\ Head(q) = all[Len(all) - Len(q) + 1]
           /\ Len(all) - Len(q) + 1 \in 1..Len(all)
<1>1. /\ Len(q) \in Nat \ {0} /\ Len(all) \in Nat /\ Len(Tail(q)) = Len(q) - 1
      /\ Head(q) = q[1]
      /\ \A i \in 1..Len(q) - 1 : Tail(q)[i] = q[i + 1]
    BY FrontOfQueue
<1>2. ASSUME NEW i \in 1..Len(Tail(q)) PROVE Tail(q)[i] = all[Len(all) - Len(Tail(q)) + i]
  <2>1. i \in 1..Len(q) - 1 /\ i + 1 \in 1..Len(q)
    BY <1>1
  <2>2. q[i + 1] = all[Len(all) - Len(q) + (i + 1)]
    BY <2>1 DEF IsRest
  <2>3. Len(all) - Len(q) + (i + 1) = Len(all) - Len(Tail(q)) + i
    BY <1>1, <2>1
  <2> QED
    BY <1>1, <2>1, <2>2, <2>3
<1>3. Len(q) <= Len(all)
    BY DEF IsRest
<1>4. 1 \in 1..Len(q)
    BY <1>1
<1>5. q[1] = all[Len(all) - Len(q) + 1]
    BY <1>4 DEF IsRest
<1> QED
    BY <1>1, <1>2, <1>3, <1>5 DEF IsRest

\* Every step keeps the sinks that a collection has left.
LEMMA HandingStep ==
    ASSUME TypeOK, Handing, [Next]_vars
    PROVE  Handing'
<1>0. /\ pc \in [Sinks -> StepPc \cup {"loop", "over", "undefined"}]
      /\ todo \in [Sinks -> Seq(Sinks)]
      /\ Targets \in [Sinks -> Seq(Sinks)] /\ Root \in Sinks
    BY TreeAssumption DEF TypeOK
<1> USE DEF Handing, Goto, Notified, InternalGet, history
<1>1. CASE Put
    BY <1>0, <1>1 DEF Put
<1>2. ASSUME NEW s \in Sinks, LoopTest(s) PROVE Handing'
    BY <1>0, <1>2 DEF LoopTest
<1>3. ASSUME NEW s \in Sinks, CheckEmpty(s) PROVE Handing'
    BY <1>0, <1>3 DEF CheckEmpty
<1>4. ASSUME NEW s \in Sinks, BeginWait(s) PROVE Handing'
    BY <1>0, <1>4 DEF BeginWait
<1>5. ASSUME NEW s \in Sinks, Timeout(s) PROVE Handing'
    BY <1>0, <1>5 DEF Timeout
<1>6. ASSUME NEW s \in Sinks, Wake(s) PROVE Handing'
    BY <1>0, <1>6 DEF Wake
<1>7. ASSUME NEW s \in Sinks, WakeSpuriously(s) PROVE Handing'
    BY <1>0, <1>7 DEF WakeSpuriously
<1>8. ASSUME NEW s \in Sinks, QuitTest(s) PROVE Handing'
    BY <1>0, <1>8 DEF QuitTest
<1>9. ASSUME NEW s \in Sinks, Pop(s) PROVE Handing'
    BY <1>0, <1>9 DEF Pop
<1>10. ASSUME NEW s \in Sinks, Process(s) PROVE Handing'
  <2>1. /\ pc' = [pc EXCEPT ![s] = "forward"]
        /\ todo' = [todo EXCEPT ![s] = Targets[s]]
    BY <1>10 DEF Process
  <2>2. IsRest(todo'[s], Targets[s])
    BY <1>0, <2>1, RestOfAll
  <2> QED
    BY <1>0, <2>1, <2>2
<1>11. ASSUME NEW s \in Sinks, Forward(s) PROVE Handing'
  <2> DEFINE t == Head(todo[s])
  <2>1. /\ pc' = Notified(pc, t) /\ pc[s] = "forward"
        /\ todo' = [todo EXCEPT ![s] = Tail(@)]
        /\ t \in Sinks /\ todo[s] # <<>>
    BY <1>11, FrontOfQueue DEF Forward, TypeOK
  <2> HIDE DEF t
  <2>2. /\ pc'[s] = "forward"
        /\ \A r \in Sinks : pc[r] = "forward" => pc'[r] = "forward"
    BY <1>0, <2>1
  <2>3. IsRest(todo'[s], Targets[s])
    BY <1>0, <2>1, RestOfRest
  <2>4. \A r \in Sinks \ {s} : todo'[r] = todo[r]
    BY <1>0, <2>1
  <2> QED
    BY <2>2, <2>3, <2>4
<1>12. ASSUME NEW s \in Sinks, NextItem(s) PROVE Handing'
    BY <1>0, <1>12 DEF NextItem
<1>13. ASSUME NEW s \in Sinks, Tick(s) PROVE Handing'
    BY <1>0, <1>13 DEF Tick
<1>14. ASSUME NEW s \in Sinks, ProcessFails(s) PROVE Handing'
    BY <1>0, <1>14 DEF ProcessFails
<1>15. ASSUME NEW s \in Sinks, StopRun(s) PROVE Handing'
    BY <1>0, <1>15 DEF StopRun
<1>16. ASSUME NEW s \in Sinks, StopQuit(s) PROVE Handing'
    BY <1>0, <1>16 DEF StopQuit
<1>17. ASSUME NEW s \in Sinks, StopNotify(s) PROVE Handing'
    BY <1>0, <1>17 DEF StopNotify
<1>18. CASE UNCHANGED vars
    BY <1>18 DEF vars
<1> QED
    BY <1>1, <1>2, <1>3, <1>4, <1>5, <1>6, <1>7, <1>8, <1>9, <1>10, <1>11, <1>12,
       <1>13, <1>14, <1>15, <1>16, <1>17, <1>18
    DEF Next, Proceed, Stop

\* An item more at the end of a queue, an item less at its front.
LEMMA FollowsAppend ==
    ASSUME NEW q \in Seq(Nat), NEW k \in Nat, Follows(q, k)
    PROVE  Follows(Append(q, k + Len(q) + 1), k)
<1>1. PICK l \in Nat : l = Len(q)
    OBVIOUS
<1>2. PICK g : g = Append(q, k + l + 1)
    OBVIOUS
<1>3. Len(g) = l + 1 /\ g[l + 1] = k + l + 1 /\ \A i \in 1..l : g[i] = q[i]
    BY <1>1, <1>2, AppendProperties
<1>4. \A i \in 1..l : q[i] = k + i
    BY <1>1 DEF Follows
<1>5. \A i \in 1..l + 1 : g[i] = k + i
    BY <1>1, <1>3, <1>4
<1> QED
    BY <1>1, <1>2, <1>3, <1>5 DEF Follows

\* What follows an item in a queue, without the first, follows the next item.
LEMMA FollowsTail ==
    ASSUME NEW q \in Seq(Nat), NEW k \in Nat, q # <<>>, Follows(q, k)
    PROVE  Head(q) = k + 1 /\ Follows(Tail(q), k + 1)
    BY FrontOfQueue DEF Follows

\* A step that moves no item keeps all items where they are.
LEMMA NothingMoves ==
    ASSUME TypeOK, InFlight,
           UNCHANGED <<m_items, handled, todo, accepted>>,
           \A s \in Sinks : pc'[s] = "process" <=> pc[s] = "process",
           \A s \in Sinks : pc'[s] \in {"process", "forward"} =>
               pc[s] \in {"process", "forward"} /\ item'[s] = item[s]
    PROVE  InFlight'
<1>1. \A s \in Sinks : Popped(s)' = Popped(s) /\ Received(s)' = Received(s)
    BY DEF Popped, Received
<1>2. \A s \in Sinks : \A i \in 1..Len(Targets[s]) : Given(s, i)' = Given(s, i)
    BY DEF Given
<1>3. Root \in Sinks /\ \A s \in Sinks : \A i \in 1..Len(Targets[s]) : Targets[s][i] \in Sinks
    BY TreeAssumption
<1> QED
    BY <1>1, <1>2, <1>3 DEF InFlight

\* An item put into the queue of t moves nothing else.
LEMMA ItemArrives ==
    ASSUME TypeOK, InFlight, NEW t \in Sinks,
           InternalGet(t, Received(t) + 1, pc), UNCHANGED <<handled, item>>
    PROVE  /\ Received(t)' = Received(t) + 1
           /\ \A s \in Sinks \ {t} : Received(s)' = Received(s)
           /\ \A s \in Sinks :
                /\ pc'[s] \in {"process", "forward"} => item'[s] = Popped(s)'
                /\ Follows(m_items'[s], Popped(s)')
<1>1. \A s \in Sinks : Popped(s) \in Nat /\ Len(m_items[s]) \in Nat
    BY DEF TypeOK, Popped
<1>2. /\ m_items' = [m_items EXCEPT ![t] = Append(@, Received(t) + 1)]
      /\ Received(t) = Popped(t) + Len(m_items[t])
      /\ Received(t) + 1 \in Nat
    BY <1>1 DEF InternalGet, Received
<1>3. /\ Len(m_items'[t]) = Len(m_items[t]) + 1
      /\ \A s \in Sinks \ {t} : m_items'[s] = m_items[s]
    BY <1>2, Enqueued DEF TypeOK
<1>4. \A s \in Sinks : pc'[s] = pc[s] \/ (pc[s] = "waiting" /\ pc'[s] = "notified")
    BY DEF InternalGet, Notified, TypeOK
<1>5. \A s \in Sinks : Popped(s)' = Popped(s)
    BY <1>4 DEF Popped
<1>6. Follows(m_items'[t], Popped(t)')
  <2>1. Follows(Append(m_items[t], Popped(t) + Len(m_items[t]) + 1), Popped(t))
    BY <1>1, FollowsAppend DEF TypeOK, InFlight
  <2>2. m_items'[t] = Append(m_items[t], Popped(t) + Len(m_items[t]) + 1)
    BY <1>2 DEF TypeOK
  <2> QED
    BY <1>5, <2>1, <2>2
<1>7. \A s \in Sinks \ {t} : Follows(m_items'[s], Popped(s)')
    BY <1>3, <1>5 DEF InFlight
<1>8. \A s \in Sinks : pc'[s] \in {"process", "forward"} => item'[s] = Popped(s)'
    BY <1>4, <1>5 DEF InFlight
<1>9. /\ Received(t)' = Received(t) + 1
      /\ \A s \in Sinks \ {t} : Received(s)' = Received(s)
    BY <1>1, <1>2, <1>3, <1>5 DEF Received
<1> QED
    BY <1>6, <1>7, <1>8, <1>9

\* A put adds to what the root received.
LEMMA PutKeepsInFlight ==
    ASSUME TypeOK, InFlight, Put
    PROVE  InFlight'
<1>1. Root \in Sinks /\ \A s \in Sinks : \A i \in 1..Len(Targets[s]) :
          Targets[s][i] \in Sinks \ {Root}
    BY TreeAssumption
<1>2. /\ InternalGet(Root, Received(Root) + 1, pc)
      /\ accepted' = accepted + 1 /\ accepted = Received(Root) /\ accepted \in Nat
      /\ UNCHANGED <<handled, item, todo>>
    BY DEF Put, InFlight, history, TypeOK
<1>3. /\ Received(Root)' = Received(Root) + 1
      /\ \A s \in Sinks \ {Root} : Received(s)' = Received(s)
      /\ \A s \in Sinks :
            /\ pc'[s] \in {"process", "forward"} => item'[s] = Popped(s)'
            /\ Follows(m_items'[s], Popped(s)')
    BY <1>1, <1>2, ItemArrives
<1>4. \A s \in Sinks : Received(s) \in Nat
    BY DEF Received, Popped, TypeOK
<1>5. \A s \in Sinks : Received(s)' <= accepted'
    BY <1>1, <1>2, <1>3, <1>4 DEF InFlight
<1>6. \A s \in Sinks : \A i \in 1..Len(Targets[s]) : Given(s, i)' = Given(s, i)
    BY <1>2 DEF Given
<1>7. \A s \in Sinks : \A i \in 1..Len(Targets[s]) : Received(Targets[s][i])' = Given(s, i)'
    BY <1>1, <1>3, <1>6 DEF InFlight
<1> QED
    BY <1>2, <1>3, <1>5, <1>7 DEF InFlight

\* How the counts are related.
LEMMA Counts ==
    ASSUME TypeOK, NEW s \in Sinks
    PROVE  /\ Len(handled[s]) \in Nat /\ Len(m_items[s]) \in Nat
           /\ Len(Targets[s]) \in Nat /\ Len(todo[s]) \in Nat
           /\ Popped(s) \in Nat /\ Received(s) \in Nat
           /\ Len(handled[s]) <= Received(s) /\ Popped(s) <= Received(s)
           /\ pc[s] = "process" => Popped(s) = Len(handled[s]) + 1
           /\ pc[s] # "process" => Popped(s) = Len(handled[s])
<1>1. /\ Len(handled[s]) \in Nat /\ Len(m_items[s]) \in Nat
      /\ Len(Targets[s]) \in Nat /\ Len(todo[s]) \in Nat
    BY TreeAssumption DEF TypeOK
<1>2. Popped(s) \in Nat /\ Len(handled[s]) <= Popped(s)
    BY <1>1 DEF Popped
<1>3. Received(s) \in Nat /\ Len(handled[s]) <= Received(s) /\ Popped(s) <= Received(s)
    BY <1>1, <1>2 DEF Received
<1> QED
    BY <1>1, <1>2, <1>3 DEF Popped

\* A collection gives its item to the first of the sinks left.
LEMMA ForwardGives ==
    ASSUME TypeOK, Handing, InFlight, NEW s \in Sinks, Forward(s)
    PROVE  \E k \in 1..Len(Targets[s]), t \in Sinks :
            /\ t = Targets[s][k] /\ t # Root
            /\ k = Len(Targets[s]) - Len(todo[s]) + 1
            /\ Len(todo'[s]) = Len(todo[s]) - 1
            /\ \A r \in Sinks \ {s} : todo'[r] = todo[r]
            /\ Received(t) + 1 = Len(handled[s])
            /\ InternalGet(t, Received(t) + 1, pc)
            /\ UNCHANGED <<handled, item, accepted>>
<1>0. /\ handled \in [Sinks -> Seq(Nat)] /\ m_items \in [Sinks -> Seq(Nat)]
      /\ todo \in [Sinks -> Seq(Sinks)] /\ Targets \in [Sinks -> Seq(Sinks)]
      /\ item \in [Sinks -> Nat] /\ accepted \in Nat
    BY TreeAssumption DEF TypeOK
<1>1. /\ todo[s] \in Seq(Sinks) /\ todo[s] # <<>> /\ pc[s] = "forward"
      /\ IsRest(todo[s], Targets[s])
    BY DEF Forward, Handing, TypeOK
<1>2. Targets[s] \in Seq(Sinks) /\ \A i \in 1..Len(Targets[s]) : Targets[s][i] \in Sinks \ {Root}
    BY TreeAssumption
<1>3. PICK k \in Int : k = Len(Targets[s]) - Len(todo[s]) + 1
  <2>1. Len(Targets[s]) - Len(todo[s]) + 1 \in Int
    BY <1>0
  <2> QED
    BY <2>1
<1>4. k \in 1..Len(Targets[s]) /\ Head(todo[s]) = Targets[s][k]
    BY <1>1, <1>2, <1>3, RestOfRest
<1>5. PICK t \in Sinks : t = Targets[s][k] /\ t # Root
    BY <1>2, <1>4
<1>6. Len(todo[s]) \in Nat \ {0} /\ Len(Tail(todo[s])) = Len(todo[s]) - 1
    BY <1>1, FrontOfQueue
<1>7. /\ todo' = [todo EXCEPT ![s] = Tail(@)] /\ todo \in [Sinks -> Seq(Sinks)]
      /\ InternalGet(t, item[s], pc) /\ UNCHANGED <<handled, item, accepted>>
    BY <1>4, <1>5 DEF Forward, history, TypeOK
<1>8. /\ Len(todo'[s]) = Len(todo[s]) - 1
      /\ \A r \in Sinks \ {s} : todo'[r] = todo[r]
    BY <1>6, <1>7
<1>9. /\ Received(t) \in Nat /\ Len(handled[s]) \in Nat
      /\ Len(Targets[s]) \in Nat
    BY <1>2 DEF Received, Popped, TypeOK
<1>10. item[s] = Len(handled[s])
  <2>1. Popped(s) = Len(handled[s])
    BY <1>1 DEF Popped
  <2>2. item[s] = Popped(s)
    BY <1>1 DEF InFlight
  <2> QED
    BY <1>0, <2>1, <2>2
<1>11. Received(t) = Given(s, k)
    BY <1>4, <1>5 DEF InFlight
<1>12. k > Len(Targets[s]) - Len(todo[s])
    BY <1>0, <1>3, <1>6, <1>9
<1>13. Received(t) + 1 = Len(handled[s])
    BY <1>9, <1>11, <1>12 DEF Given
<1>14. InternalGet(t, Received(t) + 1, pc)
    BY <1>7, <1>10, <1>13
<1> QED
    BY <1>3, <1>4, <1>5, <1>7, <1>8, <1>13, <1>14

\* Handing an item on to a sink keeps account of what is in flight.
LEMMA ForwardKeepsInFlight ==
    ASSUME TypeOK, Handing, InFlight, NEW s \in Sinks, Forward(s)
    PROVE  InFlight'
<1>0. /\ handled \in [Sinks -> Seq(Nat)] /\ m_items \in [Sinks -> Seq(Nat)]
      /\ todo \in [Sinks -> Seq(Sinks)] /\ Targets \in [Sinks -> Seq(Sinks)]
      /\ item \in [Sinks -> Nat] /\ accepted \in Nat
    BY TreeAssumption DEF TypeOK
<1>1. PICK k \in 1..Len(Targets[s]), t \in Sinks :
            /\ t = Targets[s][k] /\ t # Root
            /\ k = Len(Targets[s]) - Len(todo[s]) + 1
            /\ Len(todo'[s]) = Len(todo[s]) - 1
            /\ \A r \in Sinks \ {s} : todo'[r] = todo[r]
            /\ Received(t) + 1 = Len(handled[s])
            /\ InternalGet(t, Received(t) + 1, pc)
            /\ UNCHANGED <<handled, item, accepted>>
    BY ForwardGives
<1>2. /\ Received(t)' = Received(t) + 1
      /\ \A r \in Sinks \ {t} : Received(r)' = Received(r)
      /\ \A r \in Sinks :
            /\ pc'[r] \in {"process", "forward"} => item'[r] = Popped(r)'
            /\ Follows(m_items'[r], Popped(r)')
    BY <1>1, ItemArrives
<1>3. \A r \in Sinks : Targets[r] \in Seq(Sinks) /\ todo[r] \in Seq(Sinks) /\ handled[r] \in Seq(Nat)
    BY TreeAssumption DEF TypeOK
<1>4. \A r \in Sinks : /\ Received(r) \in Nat /\ Len(handled[r]) \in Nat
                       /\ Len(Targets[r]) \in Nat /\ Len(todo[r]) \in Nat
                       /\ Len(handled[r]) <= Received(r)
    BY Counts
<1>5. \A r \in Sinks : Received(r) <= accepted
    BY DEF InFlight
<1>6. \A r \in Sinks : Received(r)' <= accepted'
  <2>1. Received(t)' <= accepted
    BY <1>0, <1>1, <1>2, <1>4, <1>5
  <2> QED
    BY <1>1, <1>2, <1>5, <2>1
<1>7. Given(s, k)' = Len(handled[s])
    BY <1>0, <1>1, <1>4 DEF Given
<1>8. ASSUME NEW r \in Sinks, NEW i \in 1..Len(Targets[r]), ~(r = s /\ i = k)
      PROVE  Targets[r][i] \in Sinks \ {t} /\ Given(r, i)' = Given(r, i)
  <2>1. Targets[r][i] \in Sinks \ {t}
  <3>1. Targets[s][k] = t /\ k \in 1..Len(Targets[s])
    BY <1>1
  <3>2. Targets[r][i] = Targets[s][k] => r = s /\ i = k
    BY <3>1, TreeAssumption
  <3>3. Targets[r][i] \in Sinks
    BY <1>3
  <3> QED
    BY <1>8, <3>1, <3>2, <3>3
  <2>2. CASE r # s
    BY <1>1, <2>1, <2>2 DEF Given
  <2>3. CASE r = s
    <3>1. i > Len(Targets[r]) - Len(todo'[r]) <=> i > Len(Targets[r]) - Len(todo[r])
      <4>1. PICK l \in Nat, d \in Nat : l = Len(Targets[s]) /\ d = Len(todo[s])
        BY <1>4
      <4>2. k = l - d + 1 /\ i \in 1..l /\ i # k
        BY <1>1, <1>8, <2>3, <4>1
      <4>3. i > l - (d - 1) <=> i > l - d
        BY <4>2
      <4> QED
        BY <1>1, <2>3, <4>1, <4>3
    <3> QED
      BY <1>1, <2>1, <3>1 DEF Given
  <2> QED
    BY <2>2, <2>3
<1>9. ASSUME NEW r \in Sinks, NEW i \in 1..Len(Targets[r])
      PROVE  Received(Targets[r][i])' = Given(r, i)'
  <2>1. CASE r = s /\ i = k
    BY <1>1, <1>2, <1>7, <2>1
  <2>2. CASE ~(r = s /\ i = k)
    BY <1>2, <1>8, <2>2 DEF InFlight
  <2> QED
    BY <2>1, <2>2
<1>10. Received(Root)' = accepted'
    BY <1>1, <1>2, TreeAssumption DEF InFlight
<1> QED
    BY <1>2, <1>6, <1>9, <1>10 DEF InFlight

\* An item taken out is the next one, and a sink still received as many.
LEMMA PopKeepsInFlight ==
    ASSUME TypeOK, InFlight, NEW s \in Sinks, Pop(s)
    PROVE  InFlight'
<1>1. CASE m_items[s] = <<>>
  <2>1. /\ pc[s] = "pop" /\ pc' = [pc EXCEPT ![s] = "undefined"]
        /\ UNCHANGED <<m_items, handled, todo, accepted, item>>
    BY <1>1 DEF Pop, Goto
  <2> QED
    BY <2>1, NothingMoves DEF TypeOK
<1>2. CASE m_items[s] # <<>>
  <2> DEFINE q == m_items[s]
             q2 == Tail(q)
             x == Head(q)
  <2>1. /\ pc[s] = "pop" /\ pc' = [pc EXCEPT ![s] = "process"]
        /\ item' = [item EXCEPT ![s] = x] /\ m_items' = [m_items EXCEPT ![s] = q2]
        /\ UNCHANGED <<handled, todo, accepted>>
    BY <1>2 DEF Pop, Goto
  <2>2. /\ q \in Seq(Nat) /\ q # <<>> /\ Len(handled[s]) \in Nat
        /\ \A r \in Sinks : Len(m_items[r]) \in Nat
        /\ pc \in [Sinks -> StepPc \cup {"loop", "over", "undefined"}]
        /\ item \in [Sinks -> Nat] /\ m_items \in [Sinks -> Seq(Nat)]
        /\ handled \in [Sinks -> Seq(Nat)]
    BY <1>2 DEF TypeOK
  <2>3. Popped(s) = Len(handled[s]) /\ Follows(q, Len(handled[s]))
    BY <2>1, <2>2 DEF Popped, InFlight
  <2>4. x = Len(handled[s]) + 1 /\ Follows(q2, Len(handled[s]) + 1)
    BY <2>2, <2>3, FollowsTail
  <2>5. Len(q2) = Len(q) - 1
    BY <2>2, FrontOfQueue
  <2> HIDE DEF x, q2
  <2>6. /\ pc'[s] = "process" /\ item'[s] = x /\ m_items'[s] = q2
        /\ \A r \in Sinks \ {s} : pc'[r] = pc[r] /\ item'[r] = item[r] /\ m_items'[r] = m_items[r]
    BY <2>1, <2>2
  <2>7. /\ Popped(s)' = Len(handled[s]) + 1
        /\ \A r \in Sinks \ {s} : Popped(r)' = Popped(r)
    BY <2>1, <2>6 DEF Popped
  <2>8. \A r \in Sinks : Received(r)' = Received(r)
    <3>1. Received(s)' = Received(s)
      <4>1. PICK h \in Nat, l \in Nat : h = Len(handled[s]) /\ l = Len(q)
        BY <2>2
      <4>2. Popped(s)' = h + 1 /\ Len(m_items'[s]) = l - 1 /\ Popped(s) = h
        BY <2>3, <2>5, <2>6, <2>7, <4>1
      <4>3. Received(s)' = (h + 1) + (l - 1) /\ Received(s) = h + l
        BY <2>2, <4>1, <4>2 DEF Received
      <4> QED
        BY <4>3
    <3> QED
      BY <2>6, <2>7, <3>1 DEF Received
  <2>9. \A r \in Sinks : \A i \in 1..Len(Targets[r]) : Given(r, i)' = Given(r, i)
    BY <2>1 DEF Given
  <2>10. \A r \in Sinks :
            /\ pc'[r] \in {"process", "forward"} => item'[r] = Popped(r)'
            /\ Follows(m_items'[r], Popped(r)')
    BY <2>4, <2>6, <2>7 DEF InFlight
  <2>11. Root \in Sinks /\ \A r \in Sinks : \A i \in 1..Len(Targets[r]) : Targets[r][i] \in Sinks
    BY TreeAssumption
  <2> QED
    BY <2>1, <2>8, <2>9, <2>10, <2>11 DEF InFlight
<1> QED
    BY <1>1, <1>2

\* An item handed to process() counts as popped before and as handled after,
\* and no sink behind has got it yet.
LEMMA ProcessKeepsInFlight ==
    ASSUME TypeOK, Handing, InFlight, NEW s \in Sinks, Process(s)
    PROVE  InFlight'
<1>1. /\ pc[s] = "process" /\ pc' = [pc EXCEPT ![s] = "forward"]
      /\ handled' = [handled EXCEPT ![s] = Append(@, item[s])]
      /\ todo' = [todo EXCEPT ![s] = Targets[s]]
      /\ UNCHANGED <<m_items, item, accepted>>
    BY DEF Process, Goto
<1>2. /\ \A r \in Sinks : /\ Len(handled[r]) \in Nat /\ Len(m_items[r]) \in Nat
                          /\ handled[r] \in Seq(Nat) /\ item[r] \in Nat
      /\ pc \in [Sinks -> StepPc \cup {"loop", "over", "undefined"}]
      /\ handled \in [Sinks -> Seq(Nat)] /\ todo \in [Sinks -> Seq(Sinks)]
    BY DEF TypeOK
<1>3. Len(handled'[s]) = Len(handled[s]) + 1 /\ \A r \in Sinks \ {s} : handled'[r] = handled[r]
    BY <1>1, <1>2, Enqueued
<1>4. /\ pc'[s] = "forward" /\ todo'[s] = Targets[s]
      /\ \A r \in Sinks \ {s} : pc'[r] = pc[r] /\ todo'[r] = todo[r]
    BY <1>1, <1>2
<1>5. \A r \in Sinks : Popped(r)' = Popped(r)
    BY <1>1, <1>2, <1>3, <1>4 DEF Popped
<1>6. \A r \in Sinks : Received(r)' = Received(r)
    BY <1>1, <1>5 DEF Received
<1>7. Targets[s] \in Seq(Sinks)
    BY TreeAssumption
<1>8. todo[s] = <<>>
    BY <1>1 DEF Handing
<1>9. ASSUME NEW i \in 1..Len(Targets[s])
      PROVE  Given(s, i)' = Given(s, i)
  <2>1. i > Len(Targets[s]) - Len(todo'[s]) /\ ~(i > Len(Targets[s]) - Len(todo[s]))
    BY <1>4, <1>7, <1>8
  <2> QED
    BY <1>2, <1>3, <2>1 DEF Given
<1>10. \A r \in Sinks : \A i \in 1..Len(Targets[r]) : Given(r, i)' = Given(r, i)
    BY <1>3, <1>4, <1>9 DEF Given
<1>11. \A r \in Sinks :
            /\ pc'[r] \in {"process", "forward"} => item'[r] = Popped(r)'
            /\ Follows(m_items'[r], Popped(r)')
    BY <1>1, <1>4, <1>5 DEF InFlight
<1>12. Root \in Sinks /\ \A r \in Sinks : \A i \in 1..Len(Targets[r]) : Targets[r][i] \in Sinks
    BY TreeAssumption
<1> QED
    BY <1>1, <1>6, <1>10, <1>11, <1>12 DEF InFlight

\* Every step keeps the items where they belong.
LEMMA InFlightStep ==
    ASSUME TypeOK, Handing, InFlight, [Next]_vars
    PROVE  InFlight'
<1>0. pc \in [Sinks -> StepPc \cup {"loop", "over", "undefined"}]
    BY DEF TypeOK
<1>1. CASE Put
    BY <1>1, PutKeepsInFlight
<1>2. ASSUME NEW s \in Sinks, Forward(s) PROVE InFlight'
    BY <1>2, ForwardKeepsInFlight
<1>3. ASSUME NEW s \in Sinks, Pop(s) PROVE InFlight'
    BY <1>3, PopKeepsInFlight
<1>4. ASSUME NEW s \in Sinks, Process(s) PROVE InFlight'
    BY <1>4, ProcessKeepsInFlight
<1>5. ASSUME NEW s \in Sinks, NextItem(s) PROVE InFlight'
  <2>1. /\ UNCHANGED <<m_items, handled, todo, accepted>>
        /\ pc[s] = "forward" /\ (pc'[s] = "pop" \/ pc'[s] = "tick")
        /\ \A r \in Sinks \ {s} : pc'[r] = pc[r] /\ item'[r] = item[r]
    BY <1>0, <1>5 DEF NextItem, Goto, history, TypeOK
  <2> QED
    BY <2>1, NothingMoves
<1>6. ASSUME NEW s \in Sinks,
             LoopTest(s) \/ CheckEmpty(s) \/ BeginWait(s) \/ Timeout(s) \/ Wake(s)
             \/ WakeSpuriously(s) \/ QuitTest(s) \/ Tick(s) \/ ProcessFails(s) \/ Stop(s)
      PROVE  InFlight'
  <2>1. /\ UNCHANGED <<m_items, handled, todo, accepted, item>>
        /\ \A r \in Sinks : /\ pc'[r] = "process" <=> pc[r] = "process"
                            /\ pc'[r] = "forward" => pc[r] = "forward"
    BY <1>0, <1>6 DEF LoopTest, CheckEmpty, BeginWait, Timeout, Wake, WakeSpuriously,
        QuitTest, Tick, ProcessFails, Stop, StopRun, StopQuit, StopNotify, Goto, Notified, history
  <2> QED
    BY <2>1, NothingMoves
<1>7. CASE UNCHANGED vars
    BY <1>7, NothingMoves DEF vars, history
<1> QED
    BY <1>1, <1>2, <1>3, <1>4, <1>5, <1>6, <1>7 DEF Next, Proceed

\* At first every thread is at its loop and no item is anywhere.
LEMMA Initially ==
    ASSUME Init
    PROVE  Inv
<1>1. TypeOK
    BY TypeInit
<1>2. WhyAwake
    BY DEF Init, WhyAwake
<1>3. BatchLeft
    BY BoundsAssumption DEF Init, BatchLeft, Since
<1>4. Handing
  <2>1. \A s \in Sinks : todo[s] = <<>> /\ IsRest(<<>>, Targets[s])
    BY TreeAssumption, RestOfAll DEF Init
  <2> QED
    BY <2>1 DEF Handing
<1>5. InFlight
  <2>1. \A s \in Sinks : /\ handled[s] = <<>> /\ m_items[s] = <<>> /\ todo[s] = <<>>
                         /\ pc[s] = "loop"
    BY DEF Init
  <2>2. ASSUME NEW s \in Sinks PROVE Popped(s) = 0 /\ Received(s) = 0
    <3>1. Len(handled[s]) = 0 /\ Len(m_items[s]) = 0
      BY <2>1
    <3>2. Popped(s) = 0
      BY <2>1, <3>1 DEF Popped
    <3> QED
      BY <3>1, <3>2 DEF Received
  <2>3. ASSUME NEW s \in Sinks, NEW i \in 1..Len(Targets[s]) PROVE Given(s, i) = 0
    <3>1. Len(handled[s]) = 0 /\ Len(todo[s]) = 0
      BY <2>1
    <3>2. PICK l \in Nat : l = Len(Targets[s])
      BY TreeAssumption
    <3>3. ~(i > l - 0)
      BY <3>2
    <3> QED
      BY <3>1, <3>2, <3>3 DEF Given
  <2>4. \A s \in Sinks : Follows(m_items[s], Popped(s))
    BY <2>1 DEF Follows
  <2>5. accepted = 0 /\ Root \in Sinks
        /\ \A s \in Sinks : \A i \in 1..Len(Targets[s]) : Targets[s][i] \in Sinks
    BY TreeAssumption DEF Init
  <2> QED
    BY <2>1, <2>2, <2>3, <2>4, <2>5 DEF InFlight
<1> QED
    BY <1>1, <1>2, <1>3, <1>4, <1>5 DEF Inv

\* The inductive invariant: why each thread is awake, what is left of each
\* batch, what each collection has still to hand out, and where the items are.
THEOREM Invariance == Spec => []Inv
<1>1. Init => Inv
    BY Initially
<1>2. Inv /\ [Next]_vars => Inv'
    BY TypeStep, WhyAwakeStep, BatchLeftStep, HandingStep, InFlightStep DEF Inv
<1> QED
    BY <1>1, <1>2, PTL DEF Spec

\* step() takes an item from an empty queue only after a wake-up without a
\* cause, for any number of threads that put and stop.
THEOREM PopNeedsACause == Spec => []OnlySpuriousPop
<1>1. Inv => OnlySpuriousPop
    BY DEF Inv, WhyAwake, OnlySpuriousPop
<1> QED
    BY <1>1, Invariance, PTL

\* A sink told to stop handles at most one batch more.
THEOREM StopIsBounded == Spec => []BoundedAfterStop
<1>1. Inv => BoundedAfterStop
    BY DEF Inv, BatchLeft, Since, BoundedAfterStop
<1> QED
    BY <1>1, Invariance, PTL

\* The tree of sinks implements the numbered channels: every sink behind the
\* source handles the items once each and in the order of the puts.
THEOREM ImplementsChannels == Spec => ChannelSpec
<1> USE DEF Channels!vars
<1>1. Init => Channels!Init
    BY DEF Init, Channels!Init
<1>2. ASSUME Inv, [Next]_vars PROVE [Channels!Next]_<<accepted, handled>>
  <2>1. CASE Put
    BY <2>1 DEF Put, history, Channels!Next, Channels!Accept
  <2>2. ASSUME NEW s \in Sinks, Process(s) PROVE Channels!Take(s)
    <3>1. /\ TypeOK /\ Received(s) <= accepted
          /\ pc[s] = "process" /\ item[s] = Popped(s)
      BY <1>2, <2>2 DEF Inv, InFlight, Process, Goto
    <3>2. /\ Popped(s) = Len(handled[s]) + 1 /\ Popped(s) <= Received(s)
          /\ Popped(s) \in Nat /\ Received(s) \in Nat /\ Len(handled[s]) \in Nat
      BY <3>1, Counts
    <3>3. handled' = [handled EXCEPT ![s] = Append(@, item[s])] /\ UNCHANGED accepted
      BY <2>2 DEF Process
    <3>4. handled \in [Sinks -> Seq(Nat)] /\ accepted \in Nat
      BY <3>1 DEF TypeOK
    <3>5. Len(handled[s]) < accepted
      BY <3>1, <3>2, <3>4
    <3> QED
      BY <3>1, <3>2, <3>3, <3>4, <3>5 DEF Channels!Take
  <2>3. ASSUME NEW s \in Sinks, Proceed(s) \/ WakeSpuriously(s) \/ Stop(s), ~Process(s)
        PROVE  UNCHANGED <<accepted, handled>>
    BY <2>3 DEF Proceed, Stop, LoopTest, CheckEmpty, BeginWait, Timeout, Wake,
        WakeSpuriously, QuitTest, Pop, Forward, NextItem, Tick, ProcessFails,
        StopRun, StopQuit, StopNotify, history
  <2>4. CASE UNCHANGED vars
    BY <2>4 DEF vars, history
  <2> QED
    BY <1>2, <2>1, <2>2, <2>3, <2>4 DEF Next, Channels!Next
<1> QED
    BY <1>1, <1>2, Invariance, PTL DEF Spec, ChannelSpec, Channels!Spec
===============================================================================
