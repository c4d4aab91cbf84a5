----------------------------- MODULE ThreadedSink -----------------------------
(***************************************************************************)
(* muonpi::sink::threaded and sink::collection: a tree of sinks, each with *)
(* a queue filled by any thread through get() and a thread_runner whose    *)
(* step() empties it in batches.  A collection hands every item to its     *)
(* sinks; the others hand it to a process() of the user's, which may fail. *)
(*                                                                         *)
(* internal_get and the removal of an item hold m_mutex and are one step   *)
(* each.  The wait on m_condition uses another mutex, local to step(), so  *)
(* a notification that comes between the test of m_items and the wait      *)
(* reaches nobody.  The wait may end without a cause.                      *)
(***************************************************************************)
EXTENDS Integers, Sequences

CONSTANTS
    Sinks,      \* the sinks of the tree
    Root,       \* the sink the source puts into
    Targets,    \* the sinks of each collection, <<>> for a user's sink
    Batch,      \* items per step (10 in the code)
    MaxItems    \* bound: the items the source puts

\* A sink is behind the source or in one collection, once.
ASSUME TreeAssumption ==
    /\ Root \in Sinks
    /\ Targets \in [Sinks -> Seq(Sinks)]
    /\ \A s \in Sinks : \A i \in 1..Len(Targets[s]) :
        /\ Targets[s][i] # Root
        /\ \A t \in Sinks : \A j \in 1..Len(Targets[t]) :
            Targets[s][i] = Targets[t][j] => s = t /\ i = j

ASSUME BoundsAssumption == Batch \in Nat \ {0} /\ MaxItems \in Nat

VARIABLES
    m_items, m_run, m_quit,
    pc, item, n, todo,   \* the runner's thread of each sink, and its locals
    stopper,             \* how far a call of stop() on the sink is
    accepted,            \* items the root accepted: its last number
    handled,             \* history: the items process(item) was called with
    atStop,              \* history: how many they were when stop() began
    spurious             \* history: the last wake-up had no cause

history == <<handled, atStop, spurious>>
vars == <<m_items, m_run, m_quit, pc, item, n, todo, stopper, accepted, history>>

Leaf(s) == Targets[s] = <<>>

Init ==
    /\ m_items = [s \in Sinks |-> <<>>]
    /\ m_run = [s \in Sinks |-> TRUE]
    /\ m_quit = [s \in Sinks |-> FALSE]
    /\ pc = [s \in Sinks |-> "loop"]
    /\ item = [s \in Sinks |-> 0]
    /\ n = [s \in Sinks |-> 0]
    /\ todo = [s \in Sinks |-> <<>>]
    /\ stopper = [s \in Sinks |-> "none"]
    /\ accepted = 0
    /\ handled = [s \in Sinks |-> <<>>]
    /\ atStop = [s \in Sinks |-> 0]
    /\ spurious = [s \in Sinks |-> FALSE]

-------------------------------------------------------------------------------
Goto(s, from, to) == pc[s] = from /\ pc' = [pc EXCEPT ![s] = to]

\* A notification reaches the thread only while it is waiting.
Notified(p, s) == IF p[s] = "waiting" THEN [p EXCEPT ![s] = "notified"] ELSE p

\* internal_get(x) of sink s, in a step that otherwise leaves the pcs at p.
InternalGet(s, x, p) ==
    /\ m_items' = [m_items EXCEPT ![s] = Append(@, x)]
    /\ pc' = Notified(p, s)

\* source::base::put, by any thread.
Put ==
    /\ accepted < MaxItems
    /\ accepted' = accepted + 1
    /\ InternalGet(Root, accepted + 1, pc)
    /\ UNCHANGED <<m_run, m_quit, item, n, todo, stopper, history>>

\* while (m_run) of thread_runner::run.
LoopTest(s) ==
    /\ Goto(s, "loop", IF m_run[s] THEN "check" ELSE "over")
    /\ UNCHANGED <<m_items, m_run, m_quit, item, n, todo, stopper, accepted, history>>

\* Mutant: the wait does not look at m_items first.
CheckEmptySkipped(s) ==
    /\ Goto(s, "check", "arm")
    /\ UNCHANGED <<m_items, m_run, m_quit, item, n, todo, stopper, accepted, history>>

\* m_items.empty(), outside m_mutex.
CheckEmpty(s) ==
    /\ Goto(s, "check", IF m_items[s] = <<>> THEN "arm" ELSE "quit")
    /\ UNCHANGED <<m_items, m_run, m_quit, item, n, todo, stopper, accepted, history>>

BeginWait(s) ==
    /\ Goto(s, "arm", "waiting")
    /\ UNCHANGED <<m_items, m_run, m_quit, item, n, todo, stopper, accepted, history>>

\* Mutant: wait in the place of wait_for.
TimeoutMissing(s) ==
    /\ Goto(s, "notified", "tick")
    /\ UNCHANGED <<m_items, m_run, m_quit, item, n, todo, stopper, accepted, history>>

\* A thread that was notified too late also reports a timeout.
Timeout(s) ==
    /\ Goto(s, "waiting", "tick") \/ Goto(s, "notified", "tick")
    /\ UNCHANGED <<m_items, m_run, m_quit, item, n, todo, stopper, accepted, history>>

Wake(s) ==
    /\ Goto(s, "notified", "quit")
    /\ spurious' = [spurious EXCEPT ![s] = FALSE]
    /\ UNCHANGED <<m_items, m_run, m_quit, item, n, todo, stopper, accepted,
                   handled, atStop>>

WakeSpuriously(s) ==
    /\ Goto(s, "waiting", "quit")
    /\ spurious' = [spurious EXCEPT ![s] = TRUE]
    /\ UNCHANGED <<m_items, m_run, m_quit, item, n, todo, stopper, accepted,
                   handled, atStop>>

\* Mutant: m_quit is not tested.
QuitIgnored(s) ==
    /\ Goto(s, "quit", "pop")
    /\ n' = [n EXCEPT ![s] = 0]
    /\ UNCHANGED <<m_items, m_run, m_quit, item, todo, stopper, accepted, history>>

QuitTest(s) ==
    /\ Goto(s, "quit", IF m_quit[s] THEN "loop" ELSE "pop")
    /\ n' = [n EXCEPT ![s] = 0]
    /\ UNCHANGED <<m_items, m_run, m_quit, item, todo, stopper, accepted, history>>

\* Mutant: front() without pop().
PopForgotten(s) ==
    /\ Goto(s, "pop", IF m_items[s] = <<>> THEN "undefined" ELSE "process")
    /\ m_items[s] # <<>> => item' = [item EXCEPT ![s] = Head(m_items[s])]
    /\ m_items[s] = <<>> => UNCHANGED item
    /\ UNCHANGED <<m_items, m_run, m_quit, n, todo, stopper, accepted, history>>

\* front() and pop() of an empty queue are undefined: nothing is claimed of
\* the object from then on.
Pop(s) ==
    /\ Goto(s, "pop", IF m_items[s] = <<>> THEN "undefined" ELSE "process")
    /\ IF m_items[s] = <<>>
       THEN UNCHANGED <<item, m_items, spurious>>
       ELSE /\ item' = [item EXCEPT ![s] = Head(m_items[s])]
            /\ m_items' = [m_items EXCEPT ![s] = Tail(@)]
            /\ spurious' = [spurious EXCEPT ![s] = FALSE]
    /\ UNCHANGED <<m_run, m_quit, n, todo, stopper, accepted, handled, atStop>>

\* process(item) is called: a collection goes through its sinks.
Process(s) ==
    /\ Goto(s, "process", "forward")
    /\ handled' = [handled EXCEPT ![s] = Append(@, item[s])]
    /\ todo' = [todo EXCEPT ![s] = Targets[s]]
    /\ UNCHANGED <<m_items, m_run, m_quit, item, n, stopper, accepted, atStop, spurious>>

Forward(s) ==
    /\ pc[s] = "forward" /\ todo[s] # <<>>
    /\ InternalGet(Head(todo[s]), item[s], pc)
    /\ todo' = [todo EXCEPT ![s] = Tail(@)]
    /\ UNCHANGED <<m_run, m_quit, item, n, stopper, accepted, history>>

\* Mutant: the bound of the batch is off by one.
NextItemOffByOne(s) ==
    /\ todo[s] = <<>>
    /\ Goto(s, "forward", IF m_items[s] # <<>> /\ n[s] < Batch THEN "pop" ELSE "tick")
    /\ n' = [n EXCEPT ![s] = @ + 1]
    /\ item' = [item EXCEPT ![s] = 0]
    /\ UNCHANGED <<m_items, m_run, m_quit, todo, stopper, accepted, history>>

\* Mutant: n counts down, below zero.
NextItemCountsDown(s) ==
    /\ todo[s] = <<>>
    /\ Goto(s, "forward", IF m_items[s] # <<>> /\ n[s] + 1 < Batch THEN "pop" ELSE "tick")
    /\ n' = [n EXCEPT ![s] = @ - 1]
    /\ item' = [item EXCEPT ![s] = 0]
    /\ UNCHANGED <<m_items, m_run, m_quit, todo, stopper, accepted, history>>

\* The end of one turn of the batch.  When items are left the thread also
\* notifies m_condition, on which nobody but itself waits.
NextItem(s) ==
    /\ todo[s] = <<>>
    /\ Goto(s, "forward", IF m_items[s] # <<>> /\ n[s] + 1 < Batch THEN "pop" ELSE "tick")
    /\ n' = [n EXCEPT ![s] = @ + 1]
    /\ item' = [item EXCEPT ![s] = 0]
    /\ UNCHANGED <<m_items, m_run, m_quit, todo, stopper, accepted, history>>

\* process() without an item.
Tick(s) ==
    /\ Goto(s, "tick", "loop")
    /\ n' = [n EXCEPT ![s] = 0]
    /\ UNCHANGED <<m_items, m_run, m_quit, item, todo, stopper, accepted, history>>

\* A nonzero result of either process() of a user's sink ends its loop.
ProcessFails(s) ==
    /\ Leaf(s)
    /\ (pc[s] = "forward" /\ todo[s] = <<>>) \/ pc[s] = "tick"
    /\ pc' = [pc EXCEPT ![s] = "over"]
    /\ UNCHANGED <<m_items, m_run, m_quit, item, n, todo, stopper, accepted, history>>

-------------------------------------------------------------------------------
\* thread_runner::stop, one assignment at a time.
StopRun(s) ==
    /\ stopper[s] = "none" /\ stopper' = [stopper EXCEPT ![s] = "quit"]
    /\ m_run' = [m_run EXCEPT ![s] = FALSE]
    /\ atStop' = [atStop EXCEPT ![s] = Len(handled[s])]
    /\ UNCHANGED <<m_items, m_quit, pc, item, n, todo, accepted, handled, spurious>>

StopQuit(s) ==
    /\ stopper[s] = "quit" /\ stopper' = [stopper EXCEPT ![s] = "notify"]
    /\ m_quit' = [m_quit EXCEPT ![s] = TRUE]
    /\ UNCHANGED <<m_items, m_run, pc, item, n, todo, accepted, history>>

StopNotify(s) ==
    /\ stopper[s] = "notify" /\ stopper' = [stopper EXCEPT ![s] = "done"]
    /\ pc' = Notified(pc, s)
    /\ UNCHANGED <<m_items, m_run, m_quit, item, n, todo, accepted, history>>

-------------------------------------------------------------------------------
\* What the thread of a sink does without being woken for no cause.
Proceed(s) ==
    \/ LoopTest(s) \/ CheckEmpty(s) \/ BeginWait(s) \/ Timeout(s) \/ Wake(s)
    \/ QuitTest(s) \/ Pop(s) \/ Process(s) \/ Forward(s) \/ NextItem(s) \/ Tick(s)
    \/ ProcessFails(s)

Stop(s) == StopRun(s) \/ StopQuit(s) \/ StopNotify(s)

Next == Put \/ \E s \in Sinks : Proceed(s) \/ WakeSpuriously(s) \/ Stop(s)

Spec == Init /\ [][Next]_vars

\* Every runner is scheduled: its wait ends by the timeout at the latest, and
\* process() returns.  No wake-up without a cause has to happen, and nobody has
\* to put, to stop, or to fail.
Fairness == \A s \in Sinks : WF_vars(Proceed(s))

FairSpec == Spec /\ Fairness

-------------------------------------------------------------------------------
StepPc == {"check", "arm", "waiting", "notified", "quit", "pop", "process",
           "forward", "tick"}

TypeOK ==
    /\ m_items \in [Sinks -> Seq(Nat)]
    /\ m_run \in [Sinks -> BOOLEAN] /\ m_quit \in [Sinks -> BOOLEAN]
    /\ pc \in [Sinks -> StepPc \cup {"loop", "over", "undefined"}]
    /\ item \in [Sinks -> Nat] /\ n \in [Sinks -> Nat]
    /\ todo \in [Sinks -> Seq(Sinks)]
    /\ stopper \in [Sinks -> {"none", "quit", "notify", "done"}]
    /\ accepted \in Nat
    /\ handled \in [Sinks -> Seq(Nat)] /\ atStop \in [Sinks -> Nat]
    /\ spurious \in [Sinks -> BOOLEAN]

\* Only a wake-up without a cause leads step() to take an item from an empty
\* queue: the notification of stop() does not, because m_quit is set before
\* it and tested after it, and neither does the end of a batch.
OnlySpuriousPop == \A s \in Sinks : pc[s] = "undefined" => spurious[s]

\* A sink told to stop handles no more than one batch after it.
BoundedAfterStop ==
    \A s \in Sinks : ~m_run[s] => Len(handled[s]) - atStop[s] <= Batch

\* Every sink of the tree is at the end of a numbered channel from the source:
\* the items reach its process(item) once each and in the order of the puts,
\* through every queue and every thread in between.
Channels == INSTANCE NumberedChannels WITH Consumers <- Sinks, taken <- handled
ChannelSpec == Channels!Spec

Down(s) == ~m_run[s] \/ pc[s] \in {"over", "undefined"}

\* Every accepted item reaches every sink, unless a sink was stopped, failed or
\* came upon an empty queue: a lost notification only delays it.
CaughtUp(s) == Len(handled[s]) = accepted
Delivery ==
    \A s \in Sinks : ~CaughtUp(s) ~> (CaughtUp(s) \/ \E t \in Sinks : Down(t))

\* step() returns whatever the producers and stop() do: what thread_runner
\* needs for its loop to notice a stop.
StepReturns ==
    \A s \in Sinks : pc[s] \in StepPc ~> pc[s] \in {"loop", "over", "undefined"}

\* The documentation of step(): process(item) is called when there is an item.
NoPopFromEmpty == \A s \in Sinks : pc[s] # "undefined"
=============================================================================
