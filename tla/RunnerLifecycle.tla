--------------------------- MODULE RunnerLifecycle ---------------------------
(***************************************************************************)
(* What an observer of a muonpi::thread_runner relies on: the order of the *)
(* states that state() may report, and that the user's hooks (pre_run,     *)
(* step or custom_run, post_run) run only between the launch of a run and  *)
(* the moment a terminal state is published.  ThreadRunner implements it.  *)
(***************************************************************************)

VARIABLES
    state,   \* what state() reports
    stage    \* how far the current run is

vars == <<state, stage>>

Terminal == {"Stopped", "Error"}
Resting  == Terminal \cup {"Initial"}

\* "rest": no run; "launched": a run exists, its hooks have not begun;
\* "underway": hooks may run; "ended": no hook of this run will run again.
Stages == {"rest", "launched", "underway", "ended"}

Init == state = "Initial" /\ stage = "rest"

Launch ==
    /\ stage = "rest" /\ state \in Resting
    /\ stage' = "launched"
    /\ UNCHANGED state

Initialise ==
    /\ stage = "launched"
    /\ stage' = "underway" /\ state' = "Initialising"

Advance ==
    /\ stage = "underway"
    /\ \/ state = "Initialising" /\ state' = "Running"
       \/ state = "Running" /\ state' = "Finalising"
    /\ UNCHANGED stage

\* Only a run that came as far as Finalising may be reported as Stopped.
End ==
    /\ stage = "underway"
    /\ stage' = "ended"
    /\ \/ state' = "Error"
       \/ state = "Finalising" /\ state' = "Stopped"

Retire ==
    /\ stage = "ended"
    /\ stage' = "rest"
    /\ UNCHANGED state

Next == Launch \/ Initialise \/ Advance \/ End \/ Retire

Spec == Init /\ [][Next]_vars
=============================================================================
