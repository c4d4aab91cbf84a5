--------------------------- MODULE NumberedChannels ---------------------------
(***************************************************************************)
(* What the consumers behind a source are promised: each takes the items   *)
(* one by one, each once, in the order in which they were accepted, and    *)
(* never one that was not.  Items are numbered by their acceptance.        *)
(***************************************************************************)
EXTENDS Naturals, Sequences

CONSTANT Consumers

VARIABLES
    accepted,   \* how many items were accepted
    taken       \* the items each consumer took so far

vars == <<accepted, taken>>

Init == accepted = 0 /\ taken = [c \in Consumers |-> <<>>]

Accept == accepted' = accepted + 1 /\ UNCHANGED taken

Take(c) ==
    /\ Len(taken[c]) < accepted
    /\ taken' = [taken EXCEPT ![c] = Append(@, Len(@) + 1)]
    /\ UNCHANGED accepted

Next == Accept \/ \E c \in Consumers : Take(c)

Spec == Init /\ [][Next]_vars
=============================================================================
