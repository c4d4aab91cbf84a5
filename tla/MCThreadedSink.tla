---------------------------- MODULE MCThreadedSink ----------------------------
(* A small instance of ThreadedSink: a collection and one user's sink.     *)
EXTENDS ThreadedSink

CONSTANTS c, u

MCTargets == [s \in {c, u} |-> IF s = c THEN <<u>> ELSE <<>>]
=============================================================================
