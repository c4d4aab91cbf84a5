---------------------------- MODULE MCThreadRunner ----------------------------
(* A small instance of ThreadRunner: two threads to run on, one helper.    *)
EXTENDS ThreadRunner

CONSTANTS w1, w2

MCStopCodes   == {0, 1}
MCPreErrors   == {3}
MCLoopErrors  == {2}
MCPostResults == {0, 4}

=============================================================================
