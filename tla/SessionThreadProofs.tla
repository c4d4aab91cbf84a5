-------------------------- MODULE SessionThreadProofs -------------------------
(***************************************************************************)
(* What the operators of SessionThread make of a connection, for the       *)
(* proofs about both servers.                                              *)
(***************************************************************************)
EXTENDS SessionThread, FiniteSetTheorems, TLAPS

AtMostOne(S) == \A x, y \in S : x = y

\* The number of elements of a set that has no two.
LEMMA AtMostOneCardinality ==
    ASSUME NEW S, AtMostOne(S)
    PROVE  Cardinality(S) <= 1
<1>1. CASE S = {}
  <2>1. Cardinality(S) = 0
    BY <1>1, FS_EmptySet
  <2> QED
    BY <2>1
<1>2. ASSUME NEW x \in S PROVE Cardinality(S) <= 1
  <2>1. S = {x}
    BY <1>2 DEF AtMostOne
  <2>2. Cardinality(S) = 1
    BY <2>1, FS_Singleton
  <2> QED
    BY <2>2
<1> QED
    BY <1>1, <1>2

\* An operation ends, and leaves none if it was the only one.
LEMMA EndFields ==
    ASSUME NEW ops, NEW s \in SessionType(ops), NEW op, NEW e, e = End(s, op)
    PROVE  /\ e \in SessionType(ops) /\ e.pending = s.pending \ {op}
           /\ AtMostOne(s.pending) /\ op \in s.pending => e.pending = {}
           /\ e.thread = s.thread /\ e.lost = s.lost /\ e.stray = s.stray
<1>1. AtMostOne(s.pending) /\ op \in s.pending => s.pending \ {op} = {}
    BY DEF AtMostOne
<1> QED
    BY <1>1 DEF End, SessionType

\* An operation begins.
LEMMA BeginFields ==
    ASSUME NEW ops, NEW s \in SessionType(ops), NEW op \in ops,
           NEW b, b = Begin(s, op)
    PROVE  /\ b \in SessionType(ops) /\ b.pending = s.pending \cup {op}
           /\ b.thread = s.thread /\ b.lost = s.lost /\ b.stray = s.stray
    BY DEF Begin, SessionType

\* notify() wakes a waiting thread, and is lost on one that does not wait yet.
LEMMA NotifyFields ==
    ASSUME NEW ops, NEW s \in SessionType(ops), NEW w, w = Notify(s)
    PROVE  /\ w \in SessionType(ops) /\ w.pending = s.pending /\ w.stray = s.stray
           /\ s.thread = "waiting" => w.thread = "woken" /\ w.lost = s.lost
           /\ s.thread = "arm" => w.thread = "arm" /\ w.lost
           /\ s.thread \notin {"waiting", "arm"} => w = s
<1>1. CASE s.thread = "waiting"
    BY <1>1 DEF Notify, SessionType, Threads
<1>2. CASE s.thread = "arm"
    BY <1>2 DEF Notify, SessionType, Threads
<1>3. CASE s.thread \notin {"waiting", "arm"}
    BY <1>3 DEF Notify, SessionType, Threads
<1> QED
    BY <1>1, <1>2, <1>3

\* The session's thread goes on, by itself or woken without a cause.
LEMMA ThreadFields ==
    ASSUME NEW ops, NEW s \in SessionType(ops), NEW t \in Threads,
           NEW w, w = [s EXCEPT !.thread = t]
    PROVE  /\ w \in SessionType(ops) /\ w.thread = t
           /\ w.pending = s.pending /\ w.lost = s.lost /\ w.stray = s.stray
    BY DEF SessionType

\* A stray wake-up only moves the thread.
LEMMA StrayFields ==
    ASSUME NEW ops, NEW s \in SessionType(ops),
           NEW w, w = [s EXCEPT !.thread = "woken", !.stray = TRUE]
    PROVE  w \in SessionType(ops) /\ w.thread = "woken" /\ w.pending = s.pending /\ w.stray
    BY DEF SessionType, Threads
===============================================================================
