------------------------------ MODULE DataSeries ------------------------------
(***************************************************************************)
(* muonpi::data_series and cached_value: a window of the last m_n values,  *)
(* and statistics of it that are cached until the next add() or reset().   *)
(*                                                                         *)
(* m_data is guarded by a shared mutex, m_n and the caches are not: get()  *)
(* tests m_dirty, calculates under the shared lock, stores m_value and     *)
(* clears m_dirty after it, and reads m_value again to return it.  The     *)
(* calculation of stddev calls variance(), and that mean(), with the lock  *)
(* held.                                                                   *)
(*                                                                         *)
(* The values added are numbered.  A statistic is what it was calculated   *)
(* from, but the median, which is a number (twice the median, to stay with *)
(* integers).                                                              *)
(***************************************************************************)
EXTENDS Integers, Sequences, FiniteSets, SequencesExt

CONSTANTS
    Readers,        \* the threads that ask for statistics
    Kinds,          \* the statistics they ask for
    Windows,        \* the sizes a series is made or reset with
    MaxAdds,        \* bound: values added
    MaxResets,      \* bound: calls of reset(n)
    MaxGets,        \* bound: calls of get() by the readers
    Null

ASSUME SeriesAssumption ==
    /\ Kinds \subseteq {"mean", "median", "rms", "variance", "stddev"}
    /\ "stddev" \in Kinds => "variance" \in Kinds
    /\ "variance" \in Kinds => "mean" \in Kinds
    /\ Null \notin Kinds
    /\ Windows \subseteq Nat
    /\ MaxAdds \in Nat /\ MaxResets \in Nat /\ MaxGets \in Nat

VARIABLES
    m_data, m_n,
    m_dirty, m_value,   \* of each cached value
    stack,              \* the calls of get() each reader is in, the innermost last
    pc, result,         \* where the innermost is, and what it calculated
    added, resets, gets, \* counts of the calls
    resizing,           \* reset(n) has set m_n and is about to clear m_data
    base,               \* history: added when m_data was cleared last
    raced               \* history: add() or reset() came between a calculation
                        \* and the end of its get()

series == <<m_data, m_n>>
cache == <<m_dirty, m_value>>
calls == <<added, resets, gets>>
readers == <<stack, pc, result>>
vars == <<series, cache, readers, calls, resizing, base, raced>>

Init ==
    /\ m_data = <<>>
    /\ m_n \in Windows
    /\ m_dirty = [k \in Kinds |-> TRUE]
    /\ m_value = [k \in Kinds |-> <<>>]
    /\ stack = [r \in Readers |-> <<>>]
    /\ pc = [r \in Readers |-> "idle"]
    /\ result = [r \in Readers |-> <<>>]
    /\ added = 0
    /\ resets = 0
    /\ gets = 0
    /\ resizing = FALSE
    /\ base = 0
    /\ raced = FALSE

-------------------------------------------------------------------------------
\* The statistic whose get() the calculation of k calls.
Inner(k) ==
    CASE k = "stddev" -> "variance"
      [] k = "variance" -> "mean"
      [] OTHER -> Null

\* private_median: sorted.at() throws beyond the last element.
Median(data) ==
    LET sorted == SortSeq(data, <)
        at(i) == sorted[i + 1]
        n == Len(data)
    IN  IF n % 2 = 1 THEN 2 * at(n \div 2)
        ELSE IF n \div 2 + 1 < n THEN at(n \div 2) + at(n \div 2 + 1)
        ELSE Null

\* private_mean, private_rms, private_variance, private_stddev: from m_data and
\* from what the inner call returned.  Of no values all statistics are 0.
Calculation(k, inner) ==
    IF m_data = <<>> THEN <<>>
    ELSE CASE k = "median" -> <<Median(m_data)>>
           [] k = "variance" -> <<m_data, inner>>
           [] k = "stddev" -> inner
           [] OTHER -> m_data

Top(r) == Last(stack[r])

\* A reader in an inner get() holds the shared lock of the outer calculation.
Holds(r) == Len(stack[r]) > 1

CallsInner(r) == Inner(Top(r)) # Null /\ m_data # <<>>

Goto(r, from, to) == pc[r] = from /\ pc' = [pc EXCEPT ![r] = to]

\* mean(), median(), ..., which are get() of their cached value.
Get(r, k) ==
    /\ Goto(r, "idle", "test")
    /\ gets < MaxGets
    /\ gets' = gets + 1
    /\ stack' = [stack EXCEPT ![r] = <<k>>]
    /\ UNCHANGED <<series, cache, result, added, resets, resizing, base, raced>>

TestDirty(r) ==
    /\ Goto(r, "test", IF m_dirty[Top(r)] THEN "lock" ELSE "return")
    /\ UNCHANGED <<series, cache, stack, result, calls, resizing, base, raced>>

\* Mutant: what throws leaves the call on the stack.
CalculateKeepsCall(r) ==
    /\ pc[r] = "lock" /\ ~CallsInner(r)
    /\ LET value == Calculation(Top(r), Null)
           throws == value = <<Null>>
       IN  /\ Goto(r, "lock", IF throws THEN "idle" ELSE "store")
           /\ result' = [result EXCEPT ![r] = IF throws THEN <<>> ELSE value]
           /\ UNCHANGED stack
    /\ UNCHANGED <<series, cache, calls, resizing, base, raced>>

\* The lock, the calculation and the end of the lock, for a statistic that
\* calls no other.  An exception leaves get().
Calculate(r) ==
    /\ pc[r] = "lock" /\ ~CallsInner(r)
    /\ LET value == Calculation(Top(r), Null)
           throws == value = <<Null>>
       IN  /\ Goto(r, "lock", IF throws THEN "idle" ELSE "store")
           /\ result' = [result EXCEPT ![r] = IF throws THEN <<>> ELSE value]
           /\ stack' = IF throws THEN [stack EXCEPT ![r] = <<>>] ELSE stack
    /\ UNCHANGED <<series, cache, calls, resizing, base, raced>>

\* Mutant: the lock of a calculation is exclusive.
LockExclusively(r) ==
    /\ pc[r] = "lock" /\ CallsInner(r)
    /\ \A q \in Readers : ~Holds(q)
    /\ Goto(r, "lock", "test")
    /\ stack' = [stack EXCEPT ![r] = Append(@, Inner(Top(r)))]
    /\ UNCHANGED <<series, cache, result, calls, resizing, base, raced>>

\* The shared lock, and the call of the inner statistic under it.
Lock(r) ==
    /\ pc[r] = "lock" /\ CallsInner(r)
    /\ Goto(r, "lock", "test")
    /\ stack' = [stack EXCEPT ![r] = Append(@, Inner(Top(r)))]
    /\ UNCHANGED <<series, cache, result, calls, resizing, base, raced>>

Store(r) ==
    /\ Goto(r, "store", "clear")
    /\ m_value' = [m_value EXCEPT ![Top(r)] = result[r]]
    /\ UNCHANGED <<series, m_dirty, stack, result, calls, resizing, base, raced>>

Clear(r) ==
    /\ Goto(r, "clear", "return")
    /\ m_dirty' = [m_dirty EXCEPT ![Top(r)] = FALSE]
    /\ UNCHANGED <<series, m_value, stack, result, calls, resizing, base, raced>>

\* return m_value, to the user or to the calculation that called, which ends.
Return(r) ==
    LET value == m_value[Top(r)]
        outer == Front(stack[r])
    IN  /\ pc[r] = "return"
        /\ Goto(r, "return", IF outer = <<>> THEN "idle" ELSE "store")
        /\ stack' = [stack EXCEPT ![r] = outer]
        /\ result' = [result EXCEPT ![r] =
                        IF outer = <<>> THEN <<>> ELSE Calculation(Last(outer), value)]
        /\ UNCHANGED <<series, cache, calls, resizing, base, raced>>

-------------------------------------------------------------------------------
\* Mutant: stddev is left out.
MarkDirtyMostly == m_dirty' = [k \in Kinds |-> k # "stddev" \/ m_dirty[k]]

MarkDirty == m_dirty' = [k \in Kinds |-> TRUE]

\* The unique lock, and the calls of get() that it overtakes.
UniqueLock ==
    /\ \A r \in Readers : ~Holds(r)
    /\ raced' = (raced \/ \E r \in Readers : pc[r] \in {"store", "clear"})

\* Mutant: the window loses a value too early.
TrimEarly(data) == IF Len(data) >= m_n /\ data # <<>> THEN Tail(data) ELSE data

Trim(data) == IF Len(data) > m_n THEN Tail(data) ELSE data

\* add(value)
Add ==
    /\ added < MaxAdds
    /\ UniqueLock
    /\ added' = added + 1
    /\ m_data' = Trim(Append(m_data, added + 1))
    /\ MarkDirty
    /\ UNCHANGED <<m_n, m_value, readers, resets, gets, resizing, base>>

\* reset(n), up to its call of reset().
SetN(n) ==
    /\ resets < MaxResets /\ ~resizing
    /\ resets' = resets + 1
    /\ m_n' = n
    /\ resizing' = TRUE
    /\ UNCHANGED <<m_data, cache, readers, added, gets, base, raced>>

\* reset()
Reset ==
    /\ resizing
    /\ UniqueLock
    /\ m_data' = <<>>
    /\ resizing' = FALSE
    /\ base' = added
    /\ MarkDirty
    /\ UNCHANGED <<m_n, m_value, readers, calls>>

Step(r) ==
    \/ TestDirty(r)
    \/ Calculate(r)
    \/ Lock(r)
    \/ Store(r)
    \/ Clear(r)
    \/ Return(r)

Next ==
    \/ \E r \in Readers : Step(r) \/ \E k \in Kinds : Get(r, k)
    \/ Add
    \/ \E n \in Windows : SetN(n)
    \/ Reset

Spec == Init /\ [][Next]_vars
FairSpec == Spec /\ \A r \in Readers : WF_vars(Step(r))

-------------------------------------------------------------------------------
TypeOK ==
    /\ m_data \in Seq(1..MaxAdds)
    /\ m_n \in Windows
    /\ m_dirty \in [Kinds -> BOOLEAN]
    /\ stack \in [Readers -> Seq(Kinds)]
    /\ pc \in [Readers -> {"idle", "test", "lock", "store", "clear", "return"}]
    /\ \A r \in Readers :
        /\ (stack[r] = <<>>) <=> (pc[r] = "idle")
        /\ \A i \in 1..Len(stack[r]) - 1 : stack[r][i + 1] = Inner(stack[r][i])
    /\ added \in 0..MaxAdds /\ resets \in 0..MaxResets /\ gets \in 0..MaxGets /\ base \in 0..added
    /\ resizing \in BOOLEAN /\ raced \in BOOLEAN

\* The series is the latest values since it was last cleared, m_n of them at
\* most, in the order of their add(), except while a reset(n) has set the new
\* size and not yet cleared the data.
WindowIsLatest ==
    resizing \/
    LET n == IF added - base < m_n THEN added - base ELSE m_n
    IN  m_data = [i \in 1..n |-> added - n + i]

\* What k would be if it were calculated now.
Fresh[k \in Kinds] == Calculation(k, IF Inner(k) = Null THEN Null ELSE Fresh[Inner(k)])

\* A value that get() returns without a calculation is the most recent one,
\* that of the present data, as long as no add() or reset() has come between
\* a calculation and the clearing of m_dirty after it.  Two readers do not
\* disturb each other, nor does a calculation inside another.
StaleOnlyByRace == raced \/ \A k \in Kinds : ~m_dirty[k] => m_value[k] = Fresh[k]

\* Every call comes to its end: the shared lock taken again inside itself
\* blocks nobody (as long as a waiting add() does not keep readers out, which
\* the mutexes of the C++ library for Linux do not).
GetReturns == \A r \in Readers : pc[r] # "idle" ~> pc[r] = "idle"

\* median() calculates "the median of all values".
MedianIsMedian ==
    m_data = <<>> \/
    LET n == Len(m_data)
        sorted == SortSeq(m_data, <)
    IN  Median(m_data) = sorted[(n + 1) \div 2] + sorted[n \div 2 + 1]
===============================================================================
