--------------------------- MODULE DataSeriesProofs ---------------------------
(***************************************************************************)
(* Theorems about DataSeries, for any number of readers, any windows and   *)
(* any number of values.                                                   *)
(***************************************************************************)
EXTENDS DataSeries, SequenceTheorems, TLAPS

\* The cached values and the results are there for every kind and reader,
\* whatever they are.
Shape ==
    /\ m_value = [k \in Kinds |-> m_value[k]]
    /\ result = [r \in Readers |-> result[r]]

\* Where the value of the present data is while it passes from a calculation
\* through the cache to who asked for it, as long as nothing came in between:
\* a calculation that waits for an inner one keeps add() and reset() out.
Current ==
    raced \/
    /\ \A k \in Kinds : ~m_dirty[k] => m_value[k] = Fresh[k]
    /\ \A r \in Readers :
        /\ pc[r] = "store" => result[r] = Fresh[Top(r)]
        /\ pc[r] = "clear" => m_value[Top(r)] = Fresh[Top(r)]
        /\ pc[r] = "return" /\ Holds(r) => m_value[Top(r)] = Fresh[Top(r)]

Inv == TypeOK /\ Shape /\ WindowIsLatest /\ Current

-------------------------------------------------------------------------------
\* The statistics that call another one, and those these call.
LEMMA InnerKinds ==
    ASSUME NEW k \in Kinds
    PROVE  /\ Inner(k) \in Kinds \cup {Null}
           /\ Inner(k) # Null => Inner(Inner(k)) \in Kinds \cup {Null}
           /\ Inner(k) # Null /\ Inner(Inner(k)) # Null => Inner(Inner(Inner(k))) = Null
    BY SeriesAssumption DEF Inner

\* Fresh is what its equation says: the calls are at most three deep.
LEMMA FreshIsCalculated ==
    ASSUME NEW k \in Kinds
    PROVE  Fresh[k] = Calculation(k, IF Inner(k) = Null THEN Null ELSE Fresh[Inner(k)])
<1> DEFINE value1(j) == Calculation(j, Null)
           value2(j) == Calculation(j, IF Inner(j) = Null THEN Null ELSE value1(Inner(j)))
           value3(j) == Calculation(j, IF Inner(j) = Null THEN Null ELSE value2(Inner(j)))
           F == [j \in Kinds |-> value3(j)]
           IsFresh(f) ==
               f = [j \in Kinds |-> Calculation(j, IF Inner(j) = Null THEN Null ELSE f[Inner(j)])]
<1>1. ASSUME NEW j \in Kinds
      PROVE  value3(j) = Calculation(j, IF Inner(j) = Null THEN Null ELSE F[Inner(j)])
  <2>1. CASE Inner(j) = Null
    BY <2>1
  <2>2. CASE Inner(j) # Null
    <3>1. Inner(j) \in Kinds
      BY <2>2, InnerKinds
    <3>2. value2(Inner(j)) = value3(Inner(j))
      <4>1. CASE Inner(Inner(j)) = Null
        BY <4>1
      <4>2. CASE Inner(Inner(j)) # Null
        <5>1. Inner(Inner(Inner(j))) = Null
          BY <2>2, <4>2, InnerKinds
        <5>2. value1(Inner(Inner(j))) = value2(Inner(Inner(j)))
          BY <5>1
        <5> HIDE DEF value1, value2
        <5> QED
          BY <4>2, <5>2 DEF value2
      <4> QED
        BY <4>1, <4>2
    <3>3. F[Inner(j)] = value3(Inner(j))
      BY <3>1
    <3> HIDE DEF value2, F
    <3> QED
      BY <2>2, <3>2, <3>3
  <2> QED
    BY <2>1, <2>2
<1>2. IsFresh(F)
  <2> HIDE DEF value3
  <2> QED
    BY <1>1
<1> HIDE DEF F
<1>3. Fresh = CHOOSE f : IsFresh(f)
  BY DEF Fresh
<1>4. \E f : IsFresh(f)
  BY <1>2
<1> HIDE DEF IsFresh
<1>5. IsFresh(Fresh)
  BY <1>3, <1>4
<1> QED
  BY <1>5 DEF IsFresh

\* Fresh depends on the data only.
LEMMA FreshIsCalculatedForAll ==
    \A k \in Kinds : Fresh[k] = Calculation(k, IF Inner(k) = Null THEN Null ELSE Fresh[Inner(k)])
    BY FreshIsCalculated

\* What a kind would be computed from the series only changes with it.
LEMMA FreshStays ==
    ASSUME UNCHANGED m_data
    PROVE  \A k \in Kinds : Fresh[k]' = Fresh[k]
<1>1. ASSUME NEW k \in Kinds, NEW x
      PROVE  Calculation(k, x)' = Calculation(k, x)
  BY DEF Calculation
<1>2. (\A k \in Kinds : Fresh[k] = Calculation(k, IF Inner(k) = Null THEN Null ELSE Fresh[Inner(k)]))'
  BY FreshIsCalculatedForAll, PTL
<1>3. ASSUME NEW k \in Kinds, Inner(k) = Null
      PROVE  Fresh[k]' = Fresh[k]
  BY <1>1, <1>2, <1>3, FreshIsCalculated
<1>4. ASSUME NEW k \in Kinds, Inner(k) # Null, Inner(Inner(k)) = Null
      PROVE  Fresh[k]' = Fresh[k]
  <2>1. Inner(k) \in Kinds
    BY <1>4, InnerKinds
  <2>2. Fresh[Inner(k)]' = Fresh[Inner(k)]
    BY <1>3, <1>4, <2>1
  <2> QED
    BY <1>1, <1>2, <1>4, <2>2, FreshIsCalculated
<1>5. ASSUME NEW k \in Kinds, Inner(k) # Null, Inner(Inner(k)) # Null
      PROVE  Fresh[k]' = Fresh[k]
  <2>1. Inner(k) \in Kinds /\ Inner(Inner(Inner(k))) = Null
    BY <1>5, InnerKinds
  <2>2. Fresh[Inner(k)]' = Fresh[Inner(k)]
    BY <1>4, <1>5, <2>1
  <2> QED
    BY <1>1, <1>2, <1>5, <2>2, FreshIsCalculated
<1> QED
  BY <1>3, <1>4, <1>5

-------------------------------------------------------------------------------
\* A call is put on a stack, and taken from it.
LEMMA Pushed ==
    ASSUME NEW calling \in Seq(Kinds), NEW k \in Kinds, NEW new, new = Append(calling, k)
    PROVE  /\ new \in Seq(Kinds) /\ Len(new) = Len(calling) + 1 /\ new # <<>>
           /\ Last(new) = k
           /\ \A i \in 1..Len(calling) : new[i] = calling[i]
    BY DEF Last

\* A stack of calls without the innermost one.
LEMMA Taken ==
    ASSUME NEW calling \in Seq(Kinds), calling # <<>>, NEW outer, outer = Front(calling)
    PROVE  /\ outer \in Seq(Kinds) /\ Len(outer) = Len(calling) - 1
           /\ Last(calling) = calling[Len(calling)] /\ Last(calling) \in Kinds
           /\ \A i \in 1..Len(outer) : outer[i] = calling[i]
           /\ outer # <<>> => /\ Last(outer) = calling[Len(calling) - 1] /\ Last(outer) \in Kinds
                              /\ Len(calling) > 1
           /\ outer = <<>> => Len(calling) = 1
<1>1. PICK l \in Nat : l = Len(calling) /\ l > 0
    OBVIOUS
<1>2. outer = SubSeq(calling, 1, l - 1)
    BY <1>1 DEF Front
<1>3. /\ outer \in Seq(Kinds) /\ Len(outer) = l - 1
      /\ \A i \in 1..l - 1 : outer[i] = calling[i]
    BY <1>1, <1>2
<1>4. Last(calling) = calling[l] /\ Last(calling) \in Kinds
    BY <1>1 DEF Last
<1>5. ASSUME outer # <<>>
      PROVE  Last(outer) = calling[l - 1] /\ Last(outer) \in Kinds /\ l > 1
    BY <1>1, <1>3, <1>5 DEF Last
<1>6. outer = <<>> => l = 1
  <2>1. l \in Nat
    BY <1>1
  <2>2. Len(outer) = l - 1
    BY <1>3
  <2>3. outer = <<>> => l - 1 = 0
    BY <2>2, EmptySeq
  <2> QED
    BY <2>1, <2>3
<1> QED
    BY <1>1, <1>3, <1>4, <1>5, <1>6

\* A series without its oldest value.
LEMMA TailOfSeries ==
    ASSUME NEW S, NEW s \in Seq(S), s # <<>>
    PROVE  /\ Tail(s) \in Seq(S) /\ Len(Tail(s)) = Len(s) - 1
           /\ \A i \in 1..Len(s) - 1 : Tail(s)[i] = s[i + 1]
    OBVIOUS

\* How many of l values a window shows, and the n last of a values.
Shown(l, size) == IF l < size THEN l ELSE size
Latest(a, n) == [i \in 1..n |-> a - n + i]

\* A series after add(v), and that it shows the latest values again: the oldest
\* leaves the window when it is full.
Slid(data, v, size) ==
    IF Len(Append(data, v)) > size THEN Tail(Append(data, v)) ELSE Append(data, v)

\* The window over the latest values moves one on when a value is added, and
\* loses the oldest when it was full.
LEMMA WindowSlides ==
    ASSUME NEW a \in Nat, NEW l \in 0..a, NEW size \in Nat
    PROVE  Slid(Latest(a, Shown(l, size)), a + 1, size) = Latest(a + 1, Shown(l + 1, size))
<1> DEFINE n == Shown(l, size)
           n2 == Shown(l + 1, size)
           data == Latest(a, n)
           longer == Append(data, a + 1)
           shorter == Tail(longer)
<1>1. /\ n \in Nat /\ n <= size /\ n2 \in Nat
      /\ n < size => n2 = n + 1
      /\ n = size => n2 = n
    BY DEF Shown
<1> HIDE DEF n, n2
<1>2. data \in Seq(Int) /\ Len(data) = n /\ \A i \in 1..n : data[i] = a - n + i
    BY <1>1 DEF Latest
<1> HIDE DEF data
<1>3. /\ longer \in Seq(Int) /\ Len(longer) = n + 1
      /\ \A i \in 1..n + 1 : longer[i] = a - n + i
    BY <1>1, <1>2
<1> HIDE DEF longer
<1>4. ASSUME n < size
      PROVE  longer = Latest(a + 1, n2)
  <2>1. n2 = n + 1
    BY <1>1, <1>4
  <2>2. longer = [i \in 1..n + 1 |-> longer[i]]
    BY <1>1, <1>3
  <2>3. \A i \in 1..n + 1 : longer[i] = (a + 1) - n2 + i
    BY <1>1, <1>3, <2>1
  <2> QED
    BY <2>1, <2>2, <2>3 DEF Latest
<1>5. ASSUME n = size
      PROVE  shorter = Latest(a + 1, n2)
  <2>1. n2 = n
    BY <1>1, <1>5
  <2>2. shorter \in Seq(Int) /\ Len(shorter) = n /\ \A i \in 1..n : shorter[i] = longer[i + 1]
    <3>1. longer # <<>>
      BY <1>1, <1>3, EmptySeq
    <3>2. /\ shorter \in Seq(Int) /\ Len(shorter) = Len(longer) - 1
          /\ \A i \in 1..Len(longer) - 1 : shorter[i] = longer[i + 1]
      BY <1>3, <3>1, TailOfSeries
    <3>3. Len(longer) - 1 = n
      BY <1>1, <1>3
    <3> QED
      BY <3>2, <3>3
  <2> HIDE DEF shorter
  <2>3. \A i \in 1..n : shorter[i] = (a + 1) - n2 + i
    BY <1>1, <1>3, <2>1, <2>2
  <2>4. shorter = [i \in 1..n |-> shorter[i]]
    BY <1>1, <2>2
  <2> QED
    BY <2>1, <2>3, <2>4 DEF Latest
<1>6. /\ n < size => ~(Len(longer) > size)
      /\ n = size => Len(longer) > size
    BY <1>1, <1>3
<1>7. n < size \/ n = size
    BY <1>1
<1>8. Slid(data, a + 1, size) = IF Len(longer) > size THEN shorter ELSE longer
    BY DEF Slid, longer
<1> HIDE DEF shorter
<1> QED
    BY <1>4, <1>5, <1>6, <1>7, <1>8 DEF n, n2, data

-------------------------------------------------------------------------------
\* Every call in a stack was made by the calculation of the one before it.
InTurn(calling) == \A i \in 1..Len(calling) - 1 : calling[i + 1] = Inner(calling[i])

Stages == {"idle", "test", "lock", "store", "clear", "return"}

StacksOK ==
    /\ stack \in [Readers -> Seq(Kinds)]
    /\ pc \in [Readers -> Stages]
    /\ \A r \in Readers : (stack[r] = <<>>) <=> (pc[r] = "idle")
    /\ \A r \in Readers : InTurn(stack[r])

\* The stacks are part of the type.
LEMMA TypesOfStacks == TypeOK => StacksOK
    BY DEF TypeOK, StacksOK, Stages, InTurn

\* A reader in a call is in a call of a kind.
LEMMA TopIsAKind ==
    ASSUME StacksOK, NEW r \in Readers, pc[r] # "idle"
    PROVE  stack[r] \in Seq(Kinds) /\ stack[r] # <<>> /\ Top(r) \in Kinds
<1>1. stack[r] \in Seq(Kinds) /\ stack[r] # <<>>
    BY DEF StacksOK
<1> QED
    BY <1>1, Taken DEF Top

\* A stack stays in turn when the innermost call makes the one it needs.
LEMMA PushedInTurn ==
    ASSUME NEW calling \in Seq(Kinds), calling # <<>>, InTurn(calling),
           NEW k \in Kinds, k = Inner(Last(calling)), NEW new, new = Append(calling, k)
    PROVE  InTurn(new)
<1>1. PICK l \in Nat : l = Len(calling)
    OBVIOUS
<1>2. Last(calling) = calling[l]
    BY <1>1, Taken
<1>3. /\ Len(new) = l + 1
      /\ \A i \in 1..l : new[i] = calling[i]
    BY <1>1, Pushed
<1>4. new[l + 1] = k
    BY <1>1
<1>5. l > 0
    BY <1>1, EmptySeq
<1>6. \A i \in 1..l - 1 : calling[i + 1] = Inner(calling[i])
    BY <1>1 DEF InTurn
<1>7. ASSUME NEW i \in 1..l
      PROVE  new[i + 1] = Inner(new[i])
  <2>1. CASE i = l
    BY <1>2, <1>3, <1>4, <1>5, <2>1
  <2>2. CASE i # l
    BY <1>3, <1>6, <2>2
  <2> QED
    BY <2>1, <2>2
<1>8. Len(new) - 1 = l
    BY <1>3
<1> QED
    BY <1>7, <1>8 DEF InTurn

\* A stack stays in turn when its innermost call returns, to the call that
\* needed it.
LEMMA TakenInTurn ==
    ASSUME NEW calling \in Seq(Kinds), calling # <<>>, InTurn(calling),
           NEW outer, outer = Front(calling)
    PROVE  /\ InTurn(outer)
           /\ outer # <<>> => Last(calling) = Inner(Last(outer))
<1>1. PICK l \in Nat : l = Len(calling)
    OBVIOUS
<1>2. /\ Len(outer) = l - 1
      /\ Last(calling) = calling[l]
      /\ \A i \in 1..l - 1 : outer[i] = calling[i]
      /\ outer # <<>> => Last(outer) = calling[l - 1] /\ l > 1
  <2>1. /\ Len(outer) = Len(calling) - 1 /\ Last(calling) = calling[Len(calling)]
        /\ \A i \in 1..Len(outer) : outer[i] = calling[i]
        /\ outer # <<>> => Last(outer) = calling[Len(calling) - 1] /\ Len(calling) > 1
    BY Taken
  <2> QED
    BY <1>1, <2>1
<1>3. \A i \in 1..l - 1 : calling[i + 1] = Inner(calling[i])
    BY <1>1 DEF InTurn
<1>4. l \in Nat
    BY <1>1
<1>5. \A i \in 1..(l - 1) - 1 : outer[i + 1] = Inner(outer[i])
    BY <1>2, <1>3, <1>4
<1>6. InTurn(outer)
    BY <1>2, <1>5 DEF InTurn
<1>7. outer # <<>> => Last(calling) = Inner(Last(outer))
    BY <1>2, <1>3, <1>4
<1> QED
    BY <1>6, <1>7

\* A reader goes from a stage to another.
LEMMA ReaderSteps ==
    ASSUME StacksOK, NEW r \in Readers,
           NEW calling \in Seq(Kinds), InTurn(calling), stack' = [stack EXCEPT ![r] = calling],
           NEW stage \in Stages, (calling = <<>>) <=> (stage = "idle"),
           pc' = [pc EXCEPT ![r] = stage]
    PROVE  StacksOK'
    BY DEF StacksOK, Stages

\* Every step keeps the stacks: reads push and pop, the others leave them.
LEMMA StacksStep ==
    ASSUME StacksOK, [Next]_vars
    PROVE  StacksOK'
<1>1. ASSUME UNCHANGED readers
      PROVE  StacksOK'
  BY <1>1 DEF readers, StacksOK, InTurn
<1>2. ASSUME NEW r \in Readers, UNCHANGED stack, NEW stage \in Stages \ {"idle"},
             pc[r] # "idle", pc' = [pc EXCEPT ![r] = stage]
      PROVE  StacksOK'
  <2>1. stack[r] \in Seq(Kinds) /\ InTurn(stack[r]) /\ stack[r] # <<>>
    BY <1>2 DEF StacksOK
  <2>2. stack' = [stack EXCEPT ![r] = stack[r]]
    BY <1>2 DEF StacksOK
  <2> QED
    BY <1>2, <2>1, <2>2, ReaderSteps
<1>3. ASSUME NEW r \in Readers, NEW k \in Kinds, Get(r, k)
      PROVE  StacksOK'
  <2>1. <<k>> \in Seq(Kinds) /\ InTurn(<<k>>) /\ <<k>> # <<>>
    BY DEF InTurn
  <2> QED
    BY <1>3, <2>1, ReaderSteps DEF Get, Goto, Stages
<1>4. ASSUME NEW r \in Readers, TestDirty(r) \/ Store(r) \/ Clear(r)
      PROVE  StacksOK'
  BY <1>2, <1>4 DEF TestDirty, Store, Clear, Goto, Stages
<1>5. ASSUME NEW r \in Readers, Calculate(r)
      PROVE  StacksOK'
  <2> DEFINE throws == Calculation(Top(r), Null) = <<Null>>
  <2>1. /\ Goto(r, "lock", IF throws THEN "idle" ELSE "store")
        /\ stack' = IF throws THEN [stack EXCEPT ![r] = <<>>] ELSE stack
    BY <1>5 DEF Calculate
  <2> HIDE DEF throws
  <2>2. CASE throws
    <3>1. <<>> \in Seq(Kinds) /\ InTurn(<<>>)
      BY DEF InTurn
    <3> QED
      BY <2>1, <2>2, <3>1, ReaderSteps DEF Goto, Stages
  <2>3. CASE ~throws
    BY <1>2, <2>1, <2>3 DEF Goto, Stages
  <2> QED
    BY <2>2, <2>3
<1>6. ASSUME NEW r \in Readers, Lock(r)
      PROVE  StacksOK'
  <2>1. stack[r] \in Seq(Kinds) /\ stack[r] # <<>> /\ Top(r) \in Kinds /\ InTurn(stack[r])
    BY <1>6, TopIsAKind DEF Lock, StacksOK
  <2>2. Inner(Top(r)) \in Kinds
    BY <1>6, <2>1, InnerKinds DEF Lock, CallsInner
  <2> DEFINE new == Append(stack[r], Inner(Top(r)))
  <2>3. new \in Seq(Kinds) /\ new # <<>>
    BY <2>1, <2>2, Pushed
  <2>4. InTurn(new)
    BY <2>1, <2>2, PushedInTurn DEF Top
  <2>5. stack' = [stack EXCEPT ![r] = new]
    BY <1>6 DEF Lock, StacksOK
  <2>6. pc' = [pc EXCEPT ![r] = "test"]
    BY <1>6 DEF Lock, Goto
  <2> HIDE DEF new
  <2> QED
    BY <2>3, <2>4, <2>5, <2>6, ReaderSteps DEF Stages
<1>7. ASSUME NEW r \in Readers, Return(r)
      PROVE  StacksOK'
  <2>1. stack[r] \in Seq(Kinds) /\ stack[r] # <<>> /\ InTurn(stack[r])
    BY <1>7, TopIsAKind DEF Return, StacksOK
  <2> DEFINE outer == Front(stack[r])
             stage == IF outer = <<>> THEN "idle" ELSE "store"
  <2>2. outer \in Seq(Kinds) /\ InTurn(outer)
    BY <2>1, Taken, TakenInTurn
  <2>3. stack' = [stack EXCEPT ![r] = outer] /\ pc' = [pc EXCEPT ![r] = stage]
    BY <1>7 DEF Return, Goto
  <2>4. stage \in Stages /\ ((outer = <<>>) <=> (stage = "idle"))
    BY DEF Stages
  <2> HIDE DEF outer, stage
  <2> QED
    BY <2>2, <2>3, <2>4, ReaderSteps
<1>8. CASE Add \/ (\E n \in Windows : SetN(n)) \/ Reset
  BY <1>1, <1>8 DEF Add, SetN, Reset
<1>9. CASE UNCHANGED vars
  BY <1>1, <1>9 DEF vars
<1> QED
  BY <1>3, <1>4, <1>5, <1>6, <1>7, <1>8, <1>9 DEF Next, Step
-------------------------------------------------------------------------------
\* What the readers do leaves the series as it is, and the caches well typed.
LEMMA ReadersLeaveTheSeries ==
    ASSUME NEW r \in Readers, Step(r) \/ \E k \in Kinds : Get(r, k)
    PROVE  UNCHANGED <<series, added, resets, resizing, base, raced>>
    BY DEF Step, TestDirty, Calculate, Lock, Store, Clear, Return, Get, calls, series

\* What add() leaves in m_data is a series.
LEMMA DataStep ==
    ASSUME TypeOK, Add
    PROVE  m_data' \in Seq(1..MaxAdds)
<1> DEFINE longer == Append(m_data, added + 1)
<1>1. added + 1 \in 1..MaxAdds /\ m_data \in Seq(1..MaxAdds)
  BY SeriesAssumption DEF TypeOK, Add
<1>2. longer \in Seq(1..MaxAdds) /\ longer # <<>>
  BY <1>1
<1>3. m_data' = longer \/ m_data' = Tail(longer)
  BY DEF Add, Trim
<1> HIDE DEF longer
<1> QED
  BY <1>2, <1>3, TailOfSeries

RestOK ==
    /\ m_data \in Seq(1..MaxAdds)
    /\ m_n \in Windows
    /\ m_dirty \in [Kinds -> BOOLEAN]
    /\ added \in 0..MaxAdds /\ resets \in 0..MaxResets /\ gets \in 0..MaxGets /\ base \in 0..added
    /\ resizing \in BOOLEAN /\ raced \in BOOLEAN

\* Every step keeps the types of everything but the stacks.
LEMMA RestStep ==
    ASSUME TypeOK, [Next]_vars
    PROVE  RestOK'
<1> RestOK /\ MaxAdds \in Nat /\ MaxResets \in Nat /\ MaxGets \in Nat
  BY SeriesAssumption DEF TypeOK, RestOK
<1>1. ASSUME NEW r \in Readers, Step(r) \/ \E k \in Kinds : Get(r, k)
      PROVE  RestOK'
  <2>1. m_dirty' = m_dirty \/ \E k : m_dirty' = [m_dirty EXCEPT ![k] = FALSE]
    BY <1>1 DEF Step, TestDirty, Calculate, Lock, Store, Clear, Return, Get, cache
  <2>2. (m_dirty \in [Kinds -> BOOLEAN])'
    BY <2>1 DEF RestOK
  <2>3. gets' = gets \/ (gets < MaxGets /\ gets' = gets + 1)
    BY <1>1 DEF Step, TestDirty, Calculate, Lock, Store, Clear, Return, Get, calls
  <2>4. (gets \in 0..MaxGets)'
    BY <2>3 DEF RestOK
  <2> QED
    BY <1>1, <2>2, <2>4, ReadersLeaveTheSeries DEF RestOK, series
<1>2. CASE Add
  <2>1. m_data' \in Seq(1..MaxAdds)
    BY <1>2, DataStep
  <2>2. raced' \in BOOLEAN
    BY <1>2 DEF Add, UniqueLock, RestOK
  <2>3. m_dirty' \in [Kinds -> BOOLEAN]
    BY <1>2 DEF Add, MarkDirty
  <2> QED
    BY <1>2, <2>1, <2>2, <2>3 DEF Add, RestOK
<1>3. ASSUME NEW n \in Windows, SetN(n)
      PROVE  RestOK'
  BY <1>3 DEF SetN, RestOK, cache
<1>4. CASE Reset
  <2>1. raced' \in BOOLEAN
    BY <1>4 DEF Reset, UniqueLock, RestOK
  <2>2. m_dirty' \in [Kinds -> BOOLEAN]
    BY <1>4 DEF Reset, MarkDirty
  <2>3. m_data' \in Seq(1..MaxAdds)
    BY <1>4, EmptySeq DEF Reset
  <2>4. (base \in 0..added)'
    BY <1>4 DEF Reset, RestOK, calls
  <2> QED
    BY <1>4, <2>1, <2>2, <2>3, <2>4 DEF Reset, RestOK, calls
<1>5. CASE UNCHANGED vars
  BY <1>5 DEF vars, series, cache, calls, RestOK
<1> QED
  BY <1>1, <1>2, <1>3, <1>4, <1>5 DEF Next

\* Every step keeps the types.
LEMMA TypeStep ==
    ASSUME TypeOK, [Next]_vars
    PROVE  TypeOK'
<1>1. StacksOK'
  BY TypesOfStacks, StacksStep
<1>2. RestOK'
  BY RestStep
<1> QED
  BY <1>1, <1>2 DEF TypeOK, StacksOK, RestOK, InTurn, Stages

\* Every step keeps the cached values and the results functions.
LEMMA ShapeStep ==
    ASSUME Shape, [Next]_vars
    PROVE  Shape'
<1>1. ASSUME NEW r \in Readers, Step(r) \/ \E k \in Kinds : Get(r, k)
      PROVE  Shape'
  <2>1. m_value' = m_value \/ \E k, v : m_value' = [m_value EXCEPT ![k] = v]
    BY <1>1 DEF Step, TestDirty, Calculate, Lock, Store, Clear, Return, Get, cache
  <2>2. result' = result \/ \E v : result' = [result EXCEPT ![r] = v]
    BY <1>1 DEF Step, TestDirty, Calculate, Lock, Store, Clear, Return, Get
  <2>3. m_value' = [k \in Kinds |-> m_value'[k]]
    BY <2>1 DEF Shape
  <2>4. result' = [q \in Readers |-> result'[q]]
    BY <2>2 DEF Shape
  <2> QED
    BY <2>3, <2>4 DEF Shape
<1>2. ASSUME UNCHANGED <<m_value, result>>
      PROVE  Shape'
  BY <1>2 DEF Shape
<1> QED
  BY <1>1, <1>2 DEF Next, Add, SetN, Reset, vars, cache, readers

\* Every step keeps the series at the latest values that were added.
LEMMA WindowStep ==
    ASSUME TypeOK, WindowIsLatest, [Next]_vars
    PROVE  WindowIsLatest'
<1> m_n \in Nat /\ m_n' \in Nat /\ added \in Nat /\ base \in 0..added
  <2>1. TypeOK'
    BY TypeStep
  <2> QED
    BY <2>1, SeriesAssumption DEF TypeOK
<1>1. ASSUME UNCHANGED <<series, added, resizing, base>>
      PROVE  WindowIsLatest'
  BY <1>1 DEF WindowIsLatest, series
<1>2. CASE Add
  <2>1. CASE resizing
    BY <1>2, <2>1 DEF Add, WindowIsLatest
  <2>2. CASE ~resizing
    <3>1. PICK l \in 0..added : l = added - base
      OBVIOUS
    <3>2. m_data = Latest(added, Shown(l, m_n))
      BY <2>2, <3>1 DEF WindowIsLatest, Latest, Shown
    <3>3. m_data' = Slid(m_data, added + 1, m_n)
      BY <1>2 DEF Add, Trim, Slid
    <3>4. m_data' = Latest(added + 1, Shown(l + 1, m_n))
      BY <3>1, <3>2, <3>3, WindowSlides
    <3>5. added' = added + 1 /\ m_n' = m_n /\ added' - base' = l + 1
      BY <1>2, <3>1 DEF Add
    <3> QED
      BY <3>4, <3>5 DEF WindowIsLatest, Latest, Shown
  <2> QED
    BY <2>1, <2>2
<1>3. ASSUME NEW n \in Windows, SetN(n)
      PROVE  WindowIsLatest'
  BY <1>3 DEF SetN, WindowIsLatest
<1>4. CASE Reset
  <2>1. m_data' = <<>> /\ added' - base' = 0 /\ (IF 0 < m_n' THEN 0 ELSE m_n') = 0
    BY <1>4 DEF Reset, calls
  <2>2. <<>> = [i \in 1..0 |-> added' - 0 + i]
    OBVIOUS
  <2> QED
    BY <2>1, <2>2 DEF WindowIsLatest
<1>5. CASE \E r \in Readers : Step(r) \/ \E k \in Kinds : Get(r, k)
  BY <1>1, <1>5, ReadersLeaveTheSeries
<1>6. CASE UNCHANGED vars
  BY <1>1, <1>6 DEF vars, calls
<1> QED
  BY <1>2, <1>3, <1>4, <1>5, <1>6 DEF Next
-------------------------------------------------------------------------------
\* The two parts of Current: what is in the cache, and what a reader carries.
Cached == \A k \in Kinds : ~m_dirty[k] => m_value[k] = Fresh[k]

Carried(r) ==
    /\ pc[r] = "store" => result[r] = Fresh[Top(r)]
    /\ pc[r] = "clear" => m_value[Top(r)] = Fresh[Top(r)]
    /\ pc[r] = "return" /\ Holds(r) => m_value[Top(r)] = Fresh[Top(r)]

\* A reader that does not move carries what it did, when the cache is as it
\* was or got a fresh value.
LEMMA CarriedStays ==
    ASSUME StacksOK, UNCHANGED m_data, NEW r \in Readers, Carried(r),
           stack'[r] = stack[r], pc'[r] = pc[r], result'[r] = result[r],
           \A k \in Kinds : m_value'[k] = m_value[k] \/ m_value'[k] = Fresh[k]
    PROVE  Carried(r)'
<1>1. CASE pc[r] = "idle"
    BY <1>1 DEF Carried
<1>2. CASE pc[r] # "idle"
  <2>1. Top(r) \in Kinds /\ Top(r)' = Top(r) /\ Holds(r)' = Holds(r)
    BY <1>2, TopIsAKind DEF Top, Holds
  <2>2. Fresh[Top(r)]' = Fresh[Top(r)]
    BY <2>1, FreshStays
  <2> QED
    BY <2>1, <2>2 DEF Carried
<1> QED
    BY <1>1, <1>2

\* What is cached and not dirty stays right when the series stays and only
\* fresh values are stored.
LEMMA CachedStays ==
    ASSUME UNCHANGED m_data, Cached,
           \A k \in Kinds : m_value'[k] = m_value[k] \/ m_value'[k] = Fresh[k],
           \A k \in Kinds : m_dirty'[k] = m_dirty[k] \/ m_value'[k] = Fresh[k]
    PROVE  Cached'
<1>1. SUFFICES ASSUME NEW k \in Kinds, ~m_dirty'[k]
               PROVE  m_value'[k] = Fresh[k]'
    BY DEF Cached
<1>2. Fresh[k]' = Fresh[k]
    BY FreshStays
<1> QED
    BY <1>1, <1>2 DEF Cached

\* Whatever a reader does, the cache stays fresh and so does what is carried.
LEMMA ReaderKeepsCurrent ==
    ASSUME TypeOK, Shape, Cached, \A q \in Readers : Carried(q),
           NEW r \in Readers, Step(r) \/ \E k \in Kinds : Get(r, k)
    PROVE  Cached' /\ \A q \in Readers : Carried(q)'
<1> StacksOK
  BY TypesOfStacks
<1> UNCHANGED m_data
  BY ReadersLeaveTheSeries DEF series
<1> /\ stack \in [Readers -> Seq(Kinds)] /\ pc \in [Readers -> Stages]
    /\ result = [q \in Readers |-> result[q]] /\ m_value = [k \in Kinds |-> m_value[k]]
    /\ m_dirty \in [Kinds -> BOOLEAN]
  BY DEF StacksOK, Shape, TypeOK
<1>1. ASSUME \A k \in Kinds : m_value'[k] = m_value[k] \/ m_value'[k] = Fresh[k],
             \A k \in Kinds : m_dirty'[k] = m_dirty[k] \/ m_value'[k] = Fresh[k],
             \A q \in Readers \ {r} : stack'[q] = stack[q] /\ pc'[q] = pc[q]
                                      /\ result'[q] = result[q],
             Carried(r)'
      PROVE  Cached' /\ \A q \in Readers : Carried(q)'
  BY <1>1, CarriedStays, CachedStays
<1>2. ASSUME NEW k \in Kinds, Get(r, k)
      PROVE  Cached' /\ \A q \in Readers : Carried(q)'
  <2>1. Carried(r)'
    BY <1>2 DEF Get, Goto, Carried
  <2> QED
    BY <1>1, <1>2, <2>1 DEF Get, Goto, cache
<1>3. ASSUME TestDirty(r)
      PROVE  Cached' /\ \A q \in Readers : Carried(q)'
  <2>1. Top(r) \in Kinds /\ Top(r)' = Top(r) /\ Holds(r)' = Holds(r)
    BY <1>3, TopIsAKind DEF TestDirty, Goto, Top, Holds
  <2>2. Fresh[Top(r)]' = Fresh[Top(r)]
    BY <2>1, FreshStays
  <2>3. pc'[r] = (IF m_dirty[Top(r)] THEN "lock" ELSE "return") /\ m_value' = m_value
    BY <1>3 DEF TestDirty, Goto, cache
  <2>4. Carried(r)'
    BY <2>1, <2>2, <2>3 DEF Carried, Cached
  <2> QED
    BY <1>1, <1>3, <2>4 DEF TestDirty, Goto, cache
<1>4. ASSUME Calculate(r)
      PROVE  Cached' /\ \A q \in Readers : Carried(q)'
  <2> DEFINE value == Calculation(Top(r), Null)
             throws == value = <<Null>>
  <2>1. /\ pc' = [pc EXCEPT ![r] = IF throws THEN "idle" ELSE "store"]
        /\ result' = [result EXCEPT ![r] = IF throws THEN <<>> ELSE value]
        /\ stack' = IF throws THEN [stack EXCEPT ![r] = <<>>] ELSE stack
        /\ UNCHANGED cache
    BY <1>4 DEF Calculate, Goto
  <2>2. Top(r) \in Kinds
    BY <1>4, TopIsAKind DEF Calculate
  <2>3. value = Fresh[Top(r)]
    <3>1. CASE Inner(Top(r)) = Null
      BY <2>2, <3>1, FreshIsCalculated
    <3>2. CASE m_data = <<>>
      BY <2>2, <3>2, FreshIsCalculated DEF Calculation
    <3> QED
      BY <1>4, <3>1, <3>2 DEF Calculate, CallsInner
  <2> HIDE DEF value, throws
  <2>4. CASE throws
    <3>1. Carried(r)'
      BY <2>1, <2>4 DEF Carried
    <3> QED
      BY <1>1, <2>1, <2>4, <3>1 DEF cache
  <2>5. CASE ~throws
    <3>1. pc'[r] = "store" /\ result'[r] = value /\ stack' = stack
      BY <2>1, <2>5
    <3>2. Top(r)' = Top(r)
      BY <3>1 DEF Top
    <3>3. Fresh[Top(r)]' = Fresh[Top(r)]
      BY <2>2, <3>2, FreshStays
    <3>4. Carried(r)'
      BY <2>3, <3>1, <3>2, <3>3 DEF Carried
    <3> QED
      BY <1>1, <2>1, <2>5, <3>4 DEF cache
  <2> QED
    BY <2>4, <2>5
<1>5. ASSUME Lock(r)
      PROVE  Cached' /\ \A q \in Readers : Carried(q)'
  <2>1. Carried(r)'
    BY <1>5 DEF Lock, Goto, Carried
  <2> QED
    BY <1>1, <1>5, <2>1 DEF Lock, Goto, cache
<1>6. ASSUME Store(r)
      PROVE  Cached' /\ \A q \in Readers : Carried(q)'
  <2>1. Top(r) \in Kinds /\ Top(r)' = Top(r)
    BY <1>6, TopIsAKind DEF Store, Goto, Top
  <2>2. Fresh[Top(r)]' = Fresh[Top(r)]
    BY <2>1, FreshStays
  <2>3. /\ pc'[r] = "clear" /\ m_value'[Top(r)] = Fresh[Top(r)]
        /\ \A k \in Kinds \ {Top(r)} : m_value'[k] = m_value[k]
    BY <1>6, <2>1 DEF Store, Goto, Carried
  <2>4. Carried(r)'
    BY <2>1, <2>2, <2>3 DEF Carried
  <2> QED
    BY <1>1, <1>6, <2>3, <2>4 DEF Store, Goto
<1>7. ASSUME Clear(r)
      PROVE  Cached' /\ \A q \in Readers : Carried(q)'
  <2>1. Top(r) \in Kinds /\ Top(r)' = Top(r)
    BY <1>7, TopIsAKind DEF Clear, Goto, Top
  <2>2. Fresh[Top(r)]' = Fresh[Top(r)]
    BY <2>1, FreshStays
  <2>3. /\ pc'[r] = "return" /\ m_value' = m_value /\ m_value[Top(r)] = Fresh[Top(r)]
        /\ \A k \in Kinds \ {Top(r)} : m_dirty'[k] = m_dirty[k]
    BY <1>7, <2>1 DEF Clear, Goto, Carried
  <2>4. Carried(r)'
    BY <2>1, <2>2, <2>3 DEF Carried
  <2> QED
    BY <1>1, <1>7, <2>3, <2>4 DEF Clear, Goto
<1>8. ASSUME Return(r)
      PROVE  Cached' /\ \A q \in Readers : Carried(q)'
  <2> DEFINE outer == Front(stack[r])
             value == m_value[Top(r)]
  <2>1. stack[r] \in Seq(Kinds) /\ stack[r] # <<>> /\ InTurn(stack[r]) /\ Top(r) \in Kinds
    BY <1>8, TopIsAKind DEF Return, StacksOK
  <2>2. /\ pc' = [pc EXCEPT ![r] = IF outer = <<>> THEN "idle" ELSE "store"]
        /\ stack' = [stack EXCEPT ![r] = outer]
        /\ result' = [result EXCEPT ![r] =
                        IF outer = <<>> THEN <<>> ELSE Calculation(Last(outer), value)]
        /\ UNCHANGED cache
    BY <1>8 DEF Return, Goto
  <2>3. outer # <<>> => Holds(r) /\ Last(outer) \in Kinds
    BY <2>1, Taken DEF Holds
  <2>4. outer # <<>> => Top(r) = Inner(Last(outer))
    BY <2>1, TakenInTurn DEF Top
  <2> HIDE DEF outer
  <2>5. Carried(r)'
    <3>1. CASE outer = <<>>
      BY <2>2, <3>1 DEF Carried
    <3>2. CASE outer # <<>>
      <4>1. PICK k \in Kinds : k = Last(outer)
        BY <2>3, <3>2
      <4>2. value = Fresh[Inner(k)] /\ Inner(k) # Null
        BY <1>8, <2>1, <2>3, <2>4, <3>2, <4>1, SeriesAssumption DEF Return, Carried
      <4>3. Calculation(k, value) = Fresh[k]
        BY <4>2, FreshIsCalculated
      <4> HIDE DEF value
      <4>4. pc'[r] = "store" /\ stack'[r] = outer /\ result'[r] = Calculation(k, value)
        BY <2>2, <3>2, <4>1
      <4>5. Top(r)' = k
        BY <4>1, <4>4 DEF Top
      <4>6. Fresh[Top(r)]' = Fresh[k]
        BY <4>5, FreshStays
      <4> QED
        BY <4>3, <4>4, <4>6 DEF Carried
    <3> QED
      BY <3>1, <3>2
  <2> QED
    BY <1>1, <2>2, <2>5 DEF cache
<1> QED
  BY <1>2, <1>3, <1>4, <1>5, <1>6, <1>7, <1>8 DEF Step

\* Every step keeps a cache that is not dirty right, until a race.
LEMMA CurrentStep ==
    ASSUME TypeOK, Shape, Current, [Next]_vars
    PROVE  Current'
<1>1. Current <=> raced \/ (Cached /\ \A r \in Readers : Carried(r))
  BY DEF Current, Cached, Carried
<1>2. Current' <=> raced' \/ (Cached' /\ \A r \in Readers : Carried(r)')
  BY DEF Current, Cached, Carried
<1>3. ASSUME UNCHANGED <<m_data, cache, readers, raced>>
      PROVE  Current'
  <2>1. CASE raced
    BY <1>2, <1>3, <2>1
  <2>2. CASE ~raced
    <3>1. Cached'
      BY <1>1, <1>3, <2>2, CachedStays DEF cache
    <3>2. \A r \in Readers : Carried(r)'
      BY <1>1, <1>3, <2>2, CarriedStays, TypesOfStacks DEF cache, readers
    <3> QED
      BY <1>2, <3>1, <3>2
  <2> QED
    BY <2>1, <2>2
<1>4. ASSUME UniqueLock, MarkDirty, UNCHANGED readers
      PROVE  Current'
  <2>1. CASE raced'
    BY <1>2, <2>1
  <2>2. CASE ~raced'
    <3>1. Cached'
      BY <1>4 DEF MarkDirty, Cached
    <3>2. ASSUME NEW r \in Readers
          PROVE  Carried(r)'
      BY <1>4, <2>2 DEF UniqueLock, readers, Carried, Holds
    <3> QED
      BY <1>2, <3>1, <3>2
  <2> QED
    BY <2>1, <2>2
<1>5. ASSUME NEW r \in Readers, Step(r) \/ \E k \in Kinds : Get(r, k)
      PROVE  Current'
  BY <1>1, <1>2, <1>5, ReaderKeepsCurrent, ReadersLeaveTheSeries
<1>6. CASE Add \/ Reset
  BY <1>4, <1>6 DEF Add, Reset
<1>7. ASSUME NEW n \in Windows, SetN(n)
      PROVE  Current'
  BY <1>3, <1>7 DEF SetN
<1>8. CASE UNCHANGED vars
  BY <1>3, <1>8 DEF vars, series
<1> QED
  BY <1>5, <1>6, <1>7, <1>8 DEF Next

-------------------------------------------------------------------------------
\* The inductive invariant holds initially.
LEMMA InvInit == Init => Inv
<1> SUFFICES ASSUME Init
             PROVE  Inv
  OBVIOUS
<1> USE DEF Init
<1>1. TypeOK
  <2>1. m_data \in Seq(1..MaxAdds) /\ <<>> \in Seq(Kinds)
    BY EmptySeq
  <2>2. StacksOK
    BY <2>1 DEF StacksOK, Stages, InTurn
  <2>3. RestOK
    <3>1. m_dirty \in [Kinds -> BOOLEAN] /\ resizing \in BOOLEAN /\ raced \in BOOLEAN
      OBVIOUS
    <3>2. /\ m_n \in Windows
          /\ added \in 0..MaxAdds /\ resets \in 0..MaxResets /\ gets \in 0..MaxGets
          /\ base \in 0..added
      BY SeriesAssumption
    <3> QED
      BY <2>1, <3>1, <3>2 DEF RestOK
  <2> QED
    BY <2>2, <2>3 DEF TypeOK, StacksOK, RestOK, Stages, InTurn
<1>2. Shape
  BY DEF Shape
<1>3. WindowIsLatest
  <2>1. (IF added - base < m_n THEN added - base ELSE m_n) = 0
    BY SeriesAssumption
  <2>2. m_data = [i \in 1..0 |-> added - 0 + i]
    OBVIOUS
  <2> QED
    BY <2>1, <2>2 DEF WindowIsLatest
<1>4. Current
  BY DEF Current
<1> QED
  BY <1>1, <1>2, <1>3, <1>4 DEF Inv

\* Every step keeps the inductive invariant.
LEMMA InvStep == Inv /\ [Next]_vars => Inv'
    BY TypeStep, ShapeStep, WindowStep, CurrentStep DEF Inv

\* The inductive invariant.
THEOREM Invariance == Spec => []Inv
    BY InvInit, InvStep, PTL DEF Spec

\* Every stack of calls is that of a calculation that asked for its inner
\* statistic, and a reader outside get() has none.
THEOREM Typing == Spec => []TypeOK
<1>1. Inv => TypeOK
  BY DEF Inv
<1> QED
  BY Invariance, <1>1, PTL

\* data_series::add and reset: the series is the latest m_n of the values
\* added since it was cleared, for any window, also one that is reset smaller.
THEOREM SeriesIsTheWindow == Spec => []WindowIsLatest
<1>1. Inv => WindowIsLatest
  BY DEF Inv
<1> QED
  BY Invariance, <1>1, PTL

\* cached_value::get and mark_dirty: for any number of readers, a value that
\* is not dirty is that of the present data unless add() or reset() came
\* between a calculation and the end of its get().
THEOREM CacheIsCurrent == Spec => []StaleOnlyByRace
<1>1. Inv => StaleOnlyByRace
  BY DEF Inv, Current, StaleOnlyByRace
<1> QED
  BY Invariance, <1>1, PTL
===============================================================================
