------------------------------ MODULE UpperMatrix -----------------------------
(***************************************************************************)
(* muonpi::upper_matrix: one element for every pair of two different       *)
(* indices, column after column in one vector.  To tell where an element   *)
(* belongs, every index gets a label, and the element put at a pair of     *)
(* indices is the set of their labels; {} is T{}.                          *)
(***************************************************************************)
EXTENDS Integers, Sequences, FiniteSets, SequencesExt

CONSTANTS
    MaxColumns,     \* bound: indices
    MaxLabels       \* bound: indices in all

ASSUME MatrixAssumption == MaxColumns \in Nat /\ MaxLabels \in Nat

VARIABLES
    m_columns, m_elements,
    labels,         \* history: the label of each index
    used,           \* history: the labels given out
    placed,         \* history: the elements put into the matrix
    shuffled        \* history: swap_last was called for an index before the last two

matrixVars == <<m_columns, m_elements, labels, used, placed, shuffled>>

Size(n) == (n * n - n) \div 2

\* upper_matrix(n), upper_matrix()
MatrixInit ==
    /\ m_columns \in 0..MaxColumns
    /\ m_elements = [i \in 1..Size(m_columns) |-> {}]
    /\ labels = [i \in 1..m_columns |-> i]
    /\ used = m_columns
    /\ placed = {}
    /\ shuffled = FALSE

\* position(x, y), from 1 on as sequences are.
Position(x, y) ==
    LET x_c == IF x > y THEN x ELSE y
        y_c == IF x > y THEN y ELSE x
    IN  Size(x_c) + y_c + 1

\* resize()
Resize(elements, n) ==
    [i \in 1..Size(n) |-> IF i <= Len(elements) THEN elements[i] ELSE {}]

Exchange(elements, pair) ==
    [elements EXCEPT ![pair[1]] = elements[pair[2]], ![pair[2]] = elements[pair[1]]]

\* The two loops of swap_last(first) in a matrix of n columns, in their order.
Swapped(elements, n, first) ==
    LET last == n - 1
        rows == [y \in 1..first |-> <<Position(first, y - 1), Position(last, y - 1)>>]
        columns == [i \in 1..last - first |->
                      <<Position(first + i, first), Position(last, first + i - 1)>>]
    IN  FoldLeft(Exchange, elements, rows \o columns)

SwapLabels(s, n, first) == [s EXCEPT ![first + 1] = s[n], ![n] = s[first + 1]]

SwapLast(first) ==
    /\ first < m_columns
    /\ m_elements' = Swapped(m_elements, m_columns, first)
    /\ labels' = SwapLabels(labels, m_columns, first)
    /\ shuffled' = (shuffled \/ first < m_columns - 2)
    /\ UNCHANGED <<m_columns, used, placed>>

Emplace(x, y) ==
    /\ x # y /\ x < m_columns /\ y < m_columns
    /\ LET item == {labels[x + 1], labels[y + 1]}
       IN  /\ m_elements' = [m_elements EXCEPT ![Position(x, y)] = item]
           /\ placed' = placed \cup {item}
    /\ UNCHANGED <<m_columns, labels, used, shuffled>>

\* increase()
Increase ==
    /\ m_columns < MaxColumns /\ used < MaxLabels
    /\ m_columns' = m_columns + 1
    /\ m_elements' = Resize(m_elements, m_columns + 1)
    /\ used' = used + 1
    /\ labels' = Append(labels, used + 1)
    /\ UNCHANGED <<placed, shuffled>>

\* Mutant: the column is cut off before it is swapped.
RemoveUnswapped(index) ==
    /\ index < m_columns
    /\ m_columns' = m_columns - 1
    /\ m_elements' = Resize(m_elements, m_columns - 1)
    /\ labels' = Front(SwapLabels(labels, m_columns, index))
    /\ shuffled' = (shuffled \/ index < m_columns - 2)
    /\ UNCHANGED <<used, placed>>

\* remove_index(index): unless it is the last, it is swapped with the last,
\* cut off with it, and swapped with the new last.
RemoveIndex(index) ==
    LET n == m_columns - 1
        cut == Resize(Swapped(m_elements, m_columns, index), n)
    IN  /\ index < m_columns
        /\ m_columns' = n
        /\ m_elements' = IF index < n THEN Swapped(cut, n, index) ELSE Resize(m_elements, n)
        /\ labels' = LET kept == Front(SwapLabels(labels, m_columns, index))
                     IN  IF index < n THEN SwapLabels(kept, n, index) ELSE kept
        /\ shuffled' = (shuffled \/ index < m_columns - 2)
        /\ UNCHANGED <<used, placed>>

\* reset()
ResetMatrix ==
    /\ m_columns' = 0
    /\ m_elements' = <<>>
    /\ labels' = <<>>
    /\ UNCHANGED <<used, placed, shuffled>>

MatrixNext ==
    \/ Increase
    \/ ResetMatrix
    \/ \E x \in 0..MaxColumns - 1 :
        SwapLast(x) \/ RemoveIndex(x) \/ \E y \in 0..MaxColumns - 1 : Emplace(x, y)

MatrixSpec == MatrixInit /\ [][MatrixNext]_matrixVars

-------------------------------------------------------------------------------
\* at(x, y) is the element of the two indices, and no other pair's, through
\* increase(), and through removals and swaps of the last two indices.  (For
\* an index before them the swaps of swap_last disturb each other.)
ElementsStayInPlace ==
    shuffled \/
    \A x \in 1..m_columns - 1 : \A y \in 0..x - 1 :
        LET pair == {labels[x + 1], labels[y + 1]}
        IN  m_elements[Position(x, y)] = IF pair \in placed THEN pair ELSE {}

\* The comment in remove_index: it deletes the elements associated with the
\* index.
RemovedIsGone == \A i \in DOMAIN m_elements : m_elements[i] \subseteq ToSet(labels)
===============================================================================
