------------------------------- MODULE Histogram ------------------------------
(***************************************************************************)
(* muonpi::histogram: m_n bins of one width from m_lower on.  Values are   *)
(* integers, and so is the width, as for an integral T; where the bounds   *)
(* divide evenly it is also what a floating point T computes.              *)
(***************************************************************************)
EXTENDS Integers, FiniteSets, Functions

CONSTANTS
    Sizes,          \* numbers of bins
    Bounds,         \* lower and upper bounds
    BinWidths,
    Values,         \* what is added
    MaxValues       \* bound: values inside the bounds

ASSUME HistogramAssumption ==
    /\ Sizes \subseteq Nat \ {0}
    /\ Bounds \cup BinWidths \cup Values \subseteq Int
    /\ IsFiniteSet(Values)
    /\ MaxValues \in Nat

VARIABLES
    m_lower, m_upper, m_width, m_n, m_bins,
    inside,         \* history: how often each value was added within the bounds since the last reset
    wild            \* a bin that does not exist was written to, or i divided by 0

shape == <<m_lower, m_upper, m_width, m_n>>
histogramVars == <<shape, m_bins, inside, wild>>

SumOver(counts, S) == FoldFunctionOnSet(LAMBDA count, sum : sum + count, 0, counts, S)
SumOf(counts) == SumOver(counts, DOMAIN counts)

Empty(n) == [i \in 0..n - 1 |-> 0]

\* The three constructors: of n bins alone, of a width, and between bounds.
HistogramInit ==
    /\ m_n \in Sizes
    /\ \/ m_lower = 0 /\ m_upper = 0 /\ m_width = 0
       \/ m_lower = 0 /\ m_width \in BinWidths /\ m_upper = m_width * m_n
       \/ /\ m_lower \in Bounds /\ m_upper \in Bounds /\ m_lower < m_upper
          /\ m_width = (m_upper - m_lower) \div m_n
    /\ m_bins = Empty(m_n)
    /\ inside = [v \in Values |-> 0]
    /\ wild = FALSE

\* Mutant: a value on a bound between two bins goes to the lower one.
IndexBelow(value) == (value - m_lower - 1) \div m_width

Index(value) == (value - m_lower) \div m_width

Add(value) ==
    /\ ~wild
    /\ m_lower <= value /\ value < m_upper
    /\ SumOf(inside) < MaxValues
    /\ inside' = [inside EXCEPT ![value] = @ + 1]
    /\ IF m_width # 0 /\ Index(value) \in DOMAIN m_bins
       THEN m_bins' = [m_bins EXCEPT ![Index(value)] = @ + 1] /\ UNCHANGED wild
       ELSE wild' = TRUE /\ UNCHANGED m_bins
    /\ UNCHANGED shape

\* add() of a value outside the bounds returns.
AddOutside(value) ==
    /\ ~wild
    /\ value < m_lower \/ m_upper <= value
    /\ UNCHANGED histogramVars

\* reset()
Clear(n) ==
    /\ ~wild
    /\ m_bins' = Empty(n)
    /\ inside' = [v \in Values |-> 0]
    /\ UNCHANGED wild

ResetBins == Clear(m_n) /\ UNCHANGED shape

\* reset(n) keeps the bounds and the width.
ResetSize(n) == m_n' = n /\ Clear(n) /\ UNCHANGED <<m_lower, m_upper, m_width>>

ResetWidth(n, width) ==
    /\ m_n' = n /\ m_lower' = 0 /\ m_upper' = width * n /\ m_width' = width
    /\ Clear(n)

ResetBounds(n, lower, upper) ==
    /\ m_n' = n /\ m_lower' = lower /\ m_upper' = upper
    /\ m_width' = (upper - lower) \div n
    /\ Clear(n)

HistogramNext ==
    \/ \E value \in Values : Add(value) \/ AddOutside(value)
    \/ ResetBins
    \/ \E n \in Sizes :
        \/ ResetSize(n)
        \/ \E width \in BinWidths : ResetWidth(n, width)
        \/ \E lower, upper \in Bounds : lower < upper /\ ResetBounds(n, lower, upper)

HistogramSpec == HistogramInit /\ [][HistogramNext]_histogramVars

-------------------------------------------------------------------------------
\* integral()
Integral == SumOf(m_bins)

\* qualified_bins()
Lower(i) == m_lower + i * m_width
Upper(i) == Lower(i) + m_width

\* Mutant: the bin is passed although its count already suffices.
PercentileBeyond(edge) ==
    LET Upto(i) == SumOver(m_bins, 0..i)
        reached == {i \in DOMAIN m_bins : Upto(i) > edge}
    IN  IF reached = {} THEN m_upper
        ELSE Lower(CHOOSE i \in reached : \A j \in reached : i <= j)

\* percentile(), from the number of values its argument comes to.
Percentile(edge) ==
    LET Upto(i) == SumOver(m_bins, 0..i)
        reached == {i \in DOMAIN m_bins : Upto(i) >= edge}
    IN  IF reached = {} THEN m_upper
        ELSE Lower(CHOOSE i \in reached : \A j \in reached : i <= j)

Among(lower, upper) == SumOver(inside, {v \in Values : lower <= v /\ v < upper})

\* Every value inside the bounds is counted in the bin whose bounds, as
\* qualified_bins() reports them, hold it: on the bound between two bins in
\* the upper one.  A bin that does not exist is written to only where the
\* bins do not reach up to m_upper: after a reset(n) that kept the width, or
\* when an integral width was rounded down.
BinsCount ==
    /\ wild => m_n * m_width < m_upper - m_lower
    /\ ~wild =>
        /\ \A i \in DOMAIN m_bins : m_bins[i] = Among(Lower(i), Upper(i))
        /\ Integral = SumOf(inside)

\* percentile() of a share of the values names the first bin up to whose end
\* that many of them lie.
PercentileCounts ==
    ~wild => \A edge \in 1..SumOf(inside) :
        LET p == Percentile(edge)
        IN  Among(m_lower, p) < edge /\ Among(m_lower, p + m_width) >= edge
===============================================================================
