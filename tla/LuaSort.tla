------------------------------ MODULE LuaSort -------------------------------
(***************************************************************************)
(* table.sort (src/libs/liblua/src/ltablib.c), one comparison a step: the  *)
(* order function is a Lua function, which may answer anything, look at    *)
(* the table, or leave the sort with an error at any call.                 *)
(***************************************************************************)
EXTENDS Integers, Sequences, FiniteSets

CONSTANTS Arrays,      \* the tables to be sorted, sequences of numbers
          RANLIMIT,    \* from this size the pivot may be random
          BALANCE,     \* 128: how much larger the larger part may be
          Randoms      \* what l_randomizePivot may give

ASSUME SortAssumption == /\ Arrays \subseteq Seq(Int)
                         /\ RANLIMIT \in Nat /\ RANLIMIT >= 4
                         /\ BALANCE \in Nat \ {0}
                         /\ Randoms \subseteq Nat

VARIABLES a,        \* the table
          given,    \* what it held
          ordered,  \* the order function is an order
          pc,       \* the comparison that comes next
          lo, up, rnd, calls,     \* auxsort, and the loops that called it
          p, i, j, P              \* its pivot, and partition

svars == <<a, given, ordered, pc, lo, up, rnd, calls, p, i, j, P>>

Swapped(s, x, y) == [s EXCEPT ![x] = s[y], ![y] = s[x]]

\* sort_comp: the answers to x < y.
sort_comp(x, y) == IF ordered THEN {x < y} ELSE BOOLEAN

\* The head of the loop of auxsort over an interval: with at most one element
\* it returns.
Enter(interval, stack) ==
    /\ calls' = stack
    /\ IF interval.lo < interval.up
       THEN pc' = "ends" /\ lo' = interval.lo /\ up' = interval.up /\ rnd' = interval.rnd
       ELSE pc' = "return" /\ UNCHANGED <<lo, up, rnd>>

Returns == pc' = "return" /\ UNCHANGED <<lo, up, rnd, calls>>

\* The loop that called it goes on, or sort is done.
Return ==
    /\ pc = "return"
    /\ IF calls = <<>> THEN pc' = "done" /\ UNCHANGED <<lo, up, rnd, calls>>
       ELSE Enter(calls[Len(calls)], SubSeq(calls, 1, Len(calls) - 1))
    /\ UNCHANGED <<a, given, ordered, p, i, j, P>>

\* "a[up] < a[lo]?"
Ends ==
    /\ pc = "ends"
    /\ \E less \in sort_comp(a[up], a[lo]) : a' = IF less THEN Swapped(a, lo, up) ELSE a
    /\ IF up - lo = 1
       THEN Returns /\ UNCHANGED p
       ELSE /\ pc' = "low"
            /\ p' = IF up - lo < RANLIMIT \/ rnd = 0 THEN (lo + up) \div 2
                    ELSE (rnd % (((up - lo) \div 4) * 2)) + lo + ((up - lo) \div 4)
            /\ UNCHANGED <<lo, up, rnd, calls>>
    /\ UNCHANGED <<given, ordered, i, j, P>>

\* The pivot goes to a[up - 1] and partition begins.
ToPartition(s) ==
    /\ a' = Swapped(s, p, up - 1)
    /\ P' = s[p]
    /\ i' = lo + 1 /\ j' = up - 1
    /\ pc' = "i"
    /\ UNCHANGED <<lo, up, rnd, calls>>

Leave(s) == a' = s /\ Returns /\ UNCHANGED <<i, j, P>>

\* "a[p] < a[lo]?"
Low ==
    /\ pc = "low"
    /\ \E less \in sort_comp(a[p], a[lo]) :
           IF ~less THEN pc' = "high" /\ UNCHANGED <<a, i, j, P, lo, up, rnd, calls>>
           ELSE IF up - lo = 2 THEN Leave(Swapped(a, p, lo))
           ELSE ToPartition(Swapped(a, p, lo))
    /\ UNCHANGED <<given, ordered, p>>

\* "a[up] < a[p]?"
High ==
    /\ pc = "high"
    /\ \E less \in sort_comp(a[up], a[p]) :
           LET s == IF less THEN Swapped(a, p, up) ELSE a
           IN  IF up - lo = 2 THEN Leave(s) ELSE ToPartition(s)
    /\ UNCHANGED <<given, ordered, p>>

Fails == pc' = "error" /\ UNCHANGED <<a, i, j, lo, up, rnd, calls, p>>

\* "repeat ++i while a[i] < P"
Up ==
    /\ pc = "i"
    /\ \E less \in sort_comp(a[i], P) :
           IF ~less
           THEN pc' = "j" /\ j' = j - 1 /\ UNCHANGED <<a, i, lo, up, rnd, calls, p>>
           ELSE IF i = up - 1 THEN Fails
           ELSE i' = i + 1 /\ UNCHANGED <<a, pc, j, lo, up, rnd, calls, p>>
    /\ UNCHANGED <<given, ordered, P>>

\* Fault: the loop of auxsort goes on with the bounds it had.
Split_SameBounds(q) ==
    IF q - lo < up - q THEN <<[lo |-> lo, up |-> q - 1], [lo |-> lo, up |-> up]>>
    ELSE <<[lo |-> q + 1, up |-> up], [lo |-> lo, up |-> up]>>

\* After partition: the interval sorted by a recursive call, and the one
\* that the loop goes on with.
Split(q) ==
    IF q - lo < up - q THEN <<[lo |-> lo, up |-> q - 1], [lo |-> q + 1, up |-> up]>>
    ELSE <<[lo |-> q + 1, up |-> up], [lo |-> lo, up |-> q - 1]>>

Divide(q) ==
    \E r \in Randoms :
        LET part == Split(q)
            n == part[1].up - part[1].lo + 1
            size == part[2].up - part[2].lo
            unbalanced == size < 0 \/ size \div BALANCE > n   \* an empty rest wraps around
            rest == [lo |-> part[2].lo, up |-> part[2].up, rnd |-> IF unbalanced THEN r ELSE rnd]
        IN  /\ unbalanced \/ r = CHOOSE x \in Randoms : TRUE
            /\ Enter([lo |-> part[1].lo, up |-> part[1].up, rnd |-> rnd], Append(calls, rest))

\* Fault: the pivot stays at its place when the indices have crossed.
Crossed_NoSwap(s) == s

\* "swap pivot (a[up - 1]) with a[i]"
Crossed(s) == Swapped(s, up - 1, i)

\* "repeat --j while P < a[j]"
Down ==
    /\ pc = "j"
    /\ \E less \in sort_comp(P, a[j]) :
           IF less
           THEN IF j < i THEN Fails
                ELSE j' = j - 1 /\ UNCHANGED <<a, pc, i, lo, up, rnd, calls, p>>
           ELSE IF j < i THEN a' = Crossed(a) /\ Divide(i) /\ UNCHANGED <<i, j, p>>
           ELSE /\ a' = Swapped(a, i, j)
                /\ pc' = "i" /\ i' = i + 1
                /\ UNCHANGED <<j, lo, up, rnd, calls, p>>
    /\ UNCHANGED <<given, ordered, P>>

\* The order function raises an error of its own.
Raised ==
    /\ pc \notin {"return", "done", "error"} /\ ~ordered
    /\ pc' = "error"
    /\ UNCHANGED <<a, given, ordered, lo, up, rnd, calls, p, i, j, P>>

sort(s) ==
    /\ a = s /\ given = s
    /\ ordered \in BOOLEAN
    /\ pc = IF Len(s) > 1 THEN "ends" ELSE "done"
    /\ lo = 1 /\ up = Len(s) /\ rnd = 0 /\ calls = <<>>
    /\ p = 0 /\ i = 0 /\ j = 0 /\ P = 0

SortInit == \E s \in Arrays : sort(s)
SortNext == Ends \/ Low \/ High \/ Up \/ Down \/ Return \/ Raised

SortSpec == SortInit /\ [][SortNext]_svars

Count(s, x) == Cardinality({k \in DOMAIN s : s[k] = x})

\* With an order, the table ends sorted, and sort does not complain of the
\* order (auxsort, partition).
SortedAtEnd ==
    ordered => /\ pc # "error"
               /\ pc = "done" => \A k \in 1..(Len(a) - 1) : a[k] <= a[k + 1]

\* Whatever the order function answers, at each of its calls the table holds
\* the values it was given, and sort looks at no element outside the table
\* (partition counts on its checks of i and j, for an order that is none).
SortKeepsItems ==
    /\ \A x \in {given[k] : k \in DOMAIN given} : Count(a, x) = Count(given, x)
    /\ 1 <= lo /\ up <= Len(a)
    /\ pc \in {"low", "high"} => lo < p /\ p < up
    /\ pc \in {"i", "j"} => lo < i /\ i < up /\ lo <= j /\ j < up

\* table.sort sorts, and an order function that is none can do no harm to the
\* table.
SortSorts == SortedAtEnd /\ SortKeepsItems

\* Sort ends, whatever the order function answers.
SortEnds == <>(pc \in {"done", "error"})
=============================================================================
