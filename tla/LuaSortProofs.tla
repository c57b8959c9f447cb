--------------------------- MODULE LuaSortProofs ---------------------------
(***************************************************************************)
(* Proofs about module LuaSort for tables of every length: table.sort      *)
(* sorts, and no order function can make it harm the table.                *)
(***************************************************************************)
EXTENDS LuaSort, FiniteSetTheorems, FunctionTheorems, SequenceTheorems, TLAPS

Interval == [lo : Int, up : Int, rnd : Nat]

(* auxsort is at work on the interval from lo to up. *)
Working == pc \in {"ends", "low", "high", "i", "j"}

Typed ==
  /\ a \in Seq(Int) /\ given \in Seq(Int) /\ Len(a) = Len(given)
  /\ ordered \in BOOLEAN
  /\ Working \/ pc \in {"return", "done", "error"}
  /\ lo \in Int /\ up \in Int /\ rnd \in Nat
  /\ 1 <= lo /\ up <= Len(a)
  /\ calls \in Seq(Interval)
  /\ \A n \in 1 .. Len(calls) : 1 <= calls[n].lo /\ calls[n].up <= Len(a)
  /\ p \in Int /\ i \in Int /\ j \in Int /\ P \in Int

(* Where the indices are; the checks of partition keep them there. *)
Bounded ==
  /\ Working => lo < up
  /\ pc \in {"low", "high"} => up - lo >= 2 /\ lo < p /\ p < up
  /\ pc \in {"i", "j"} => up - lo >= 3 /\ lo < i /\ i < up
  /\ pc = "i" => lo < j /\ j < up
  /\ pc = "j" => lo <= j /\ j < up - 1

(* s has the values that sort was given. *)
Holds(s) == \A x \in Int : Count(s, x) = Count(given, x)

(* No loop of the stack c sorts an element from l to u, and no two loops sort *)
(* the same element.                                                          *)
Clear(c, l, u) == \A n \in 1 .. Len(c), k \in Int :
                     ~(l <= k /\ k <= u /\ c[n].lo <= k /\ k <= c[n].up)
Disjoint(c) == \A m, n \in 1 .. Len(c), k \in Int :
                  m # n => ~(c[m].lo <= k /\ k <= c[m].up /\ c[n].lo <= k /\ k <= c[n].up)

Apart == Disjoint(calls) /\ (Working => Clear(calls, lo, up))

(* A loop of the stack c will sort x and y. *)
Waits(c, x, y) == \E n \in 1 .. Len(c) : c[n].lo <= x /\ y <= c[n].up

(* Two elements of s are in order unless they will be sorted: by a loop of the *)
(* stack c or, if there is one, by the loop at work from l to u.               *)
Settled(s, c) == \A x, y \in 1 .. Len(s) : x < y /\ ~Waits(c, x, y) => s[x] <= s[y]
Rest(s, c, l, u) == \A x, y \in 1 .. Len(s) :
                      x < y /\ ~(l <= x /\ y <= u) /\ ~Waits(c, x, y) => s[x] <= s[y]

(* With an order, what the loops know of the table. *)
InOrder ==
  ordered =>
    /\ pc # "error"
    /\ Working => Rest(a, calls, lo, up)
    /\ pc \in {"return", "done"} => Settled(a, calls)
    /\ pc = "done" => calls = <<>>
    /\ pc \in {"low", "high"} => a[lo] <= a[up]
    /\ pc = "high" => a[lo] <= a[p]
    /\ pc \in {"i", "j"} =>
         /\ a[up - 1] = P
         /\ \A k \in lo .. i - 1 : a[k] <= P
         /\ \A k \in j + 1 .. up : P <= a[k]
    /\ pc = "i" => P <= a[j]
    /\ pc = "j" => P <= a[i]

IInv == Typed /\ Bounded /\ Holds(a) /\ Apart /\ InOrder

(* A table that the loop at work may leave: no value is lost, and what it does *)
(* not sort is as it was.                                                      *)
Fine(s) == /\ s \in Seq(Int) /\ Len(s) = Len(a)
           /\ Holds(s)
           /\ ordered => Rest(s, calls, lo, up)
-----------------------------------------------------------------------------
(* An exchange of two elements. *)
LEMMA SwappedIs ==
  ASSUME NEW s \in Seq(Int), NEW x \in 1 .. Len(s), NEW y \in 1 .. Len(s)
  PROVE  /\ Swapped(s, x, y) \in Seq(Int)
         /\ Len(Swapped(s, x, y)) = Len(s)
         /\ Swapped(s, x, y)[x] = s[y] /\ Swapped(s, x, y)[y] = s[x]
         /\ \A k \in 1 .. Len(s) : k # x /\ k # y => Swapped(s, x, y)[k] = s[k]
BY DEF Swapped

(* It loses no value. *)
LEMMA SwapKeeps ==
  ASSUME NEW s \in Seq(Int), NEW x \in 1 .. Len(s), NEW y \in 1 .. Len(s), NEW v \in Int
  PROVE  Count(Swapped(s, x, y), v) = Count(s, v)
<1> DEFINE t == Swapped(s, x, y)
           S == {k \in DOMAIN s : s[k] = v}
           T == {k \in DOMAIN t : t[k] = v}
           f == [k \in S |-> IF k = x THEN y ELSE IF k = y THEN x ELSE k]
<1>1. /\ DOMAIN s = 1 .. Len(s) /\ DOMAIN t = 1 .. Len(s)
      /\ t[x] = s[y] /\ t[y] = s[x]
      /\ \A k \in 1 .. Len(s) : k # x /\ k # y => t[k] = s[k]
  BY SwappedIs
<1> HIDE DEF t
<1>2. IsFiniteSet(S)
  <2>1. IsFiniteSet(1 .. Len(s))
    BY FS_Interval
  <2> QED BY <1>1, <2>1, FS_Subset
<1>3. f \in [S -> T]
  BY <1>1
<1>4. \A k, m \in S : f[k] = f[m] => k = m
  OBVIOUS
<1>5. \A m \in T : \E k \in S : f[k] = m
  <2> TAKE m \in T
  <2>1. CASE m = x
    <3>1. y \in S /\ f[y] = x
      BY <1>1, <2>1
    <3> QED BY <2>1, <3>1
  <2>2. CASE m = y
    <3>1. x \in S /\ f[x] = y
      BY <1>1, <2>2
    <3> QED BY <2>2, <3>1
  <2>3. CASE m # x /\ m # y
    <3>1. m \in S /\ f[m] = m
      BY <1>1, <2>3
    <3> QED BY <3>1
  <2> QED BY <2>1, <2>2, <2>3
<1>6. f \in Bijection(S, T)
  BY <1>3, <1>4, <1>5, Fun_IsBij
<1>7. Cardinality(T) = Cardinality(S)
  BY <1>2, <1>6, FS_Bijection DEF ExistsBijection
<1> QED BY <1>7 DEF Count, t

(* A loop that waits has bounds and a random number. *)
LEMMA StackType ==
  ASSUME NEW c \in Seq(Interval), NEW n \in 1 .. Len(c)
  PROVE  c[n] \in Interval /\ c[n].lo \in Int /\ c[n].up \in Int /\ c[n].rnd \in Nat
<1>1. c[n] \in Interval
  OBVIOUS
<1> QED BY <1>1 DEF Interval

(* Within the interval at work an exchange leaves the rest as it was: the    *)
(* interval shares no element with one that waits.                           *)
LEMMA Exchange ==
  ASSUME Typed, Apart, Working, NEW s \in Seq(Int), Len(s) = Len(a),
         NEW x \in lo .. up, NEW y \in lo .. up, Rest(s, calls, lo, up)
  PROVE  Rest(Swapped(s, x, y), calls, lo, up)
<1> DEFINE t == Swapped(s, x, y)
           g(k) == IF k = x THEN y ELSE IF k = y THEN x ELSE k
<1>1. /\ lo \in Int /\ up \in Int /\ 1 <= lo /\ up <= Len(s)
      /\ \A n \in 1 .. Len(calls) : calls[n].lo \in Int /\ calls[n].up \in Int
  BY StackType DEF Typed
<1>0. Clear(calls, lo, up)
  BY DEF Apart
<1>2. /\ t \in Seq(Int) /\ Len(t) = Len(s)
      /\ \A k \in 1 .. Len(s) : t[k] = s[g(k)]
  <2>1. x \in 1 .. Len(s) /\ y \in 1 .. Len(s)
    BY <1>1
  <2>2. /\ t \in Seq(Int) /\ Len(t) = Len(s) /\ t[x] = s[y] /\ t[y] = s[x]
        /\ \A k \in 1 .. Len(s) : k # x /\ k # y => t[k] = s[k]
    BY <2>1, SwappedIs
  <2> HIDE DEF t
  <2> QED BY <2>2
<1> HIDE DEF t
<1>3. \A k \in 1 .. Len(s) : /\ g(k) \in 1 .. Len(s)
                             /\ k \in lo .. up => g(k) \in lo .. up
                             /\ k \notin lo .. up => g(k) = k
  BY <1>1
<1> HIDE DEF g
<1>4. ASSUME NEW u \in 1 .. Len(s), NEW v \in 1 .. Len(s),
             u < v, ~(lo <= u /\ v <= up), ~Waits(calls, u, v)
      PROVE  t[u] <= t[v]
  <2>1. CASE u \notin lo .. up /\ v \notin lo .. up
    BY <1>1, <1>2, <1>3, <1>4, <2>1 DEF Rest
  <2>2. CASE u \in lo .. up
    <3>1. v > up /\ g(v) = v /\ g(u) \in lo .. up /\ g(u) < v
      BY <1>1, <1>3, <1>4, <2>2
    <3>2. ~Waits(calls, g(u), v)
      <4>1. SUFFICES ASSUME NEW n \in 1 .. Len(calls),
                            calls[n].lo <= g(u), v <= calls[n].up
                     PROVE  FALSE
        BY DEF Waits
      <4>2. calls[n].lo \in Int /\ calls[n].up \in Int /\ g(u) \in Int
        BY <1>1, <3>1
      <4>3. lo <= g(u) /\ g(u) <= up /\ calls[n].lo <= g(u) /\ g(u) <= calls[n].up
        BY <1>1, <3>1, <4>1, <4>2
      <4> QED BY <1>0, <4>2, <4>3 DEF Clear
    <3>3. s[g(u)] <= s[v]
      <4>1. g(u) \in 1 .. Len(s) /\ ~(lo <= g(u) /\ v <= up)
        BY <1>1, <1>3, <3>1
      <4> QED BY <3>1, <3>2, <4>1 DEF Rest
    <3> QED BY <1>2, <3>1, <3>3
  <2>3. CASE v \in lo .. up
    <3>1. u < lo /\ g(u) = u /\ g(v) \in lo .. up /\ u < g(v)
      BY <1>1, <1>3, <1>4, <2>3
    <3>2. ~Waits(calls, u, g(v))
      <4>1. SUFFICES ASSUME NEW n \in 1 .. Len(calls),
                            calls[n].lo <= u, g(v) <= calls[n].up
                     PROVE  FALSE
        BY DEF Waits
      <4>2. calls[n].lo \in Int /\ calls[n].up \in Int /\ g(v) \in Int
        BY <1>1, <3>1
      <4>3. lo <= g(v) /\ g(v) <= up /\ calls[n].lo <= g(v) /\ g(v) <= calls[n].up
        BY <1>1, <3>1, <4>1, <4>2
      <4> QED BY <1>0, <4>2, <4>3 DEF Clear
    <3>3. s[u] <= s[g(v)]
      <4>1. g(v) \in 1 .. Len(s) /\ ~(lo <= u /\ g(v) <= up)
        BY <1>1, <1>3, <3>1
      <4> QED BY <3>1, <3>2, <4>1 DEF Rest
    <3> QED BY <1>2, <3>1, <3>3
  <2> QED BY <2>1, <2>2, <2>3
<1> QED BY <1>2, <1>4 DEF Rest, t

(* What is fine stays so when two elements of the interval change places. *)
LEMMA SwapFine ==
  ASSUME Typed, Apart, Working, NEW s, Fine(s), NEW x \in lo .. up, NEW y \in lo .. up
  PROVE  Fine(Swapped(s, x, y))
<1>1. s \in Seq(Int) /\ Len(s) = Len(a) /\ Holds(s)
  BY DEF Fine
<1>2. x \in 1 .. Len(s) /\ y \in 1 .. Len(s)
  BY <1>1 DEF Typed
<1>3. Swapped(s, x, y) \in Seq(Int) /\ Len(Swapped(s, x, y)) = Len(a)
  BY <1>1, <1>2, SwappedIs
<1>4. Holds(Swapped(s, x, y))
  BY <1>1, <1>2, SwapKeeps DEF Holds
<1>5. ordered => Rest(Swapped(s, x, y), calls, lo, up)
  BY <1>1, Exchange DEF Fine
<1> QED BY <1>3, <1>4, <1>5 DEF Fine

(* The table that a loop has may be left as it is. *)
LEMMA TableFine ==
  ASSUME IInv, Working
  PROVE  Fine(a)
BY DEF IInv, Typed, InOrder, Fine

(* What the order function answers. *)
LEMMA Answer ==
  ASSUME ordered \in BOOLEAN, NEW x \in Int, NEW y \in Int, NEW less \in sort_comp(x, y)
  PROVE  less \in BOOLEAN /\ (ordered => (less <=> x < y))
<1>1. CASE ordered
  <2>1. sort_comp(x, y) = {x < y}
    BY <1>1, Zenon DEF sort_comp
  <2>2. less = (x < y)
    BY <2>1, Zenon
  <2>3. (x < y) \in BOOLEAN
    OBVIOUS
  <2> QED BY <2>2, <2>3, Zenon
<1>2. CASE ~ordered
  <2>1. sort_comp(x, y) = BOOLEAN
    BY <1>2, Zenon DEF sort_comp
  <2>2. less \in BOOLEAN
    BY <2>1, Zenon
  <2> QED BY <1>2, <2>2, Zenon
<1> QED BY <1>1, <1>2

(* The stack without its top. *)
LEMMA Popped ==
  ASSUME NEW S, NEW s \in Seq(S), s # <<>>
  PROVE  LET t == SubSeq(s, 1, Len(s) - 1)
         IN  /\ t \in Seq(S) /\ Len(t) = Len(s) - 1
             /\ \A n \in 1 .. Len(t) : n \in 1 .. Len(s) /\ t[n] = s[n] /\ n # Len(s)
             /\ Len(s) \in 1 .. Len(s) /\ s[Len(s)] \in S
<1>1. Len(s) \in Nat \ {0} /\ \A n \in 1 .. Len(s) : s[n] \in S
  BY EmptySeq
<1>2. /\ SubSeq(s, 1, Len(s) - 1) \in Seq(S)
      /\ Len(SubSeq(s, 1, Len(s) - 1)) = Len(s) - 1
      /\ \A n \in 1 .. Len(s) - 1 : SubSeq(s, 1, Len(s) - 1)[n] = s[n]
  <2>1. Len(s) - 1 \in Nat /\ \A n \in 1 .. Len(s) - 1 : s[n] \in S
    BY <1>1
  <2> DEFINE m == Len(s) - 1
  <2>2. m \in Nat /\ \A n \in 1 .. m : s[n] \in S
    BY <2>1
  <2> HIDE DEF m
  <2>3. /\ SubSeq(s, 1, m) \in Seq(S)
        /\ Len(SubSeq(s, 1, m)) = IF 1 <= m THEN m - 1 + 1 ELSE 0
        /\ \A n \in 1 .. m - 1 + 1 : SubSeq(s, 1, m)[n] = s[1 + n - 1]
    BY <2>2, SubSeqProperties
  <2>4. Len(SubSeq(s, 1, m)) = m
    BY <2>2, <2>3
  <2>5. m - 1 + 1 = m /\ \A n \in 1 .. m : 1 + n - 1 = n
    BY <2>2
  <2>6. \A n \in 1 .. m : SubSeq(s, 1, m)[n] = s[n]
    BY <2>3, <2>5
  <2> QED BY <2>3, <2>4, <2>6 DEF m
<1> QED BY <1>1, <1>2

(* A step of the loop at work: what is left to show when it goes on. *)
LEMMA GoesOn ==
  ASSUME IInv, Working, NEW s, Fine(s), a' = s,
         UNCHANGED <<given, ordered, lo, up, rnd, calls>>,
         Working',
         p' \in Int, i' \in Int, j' \in Int, P' \in Int
  PROVE  /\ Typed' /\ Holds(a)' /\ Apart'
         /\ ordered' => Rest(a, calls, lo, up)'
<1>1. Typed'
  BY DEF IInv, Typed, Fine
<1>2. Holds(a)'
  BY DEF Fine, Holds
<1>3. Apart'
  BY DEF IInv, Apart, Disjoint, Clear
<1>4. ordered' => Rest(a, calls, lo, up)'
  BY DEF Fine, Rest, Waits
<1> QED BY <1>1, <1>2, <1>3, <1>4

(* The loop returns with its interval in order. *)
LEMMA Leaves ==
  ASSUME IInv, Working, NEW s, Fine(s), a' = s,
         Returns, UNCHANGED <<given, ordered, i, j, P>>, p' \in Int,
         ordered => \A x, y \in lo .. up : x < y => s[x] <= s[y]
  PROVE  IInv'
<1>0. Typed /\ pc' = "return" /\ ~Working' /\ UNCHANGED <<lo, up, rnd, calls>>
  BY DEF IInv, Returns, Working
<1>1. Typed'
  BY <1>0 DEF Typed, Fine
<1>2. Bounded'
  BY <1>0 DEF Bounded
<1>3. Holds(a)'
  BY DEF Fine, Holds
<1>4. Apart'
  BY <1>0 DEF IInv, Apart, Disjoint
<1>5. ASSUME ordered
      PROVE  Settled(s, calls)
  BY <1>0, <1>5 DEF Typed, Fine, Rest, Settled
<1>6. ASSUME ordered
      PROVE  Settled(a, calls)'
  BY <1>0, <1>5, <1>6 DEF Settled, Waits
<1>7. InOrder'
  BY <1>0, <1>6 DEF InOrder
<1> QED BY <1>1, <1>2, <1>3, <1>4, <1>7 DEF IInv

(* choosePivot and the middle both give a pivot between the ends.            *)
LEMMA PivotInside ==
  ASSUME NEW l \in Int, NEW u \in Int, u - l >= 2, NEW r \in Nat
  PROVE  LET q == IF u - l < RANLIMIT \/ r = 0 THEN (l + u) \div 2
                  ELSE (r % (((u - l) \div 4) * 2)) + l + ((u - l) \div 4)
         IN  q \in Int /\ l < q /\ q < u
<1>1. (l + u) \div 2 \in Int /\ l < (l + u) \div 2 /\ (l + u) \div 2 < u
  OBVIOUS
<1>2. ASSUME u - l >= RANLIMIT
      PROVE  LET q == (r % (((u - l) \div 4) * 2)) + l + ((u - l) \div 4)
             IN  q \in Int /\ l < q /\ q < u
  <2> DEFINE r4 == (u - l) \div 4
  <2>1. r4 \in Nat /\ r4 >= 1 /\ 4 * r4 <= u - l
    BY <1>2, SortAssumption
  <2> HIDE DEF r4
  <2>2. r4 * 2 \in Nat /\ r4 * 2 > 0
    BY <2>1
  <2> DEFINE w == r4 * 2
  <2>3. r % w \in 0 .. w - 1
    <3> HIDE DEF w
    <3> QED BY <2>2 DEF w
  <2>4. r % (r4 * 2) \in Int /\ 0 <= r % (r4 * 2) /\ r % (r4 * 2) < r4 * 2
    BY <2>2, <2>3
  <2>5. LET q == (r % (r4 * 2)) + l + r4 IN q \in Int /\ l < q /\ q < u
    BY <2>1, <2>4
  <2> QED BY <2>5 DEF r4
<1> QED BY <1>1, <1>2, SortAssumption

(* The two ends are put in order, and the loop returns or chooses a pivot. *)
LEMMA EndsKeeps ==
  ASSUME IInv, Ends
  PROVE  IInv'
<1>0. pc = "ends" /\ Working /\ lo < up /\ Typed /\ Apart
  BY DEF IInv, Ends, Working, Bounded
<1>1. lo \in lo .. up /\ up \in lo .. up /\ a[lo] \in Int /\ a[up] \in Int
      /\ lo \in 1 .. Len(a) /\ up \in 1 .. Len(a)
  BY <1>0 DEF Typed
<1>2. PICK less \in sort_comp(a[up], a[lo]) : a' = IF less THEN Swapped(a, lo, up) ELSE a
  BY DEF Ends
<1>3. less \in BOOLEAN /\ (ordered => (less <=> a[up] < a[lo]))
  BY <1>0, <1>1, Answer DEF Typed
<1>4. Fine(a) /\ Fine(Swapped(a, lo, up))
  BY <1>0, <1>1, TableFine, SwapFine
<1>5. Fine(a') /\ (ordered => a'[lo] <= a'[up])
  <2>1. CASE less
    <3>1. a' = Swapped(a, lo, up)
      BY <1>2, <2>1
    <3>2. a'[lo] = a[up] /\ a'[up] = a[lo]
      BY <1>0, <1>1, <3>1, SwappedIs DEF Typed
    <3> QED BY <1>1, <1>3, <1>4, <2>1, <3>1, <3>2
  <2>2. CASE ~less
    BY <1>1, <1>2, <1>3, <1>4, <2>2
  <2> QED BY <1>3, <2>1, <2>2
<1>6. CASE up - lo = 1
  <2>1. Returns /\ UNCHANGED <<given, ordered, i, j, P, p>>
    BY <1>6 DEF Ends
  <2>2. \A x, y \in lo .. up : x < y => x = lo /\ y = up
    BY <1>0, <1>6 DEF Typed
  <2>3. p' \in Int /\ (ordered => \A x, y \in lo .. up : x < y => a'[x] <= a'[y])
    BY <1>0, <1>5, <2>1, <2>2 DEF Typed
  <2> QED BY <1>0, <1>5, <2>1, <2>3, Leaves
<1>7. CASE up - lo # 1
  <2>1. /\ pc' = "low" /\ UNCHANGED <<given, ordered, i, j, P, lo, up, rnd, calls>>
        /\ p' = IF up - lo < RANLIMIT \/ rnd = 0 THEN (lo + up) \div 2
                ELSE (rnd % (((up - lo) \div 4) * 2)) + lo + ((up - lo) \div 4)
    BY <1>7 DEF Ends
  <2>2. lo \in Int /\ up \in Int /\ rnd \in Nat /\ up - lo >= 2
    BY <1>0, <1>7 DEF Typed
  <2>3. p' \in Int /\ lo < p' /\ p' < up
    BY <2>1, <2>2, PivotInside
  <2>4. Working' /\ i' \in Int /\ j' \in Int /\ P' \in Int
    BY <1>0, <2>1 DEF Working, Typed
  <2>5. /\ Typed' /\ Holds(a)' /\ Apart'
        /\ ordered' => Rest(a, calls, lo, up)'
    BY <1>0, <1>5, <2>1, <2>3, <2>4, GoesOn
  <2>6. Bounded'
    BY <1>0, <2>1, <2>2, <2>3 DEF Bounded
  <2>7. InOrder'
    BY <1>5, <2>1, <2>5 DEF InOrder
  <2> QED BY <2>5, <2>6, <2>7 DEF IInv
<1> QED BY <1>6, <1>7

(* The pivot s[p] goes to its place before the upper end, and partition begins. *)
LEMMA PartitionBegins ==
  ASSUME IInv, pc \in {"low", "high"}, up - lo # 2, NEW s, Fine(s),
         ordered => s[lo] <= s[p] /\ s[p] <= s[up],
         ToPartition(s), UNCHANGED <<given, ordered, p>>
  PROVE  IInv'
<1>0. Working /\ Typed /\ Apart
  BY DEF IInv, Working
<1>1. /\ lo \in Int /\ up \in Int /\ p \in Int /\ up - lo >= 3 /\ lo < p /\ p < up
      /\ s \in Seq(Int) /\ Len(s) = Len(a) /\ 1 <= lo /\ up <= Len(s)
  BY <1>0 DEF IInv, Bounded, Typed, Fine
<1>2. p \in lo .. up /\ up - 1 \in lo .. up /\ p \in 1 .. Len(s) /\ up - 1 \in 1 .. Len(s)
      /\ lo \in 1 .. Len(s) /\ up \in 1 .. Len(s)
  BY <1>1
<1> DEFINE t == Swapped(s, p, up - 1)
<1>3. Fine(t)
  BY <1>0, <1>2, SwapFine
<1>4. t[up - 1] = s[p] /\ t[lo] = s[lo] /\ t[up] = s[up]
  <2>1. /\ t[p] = s[up - 1] /\ t[up - 1] = s[p]
        /\ \A k \in 1 .. Len(s) : k # p /\ k # up - 1 => t[k] = s[k]
    BY <1>1, <1>2, SwappedIs
  <2> HIDE DEF t
  <2> QED BY <1>1, <1>2, <2>1
<1>5. /\ a' = t /\ P' = s[p] /\ i' = lo + 1 /\ j' = up - 1 /\ pc' = "i"
      /\ UNCHANGED <<lo, up, rnd, calls>>
  BY DEF ToPartition
<1> HIDE DEF t
<1>6. s[p] \in Int /\ s[lo] \in Int /\ s[up] \in Int
  BY <1>1, <1>2
<1>7. Working' /\ p' \in Int /\ i' \in Int /\ j' \in Int /\ P' \in Int
  BY <1>1, <1>5, <1>6 DEF Working
<1>8. /\ Typed' /\ Holds(a)' /\ Apart'
      /\ ordered' => Rest(a, calls, lo, up)'
  BY <1>0, <1>3, <1>5, <1>7, GoesOn
<1>9. Bounded'
  BY <1>1, <1>5 DEF Bounded
<1>10. ASSUME ordered
       PROVE  /\ a'[up' - 1] = P'
              /\ \A k \in lo' .. i' - 1 : a'[k] <= P'
              /\ \A k \in j' + 1 .. up' : P' <= a'[k]
              /\ P' <= a'[j']
  <2>1. \A k \in lo' .. i' - 1 : k = lo
    BY <1>1, <1>5
  <2>2. \A k \in j' + 1 .. up' : k = up
    BY <1>1, <1>5
  <2>3. a'[up - 1] = P' /\ a'[lo] <= P' /\ P' <= a'[up] /\ P' <= a'[up - 1]
    BY <1>4, <1>5, <1>6, <1>10
  <2>4. up' - 1 = up - 1 /\ j' = up - 1
    BY <1>5
  <2> QED BY <2>1, <2>2, <2>3, <2>4
<1>11. InOrder'
  BY <1>5, <1>8, <1>10 DEF InOrder
<1> QED BY <1>8, <1>9, <1>11 DEF IInv

(* After the three comparisons of the ends and the pivot, in order. *)
LEMMA ThreeInOrder ==
  ASSUME IInv, pc \in {"low", "high"}, NEW s, Fine(s),
         ordered => s[lo] <= s[p] /\ s[p] <= s[up],
         IF up - lo = 2 THEN Leave(s) ELSE ToPartition(s),
         UNCHANGED <<given, ordered, p>>
  PROVE  IInv'
<1>0. Working /\ Typed
  BY DEF IInv, Working
<1>1. CASE up - lo = 2
  <2>1. lo \in Int /\ up \in Int /\ p \in Int /\ lo < p /\ p < up /\ 1 <= lo /\ up <= Len(s)
        /\ s \in Seq(Int)
    BY <1>0 DEF IInv, Bounded, Typed, Fine
  <2>2. \A x, y \in lo .. up : x < y => (x = lo /\ y = p) \/ (x = p /\ y = up) \/ (x = lo /\ y = up)
    <3>1. up = lo + 2 /\ p = lo + 1
      BY <1>1, <2>1
    <3>2. SUFFICES ASSUME NEW x \in lo .. up, NEW y \in lo .. up, x < y
                   PROVE  (x = lo /\ y = p) \/ (x = p /\ y = up) \/ (x = lo /\ y = up)
      OBVIOUS
    <3> QED BY <2>1, <3>1, <3>2
  <2>3. s[lo] \in Int /\ s[p] \in Int /\ s[up] \in Int
    BY <2>1
  <2>4. ordered => \A x, y \in lo .. up : x < y => s[x] <= s[y]
    BY <2>2, <2>3
  <2>5. a' = s /\ Returns /\ UNCHANGED <<i, j, P>>
    BY <1>1 DEF Leave
  <2> QED BY <1>0, <2>1, <2>4, <2>5, Leaves
<1>2. CASE up - lo # 2
  BY <1>2, PartitionBegins
<1> QED BY <1>1, <1>2

(* The pivot and the lower end are put in order. *)
LEMMA LowKeeps ==
  ASSUME IInv, Low
  PROVE  IInv'
<1>0. pc = "low" /\ Working /\ Typed /\ Apart /\ UNCHANGED <<given, ordered, p>>
  BY DEF IInv, Low, Working
<1>1. /\ lo \in Int /\ up \in Int /\ p \in Int /\ lo < p /\ p < up /\ up - lo >= 2
      /\ 1 <= lo /\ up <= Len(a) /\ a \in Seq(Int)
  BY <1>0 DEF IInv, Bounded, Typed
<1>2. /\ p \in lo .. up /\ lo \in lo .. up
      /\ p \in 1 .. Len(a) /\ lo \in 1 .. Len(a) /\ up \in 1 .. Len(a)
  BY <1>1
<1>3. a[p] \in Int /\ a[lo] \in Int /\ a[up] \in Int
  BY <1>1, <1>2
<1>4. ordered => a[lo] <= a[up]
  BY <1>0 DEF IInv, InOrder
<1> DEFINE t == Swapped(a, p, lo)
<1>5. PICK less \in sort_comp(a[p], a[lo]) :
           IF ~less THEN pc' = "high" /\ UNCHANGED <<a, i, j, P, lo, up, rnd, calls>>
           ELSE IF up - lo = 2 THEN Leave(t) ELSE ToPartition(t)
  BY DEF Low
<1>6. less \in BOOLEAN /\ (ordered => (less <=> a[p] < a[lo]))
  BY <1>0, <1>3, Answer DEF Typed
<1>7. Fine(a) /\ Fine(t)
  BY <1>0, <1>2, TableFine, SwapFine
<1>8. CASE less
  <2>1. t[p] = a[lo] /\ t[lo] = a[p] /\ t[up] = a[up]
    <3>1. t[p] = a[lo] /\ t[lo] = a[p]
          /\ \A k \in 1 .. Len(a) : k # p /\ k # lo => t[k] = a[k]
      BY <1>1, <1>2, SwappedIs
    <3> HIDE DEF t
    <3> QED BY <1>1, <1>2, <3>1
  <2> HIDE DEF t
  <2>2. ordered => t[lo] <= t[p] /\ t[p] <= t[up]
    BY <1>3, <1>4, <1>6, <1>8, <2>1
  <2>3. IF up - lo = 2 THEN Leave(t) ELSE ToPartition(t)
    BY <1>5, <1>8
  <2> QED BY <1>0, <1>7, <2>2, <2>3, ThreeInOrder
<1>9. CASE ~less
  <2>1. pc' = "high" /\ UNCHANGED <<a, i, j, P, lo, up, rnd, calls>>
    BY <1>5, <1>9
  <2>2. Working' /\ p' \in Int /\ i' \in Int /\ j' \in Int /\ P' \in Int
    BY <1>0, <2>1 DEF Working, Typed
  <2>3. /\ Typed' /\ Holds(a)' /\ Apart'
        /\ ordered' => Rest(a, calls, lo, up)'
    BY <1>0, <1>7, <2>1, <2>2, GoesOn
  <2>4. Bounded'
    BY <1>0, <1>1, <2>1 DEF Bounded
  <2>5. ordered => a[lo] <= a[p]
    BY <1>3, <1>6, <1>9
  <2>6. InOrder'
    BY <1>0, <1>4, <2>1, <2>3, <2>5 DEF InOrder
  <2> QED BY <2>3, <2>4, <2>6 DEF IInv
<1> QED BY <1>6, <1>8, <1>9

(* The upper end and the pivot are put in order; the loop returns, or partition begins. *)
LEMMA HighKeeps ==
  ASSUME IInv, High
  PROVE  IInv'
<1>0. pc = "high" /\ Working /\ Typed /\ Apart /\ UNCHANGED <<given, ordered, p>>
  BY DEF IInv, High, Working
<1>1. /\ lo \in Int /\ up \in Int /\ p \in Int /\ lo < p /\ p < up
      /\ 1 <= lo /\ up <= Len(a) /\ a \in Seq(Int)
  BY <1>0 DEF IInv, Bounded, Typed
<1>2. /\ p \in lo .. up /\ up \in lo .. up
      /\ p \in 1 .. Len(a) /\ lo \in 1 .. Len(a) /\ up \in 1 .. Len(a)
  BY <1>1
<1>3. a[p] \in Int /\ a[lo] \in Int /\ a[up] \in Int
  BY <1>1, <1>2
<1>4. ordered => a[lo] <= a[up] /\ a[lo] <= a[p]
  BY <1>0 DEF IInv, InOrder
<1> DEFINE t == Swapped(a, p, up)
<1>5. PICK less \in sort_comp(a[up], a[p]) :
           LET s == IF less THEN t ELSE a
           IN  IF up - lo = 2 THEN Leave(s) ELSE ToPartition(s)
  BY DEF High
<1>6. less \in BOOLEAN /\ (ordered => (less <=> a[up] < a[p]))
  BY <1>0, <1>3, Answer DEF Typed
<1>7. Fine(a) /\ Fine(t)
  BY <1>0, <1>2, TableFine, SwapFine
<1>8. CASE less
  <2>1. t[p] = a[up] /\ t[up] = a[p] /\ t[lo] = a[lo]
    <3>1. t[p] = a[up] /\ t[up] = a[p]
          /\ \A k \in 1 .. Len(a) : k # p /\ k # up => t[k] = a[k]
      BY <1>1, <1>2, SwappedIs
    <3> HIDE DEF t
    <3> QED BY <1>1, <1>2, <3>1
  <2> HIDE DEF t
  <2>2. ordered => t[lo] <= t[p] /\ t[p] <= t[up]
    BY <1>3, <1>4, <1>6, <1>8, <2>1
  <2>3. IF up - lo = 2 THEN Leave(t) ELSE ToPartition(t)
    BY <1>5, <1>8
  <2> QED BY <1>0, <1>7, <2>2, <2>3, ThreeInOrder
<1>9. CASE ~less
  <2>1. IF up - lo = 2 THEN Leave(a) ELSE ToPartition(a)
    BY <1>5, <1>9
  <2>2. ordered => a[lo] <= a[p] /\ a[p] <= a[up]
    BY <1>3, <1>4, <1>6, <1>9
  <2> QED BY <1>0, <1>7, <2>1, <2>2, ThreeInOrder
<1> QED BY <1>6, <1>8, <1>9

(* Sort ends with an error, which an order never causes. *)
LEMMA Stops ==
  ASSUME IInv, ~ordered, pc' = "error",
         UNCHANGED <<a, given, ordered, lo, up, rnd, calls, p, i, j, P>>
  PROVE  IInv'
<1>1. Typed' /\ Bounded' /\ Apart'
  BY DEF IInv, Typed, Bounded, Apart, Disjoint, Working
<1>2. Holds(a)' /\ InOrder'
  BY DEF IInv, Holds, InOrder
<1> QED BY <1>1, <1>2 DEF IInv

(* "repeat ++i": what i passes is at most P. With an order i cannot pass the  *)
(* place of the pivot, which is P itself.                                     *)
LEMMA UpKeeps ==
  ASSUME IInv, Up
  PROVE  IInv'
<1>0. pc = "i" /\ Working /\ Typed /\ Apart /\ UNCHANGED <<given, ordered, P>>
  BY DEF IInv, Up, Working
<1>1. /\ lo \in Int /\ up \in Int /\ i \in Int /\ j \in Int /\ P \in Int /\ up - lo >= 3
      /\ lo < i /\ i < up /\ lo < j /\ j < up /\ 1 <= lo /\ up <= Len(a) /\ a \in Seq(Int)
  BY <1>0 DEF IInv, Bounded, Typed
<1>2. a[i] \in Int /\ a[j] \in Int
  BY <1>1
<1>3. ordered => /\ a[up - 1] = P /\ P <= a[j]
                 /\ \A k \in lo .. i - 1 : a[k] <= P
                 /\ \A k \in j + 1 .. up : P <= a[k]
  BY <1>0 DEF IInv, InOrder
<1>4. PICK less \in sort_comp(a[i], P) :
           IF ~less
           THEN pc' = "j" /\ j' = j - 1 /\ UNCHANGED <<a, i, lo, up, rnd, calls, p>>
           ELSE IF i = up - 1 THEN Fails
           ELSE i' = i + 1 /\ UNCHANGED <<a, pc, j, lo, up, rnd, calls, p>>
  BY DEF Up
<1>5. less \in BOOLEAN /\ (ordered => (less <=> a[i] < P))
  BY <1>0, <1>1, <1>2, Answer DEF Typed
<1>6. Fine(a)
  BY <1>0, TableFine
<1>7. CASE ~less
  <2>1. pc' = "j" /\ j' = j - 1 /\ UNCHANGED <<a, i, lo, up, rnd, calls, p>>
    BY <1>4, <1>7
  <2>2. Working' /\ p' \in Int /\ i' \in Int /\ j' \in Int /\ P' \in Int
    BY <1>0, <1>1, <2>1 DEF Working, Typed
  <2>3. /\ Typed' /\ Holds(a)' /\ Apart'
        /\ ordered' => Rest(a, calls, lo, up)'
    BY <1>0, <1>6, <2>1, <2>2, GoesOn
  <2>4. Bounded'
    BY <1>1, <2>1 DEF Bounded
  <2>5. ASSUME ordered
        PROVE  P <= a[i] /\ \A k \in j - 1 + 1 .. up : P <= a[k]
    <3>1. \A k \in j - 1 + 1 .. up : k = j \/ k \in j + 1 .. up
      BY <1>1
    <3> QED BY <1>1, <1>2, <1>3, <1>5, <1>7, <2>5, <3>1
  <2>6. InOrder'
    BY <1>0, <1>3, <2>1, <2>3, <2>5 DEF InOrder
  <2> QED BY <2>3, <2>4, <2>6 DEF IInv
<1>8. CASE less /\ i = up - 1
  <2>1. ~ordered
    BY <1>1, <1>3, <1>5, <1>8
  <2>2. pc' = "error" /\ UNCHANGED <<a, i, j, lo, up, rnd, calls, p>>
    BY <1>4, <1>8 DEF Fails
  <2> QED BY <1>0, <2>1, <2>2, Stops
<1>9. CASE less /\ i # up - 1
  <2>1. pc' = "i" /\ i' = i + 1 /\ UNCHANGED <<a, j, lo, up, rnd, calls, p>>
    BY <1>0, <1>4, <1>9
  <2>2. Working' /\ p' \in Int /\ i' \in Int /\ j' \in Int /\ P' \in Int
    BY <1>0, <1>1, <2>1 DEF Working, Typed
  <2>3. /\ Typed' /\ Holds(a)' /\ Apart'
        /\ ordered' => Rest(a, calls, lo, up)'
    BY <1>0, <1>6, <2>1, <2>2, GoesOn
  <2>4. Bounded'
    BY <1>1, <1>9, <2>1 DEF Bounded
  <2>5. ASSUME ordered
        PROVE  \A k \in lo' .. i' - 1 : a'[k] <= P'
    <3>1. \A k \in lo' .. i' - 1 : k = i \/ k \in lo .. i - 1
      BY <1>1, <2>1
    <3>2. a' = a /\ P' = P
      BY <1>0, <2>1
    <3> QED BY <1>1, <1>2, <1>3, <1>5, <1>9, <2>5, <3>1, <3>2
  <2>6. InOrder'
    BY <1>0, <1>3, <2>1, <2>3, <2>5 DEF InOrder
  <2> QED BY <2>3, <2>4, <2>6 DEF IInv
<1> QED BY <1>5, <1>7, <1>8, <1>9

(* The order function raises an error. *)
LEMMA RaisedKeeps ==
  ASSUME IInv, Raised
  PROVE  IInv'
BY Stops DEF Raised
-----------------------------------------------------------------------------
(* A loop begins with an interval, or returns when it has no two elements. *)
LEMMA Begins ==
  ASSUME IInv, NEW v \in Interval, NEW c \in Seq(Interval), Enter(v, c),
         UNCHANGED <<given, ordered>>,
         a' \in Seq(Int), Len(a') = Len(a), Holds(a'),
         p' \in Int, i' \in Int, j' \in Int, P' \in Int,
         1 <= v.lo, v.up <= Len(a),
         \A n \in 1 .. Len(c) : 1 <= c[n].lo /\ c[n].up <= Len(a),
         Disjoint(c), Clear(c, v.lo, v.up),
         ordered => Rest(a', c, v.lo, v.up)
  PROVE  IInv'
<1>0. v.lo \in Int /\ v.up \in Int /\ v.rnd \in Nat /\ Typed
  BY DEF Interval, IInv
<1>1. calls' = c
  BY DEF Enter
<1>2. CASE v.lo < v.up
  <2>1. pc' = "ends" /\ lo' = v.lo /\ up' = v.up /\ rnd' = v.rnd /\ Working'
    BY <1>2 DEF Enter, Working
  <2>2. Typed'
    BY <1>0, <1>1, <2>1 DEF Typed
  <2>3. Bounded'
    BY <1>2, <2>1 DEF Bounded
  <2>4. Holds(a)'
    BY DEF Holds
  <2>5. Apart'
    BY <1>1, <2>1 DEF Apart, Disjoint, Clear
  <2>6. ordered' => Rest(a, calls, lo, up)'
    BY <1>1, <2>1 DEF Rest, Waits
  <2>7. InOrder'
    BY <2>1, <2>6 DEF InOrder
  <2> QED BY <2>2, <2>3, <2>4, <2>5, <2>7 DEF IInv
<1>3. CASE ~(v.lo < v.up)
  <2>1. pc' = "return" /\ UNCHANGED <<lo, up, rnd>> /\ ~Working'
    BY <1>3 DEF Enter, Working
  <2>2. Typed'
    BY <1>0, <1>1, <2>1 DEF Typed
  <2>3. Bounded'
    BY <2>1 DEF Bounded
  <2>4. Holds(a)'
    BY DEF Holds
  <2>5. Apart'
    BY <1>1, <2>1 DEF Apart, Disjoint
  <2>6. ASSUME ordered
        PROVE  Settled(a', c)
    <3>1. \A x, y \in 1 .. Len(a') : x < y => ~(v.lo <= x /\ y <= v.up)
      BY <1>0, <1>3
    <3> QED BY <2>6, <3>1 DEF Rest, Settled
  <2>7. ordered' => Settled(a, calls)'
    BY <1>1, <2>6 DEF Settled, Waits
  <2>8. InOrder'
    BY <2>1, <2>7 DEF InOrder
  <2> QED BY <2>2, <2>3, <2>4, <2>5, <2>8 DEF IInv
<1> QED BY <1>0, <1>2, <1>3

(* A loop returns, and the one on top of the stack goes on. *)
LEMMA ReturnKeeps ==
  ASSUME IInv, Return
  PROVE  IInv'
<1>0. pc = "return" /\ Typed /\ Apart /\ UNCHANGED <<a, given, ordered, p, i, j, P>>
  BY DEF IInv, Return
<1>1. CASE calls = <<>>
  <2>1. pc' = "done" /\ UNCHANGED <<lo, up, rnd, calls>>
    BY <1>1 DEF Return
  <2>2. Typed' /\ Bounded' /\ Apart'
    BY <1>0, <2>1 DEF Typed, Bounded, Apart, Disjoint, Working
  <2>3. Holds(a)'
    BY <1>0 DEF IInv, Holds
  <2>4. InOrder'
    BY <1>0, <1>1, <2>1 DEF IInv, InOrder, Settled, Waits, Working
  <2> QED BY <2>2, <2>3, <2>4 DEF IInv
<1>2. CASE calls # <<>>
  <2> DEFINE v == calls[Len(calls)]
             c == SubSeq(calls, 1, Len(calls) - 1)
  <2>1. Enter(v, c)
    BY <1>2 DEF Return
  <2>2. calls \in Seq(Interval) /\ \A n \in 1 .. Len(calls) : 1 <= calls[n].lo /\ calls[n].up <= Len(a)
    BY <1>0 DEF Typed
  <2>3. /\ c \in Seq(Interval) /\ Len(c) = Len(calls) - 1
        /\ \A n \in 1 .. Len(c) : n \in 1 .. Len(calls) /\ c[n] = calls[n] /\ n # Len(calls)
        /\ Len(calls) \in 1 .. Len(calls) /\ v \in Interval
    BY <1>2, <2>2, Popped
  <2>4. /\ 1 <= v.lo /\ v.up <= Len(a)
        /\ \A n \in 1 .. Len(c) : 1 <= c[n].lo /\ c[n].up <= Len(a)
    BY <2>2, <2>3
  <2> HIDE DEF c
  <2>5. Disjoint(c) /\ Clear(c, v.lo, v.up)
    BY <1>0, <2>3 DEF Apart, Disjoint, Clear
  <2>6. ASSUME ordered
        PROVE  Rest(a, c, v.lo, v.up)
    <3>1. Settled(a, calls)
      BY <1>0, <2>6 DEF IInv, InOrder
    <3>2. ASSUME NEW x \in 1 .. Len(a), NEW y \in 1 .. Len(a),
                 ~(v.lo <= x /\ y <= v.up), ~Waits(c, x, y)
          PROVE  ~Waits(calls, x, y)
      <4>1. \A n \in 1 .. Len(calls) : n = Len(calls) \/ n \in 1 .. Len(c)
        BY <2>2, <2>3
      <4> QED BY <2>3, <3>2, <4>1 DEF Waits
    <3> QED BY <3>1, <3>2 DEF Settled, Rest
  <2> HIDE DEF v
  <2>7. a' = a /\ a' \in Seq(Int) /\ Holds(a') /\ p' \in Int /\ i' \in Int /\ j' \in Int /\ P' \in Int
    BY <1>0 DEF Typed, IInv
  <2> QED BY <1>0, <2>1, <2>3, <2>4, <2>5, <2>6, <2>7, Begins
<1> QED BY <1>1, <1>2

(* "swap pivot (a[up - 1]) with a[i]": then what is before i is at most the   *)
(* pivot and what is behind it at least, so that the two parts can be sorted  *)
(* alone, one at once and one by the loop that waits on the stack.            *)
LEMMA DivideKeeps ==
  ASSUME IInv, pc = "j", j < i, a' = Crossed(a), Divide(i),
         UNCHANGED <<given, ordered, P, i, j, p>>
  PROVE  IInv'
<1>0. Working /\ Typed /\ Apart
  BY DEF IInv, Working
<1>1. /\ lo \in Int /\ up \in Int /\ i \in Int /\ j \in Int /\ p \in Int /\ P \in Int
      /\ rnd \in Nat /\ lo < i /\ i < up /\ 1 <= lo /\ up <= Len(a) /\ a \in Seq(Int)
      /\ calls \in Seq(Interval)
      /\ \A n \in 1 .. Len(calls) : 1 <= calls[n].lo /\ calls[n].up <= Len(a)
  BY <1>0 DEF IInv, Bounded, Typed
<1>2. up - 1 \in lo .. up /\ i \in lo .. up /\ up - 1 \in 1 .. Len(a) /\ i \in 1 .. Len(a)
  BY <1>1
<1> DEFINE t == Swapped(a, up - 1, i)
<1>3. Fine(t) /\ a' = t
  BY <1>0, <1>2, TableFine, SwapFine DEF Crossed
<1>4. /\ t \in Seq(Int) /\ Len(t) = Len(a) /\ t[up - 1] = a[i] /\ t[i] = a[up - 1]
      /\ \A k \in 1 .. Len(a) : k # up - 1 /\ k # i => t[k] = a[k]
  BY <1>1, <1>2, SwappedIs
<1> HIDE DEF t
<1>5. ASSUME ordered, NEW x \in lo .. up, NEW y \in lo .. up, x < y, x <= i, i <= y
      PROVE  t[x] <= t[y]
  <2>1. /\ a[up - 1] = P /\ P <= a[i]
        /\ \A k \in lo .. i - 1 : a[k] <= P
        /\ \A k \in j + 1 .. up : P <= a[k]
    BY <1>0, <1>5 DEF IInv, InOrder
  <2>2. t[x] <= P
    <3>1. CASE x = i
      BY <1>1, <1>4, <2>1, <3>1
    <3>2. CASE x < i
      <4>1. x \in lo .. i - 1 /\ x \in 1 .. Len(a) /\ x # up - 1 /\ x # i
        BY <1>1, <3>2
      <4> QED BY <1>4, <2>1, <4>1
    <3> QED BY <1>1, <1>5, <3>1, <3>2
  <2>3. P <= t[y]
    <3>1. CASE y = up - 1
      <4>1. y = i \/ t[y] = a[i]
        BY <1>4, <3>1
      <4> QED BY <1>1, <1>4, <2>1, <3>1, <4>1
    <3>2. CASE y = i
      BY <1>1, <1>4, <2>1, <3>2
    <3>3. CASE y # up - 1 /\ y # i
      <4>1. y \in j + 1 .. up /\ y \in 1 .. Len(a)
        BY <1>1, <1>5, <3>3
      <4> QED BY <1>4, <2>1, <3>3, <4>1
    <3> QED BY <3>1, <3>2, <3>3
  <2>4. t[x] \in Int /\ t[y] \in Int
    <3>1. Len(t) = Len(a) /\ Len(a) \in Nat
      BY <1>1, <1>4
    <3>2. /\ lo \in Int /\ up \in Int /\ 1 <= lo /\ up <= Len(a)
          /\ x \in lo .. up /\ y \in lo .. up
      BY <1>1, <1>5
    <3>3. x \in 1 .. Len(t) /\ y \in 1 .. Len(t)
      BY <3>1, <3>2
    <3> QED BY <1>4, <3>3
  <2> QED BY <1>1, <2>2, <2>3, <2>4
<1>6. \E l1, u1, l2, u2 \in Int, r \in Nat :
         /\ \/ l1 = lo /\ u1 = i - 1 /\ l2 = i + 1 /\ u2 = up
            \/ l1 = i + 1 /\ u1 = up /\ l2 = lo /\ u2 = i - 1
         /\ Enter([lo |-> l1, up |-> u1, rnd |-> rnd],
                  Append(calls, [lo |-> l2, up |-> u2, rnd |-> r]))
  <2> DEFINE q == Split(i)
             unbalanced == \/ q[2].up - q[2].lo < 0
                           \/ (q[2].up - q[2].lo) \div BALANCE > q[1].up - q[1].lo + 1
  <2>1. PICK r \in Randoms :
           Enter([lo |-> q[1].lo, up |-> q[1].up, rnd |-> rnd],
                 Append(calls, [lo |-> q[2].lo, up |-> q[2].up,
                                rnd |-> IF unbalanced THEN r ELSE rnd]))
    BY DEF Divide
  <2>2. \E w \in Nat : w = IF unbalanced THEN r ELSE rnd
    <3> HIDE DEF unbalanced
    <3> QED BY <1>1, SortAssumption
  <2> HIDE DEF unbalanced
  <2>3. PICK w \in Nat : w = IF unbalanced THEN r ELSE rnd
    BY <2>2
  <2>4. Enter([lo |-> q[1].lo, up |-> q[1].up, rnd |-> rnd],
              Append(calls, [lo |-> q[2].lo, up |-> q[2].up, rnd |-> w]))
    BY <2>1, <2>3
  <2>5. \/ q[1].lo = lo /\ q[1].up = i - 1 /\ q[2].lo = i + 1 /\ q[2].up = up
        \/ q[1].lo = i + 1 /\ q[1].up = up /\ q[2].lo = lo /\ q[2].up = i - 1
    BY DEF Split
  <2> HIDE DEF q
  <2>6. q[1].lo \in Int /\ q[1].up \in Int /\ q[2].lo \in Int /\ q[2].up \in Int
    <3>1. lo \in Int /\ up \in Int /\ i - 1 \in Int /\ i + 1 \in Int
      BY <1>1
    <3>2. CASE q[1].lo = lo /\ q[1].up = i - 1 /\ q[2].lo = i + 1 /\ q[2].up = up
      BY <3>1, <3>2
    <3>3. CASE q[1].lo = i + 1 /\ q[1].up = up /\ q[2].lo = lo /\ q[2].up = i - 1
      BY <3>1, <3>3
    <3> QED BY <2>5, <3>2, <3>3
  <2> QED BY <2>3, <2>4, <2>5, <2>6
<1>7. PICK l1 \in Int, u1 \in Int, l2 \in Int, u2 \in Int, r \in Nat :
         /\ \/ l1 = lo /\ u1 = i - 1 /\ l2 = i + 1 /\ u2 = up
            \/ l1 = i + 1 /\ u1 = up /\ l2 = lo /\ u2 = i - 1
         /\ Enter([lo |-> l1, up |-> u1, rnd |-> rnd],
                  Append(calls, [lo |-> l2, up |-> u2, rnd |-> r]))
  BY <1>6
<1> DEFINE v == [lo |-> l1, up |-> u1, rnd |-> rnd]
           rest == [lo |-> l2, up |-> u2, rnd |-> r]
           c == Append(calls, rest)
<1>8. v \in Interval /\ rest \in Interval /\ v.lo = l1 /\ v.up = u1 /\ rest.lo = l2 /\ rest.up = u2
  BY <1>1 DEF Interval
<1>9. Enter(v, c)
  BY <1>7
<1> HIDE DEF v, rest
<1>10. /\ c \in Seq(Interval) /\ Len(c) = Len(calls) + 1 /\ c[Len(calls) + 1] = rest
       /\ \A n \in 1 .. Len(calls) : c[n] = calls[n]
       /\ Len(calls) \in Nat
  BY <1>1, <1>8, AppendProperties
<1> HIDE DEF c
<1>11. \A n \in 1 .. Len(c) : (n \in 1 .. Len(calls) /\ c[n] = calls[n]) \/ (n = Len(calls) + 1 /\ c[n] = rest)
  BY <1>10
<1>12. 1 <= v.lo /\ v.up <= Len(a) /\ 1 <= rest.lo /\ rest.up <= Len(a)
  BY <1>1, <1>7, <1>8
<1>13. \A n \in 1 .. Len(c) : 1 <= c[n].lo /\ c[n].up <= Len(a)
  BY <1>1, <1>11, <1>12
<1>14. \A k \in Int : /\ l1 <= k /\ k <= u1 => lo <= k /\ k <= up
                      /\ l2 <= k /\ k <= u2 => lo <= k /\ k <= up
                      /\ ~(l1 <= k /\ k <= u1 /\ l2 <= k /\ k <= u2)
  BY <1>1, <1>7
<1>15. \A n \in 1 .. Len(calls), k \in Int :
          ~(lo <= k /\ k <= up /\ calls[n].lo <= k /\ k <= calls[n].up)
  BY <1>0 DEF Apart, Clear
<1>16. Clear(c, v.lo, v.up)
  BY <1>8, <1>11, <1>14, <1>15 DEF Clear
<1>17. Disjoint(c)
  <2>1. \A m, n \in 1 .. Len(calls), k \in Int :
           m # n => ~(calls[m].lo <= k /\ k <= calls[m].up /\ calls[n].lo <= k /\ k <= calls[n].up)
    BY <1>0 DEF Apart, Disjoint
  <2>2. SUFFICES ASSUME NEW m \in 1 .. Len(c), NEW n \in 1 .. Len(c), NEW k \in Int, m # n,
                        c[m].lo <= k, k <= c[m].up, c[n].lo <= k, k <= c[n].up
                 PROVE  FALSE
    BY DEF Disjoint
  <2>3. CASE m \in 1 .. Len(calls) /\ n \in 1 .. Len(calls)
    BY <1>10, <2>1, <2>2, <2>3
  <2>4. CASE m \in 1 .. Len(calls) /\ n \notin 1 .. Len(calls)
    BY <1>8, <1>11, <1>14, <1>15, <2>2, <2>4
  <2>5. CASE m \notin 1 .. Len(calls) /\ n \in 1 .. Len(calls)
    BY <1>8, <1>11, <1>14, <1>15, <2>2, <2>5
  <2>6. CASE m \notin 1 .. Len(calls) /\ n \notin 1 .. Len(calls)
    BY <1>11, <2>2, <2>6
  <2> QED BY <2>3, <2>4, <2>5, <2>6
<1>18. ASSUME ordered
       PROVE  Rest(t, c, v.lo, v.up)
  <2>1. SUFFICES ASSUME NEW x \in 1 .. Len(t), NEW y \in 1 .. Len(t),
                        x < y, ~(l1 <= x /\ y <= u1), ~Waits(c, x, y)
                 PROVE  t[x] <= t[y]
    BY <1>8 DEF Rest
  <2>2. \A n \in 1 .. Len(c) : ~(c[n].lo <= x /\ y <= c[n].up)
    BY <2>1 DEF Waits
  <2>3. ~(l2 <= x /\ y <= u2)
    <3>1. Len(calls) + 1 \in 1 .. Len(c)
      BY <1>10
    <3> QED BY <1>8, <1>10, <2>2, <3>1
  <2>4. ~Waits(calls, x, y)
    <3>1. \A n \in 1 .. Len(calls) : n \in 1 .. Len(c) /\ c[n] = calls[n]
      BY <1>10
    <3> QED BY <2>2, <3>1 DEF Waits
  <2>5. CASE lo <= x /\ y <= up
    <3>1. x \in lo .. up /\ y \in lo .. up
      BY <1>1, <2>1, <2>5
    <3>2. x <= i /\ i <= y
      BY <1>1, <1>7, <2>1, <2>3, <2>5
    <3> QED BY <1>5, <1>18, <2>1, <3>1, <3>2
  <2>6. CASE ~(lo <= x /\ y <= up)
    <3>1. Rest(t, calls, lo, up)
      BY <1>3, <1>18 DEF Fine
    <3> QED BY <2>1, <2>4, <2>6, <3>1 DEF Rest
  <2> QED BY <2>5, <2>6
<1>19. /\ a' \in Seq(Int) /\ Len(a') = Len(a) /\ Holds(a')
       /\ p' \in Int /\ i' \in Int /\ j' \in Int /\ P' \in Int
       /\ ordered => Rest(a', c, v.lo, v.up)
  BY <1>1, <1>3, <1>18 DEF Fine
<1> QED BY <1>8, <1>9, <1>10, <1>12, <1>13, <1>16, <1>17, <1>19, Begins

(* "repeat --j": what j passes is at least P. With an order j cannot pass lo, *)
(* whose element is at most P.                                                *)
LEMMA DownKeeps ==
  ASSUME IInv, Down
  PROVE  IInv'
<1>0. pc = "j" /\ Working /\ Typed /\ Apart /\ UNCHANGED <<given, ordered, P>>
  BY DEF IInv, Down, Working
<1>1. /\ lo \in Int /\ up \in Int /\ i \in Int /\ j \in Int /\ P \in Int /\ up - lo >= 3
      /\ lo < i /\ i < up /\ lo <= j /\ j < up - 1 /\ 1 <= lo /\ up <= Len(a) /\ a \in Seq(Int)
  BY <1>0 DEF IInv, Bounded, Typed
<1>2. a[i] \in Int /\ a[j] \in Int
  BY <1>1
<1>3. ordered => /\ a[up - 1] = P /\ P <= a[i]
                 /\ \A k \in lo .. i - 1 : a[k] <= P
                 /\ \A k \in j + 1 .. up : P <= a[k]
  BY <1>0 DEF IInv, InOrder
<1>4. PICK less \in sort_comp(P, a[j]) :
           IF less
           THEN IF j < i THEN Fails
                ELSE j' = j - 1 /\ UNCHANGED <<a, pc, i, lo, up, rnd, calls, p>>
           ELSE IF j < i THEN a' = Crossed(a) /\ Divide(i) /\ UNCHANGED <<i, j, p>>
           ELSE /\ a' = Swapped(a, i, j)
                /\ pc' = "i" /\ i' = i + 1
                /\ UNCHANGED <<j, lo, up, rnd, calls, p>>
  BY DEF Down
<1>5. less \in BOOLEAN /\ (ordered => (less <=> P < a[j]))
  BY <1>0, <1>1, <1>2, Answer DEF Typed
<1>6. Fine(a)
  BY <1>0, TableFine
<1>7. CASE less /\ j < i
  <2>1. ~ordered
    BY <1>1, <1>2, <1>3, <1>5, <1>7
  <2>2. pc' = "error" /\ UNCHANGED <<a, i, j, lo, up, rnd, calls, p>>
    BY <1>4, <1>7 DEF Fails
  <2> QED BY <1>0, <2>1, <2>2, Stops
<1>8. CASE less /\ ~(j < i)
  <2>1. pc' = "j" /\ j' = j - 1 /\ UNCHANGED <<a, i, lo, up, rnd, calls, p>>
    BY <1>0, <1>4, <1>8
  <2>2. Working' /\ p' \in Int /\ i' \in Int /\ j' \in Int /\ P' \in Int
    BY <1>0, <1>1, <2>1 DEF Working, Typed
  <2>3. /\ Typed' /\ Holds(a)' /\ Apart'
        /\ ordered' => Rest(a, calls, lo, up)'
    BY <1>0, <1>6, <2>1, <2>2, GoesOn
  <2>4. Bounded'
    BY <1>1, <1>8, <2>1 DEF Bounded
  <2>5. ASSUME ordered
        PROVE  \A k \in j' + 1 .. up' : P' <= a'[k]
    <3>1. \A k \in j' + 1 .. up' : k = j \/ k \in j + 1 .. up
      BY <1>1, <2>1
    <3>2. a' = a /\ P' = P /\ P <= a[j]
      BY <1>0, <1>1, <1>2, <1>5, <1>8, <2>1, <2>5
    <3> QED BY <1>3, <2>5, <3>1, <3>2
  <2>6. InOrder'
    BY <1>0, <1>3, <2>1, <2>3, <2>5 DEF InOrder
  <2> QED BY <2>3, <2>4, <2>6 DEF IInv
<1>9. CASE ~less /\ j < i
  <2>1. a' = Crossed(a) /\ Divide(i) /\ UNCHANGED <<i, j, p>>
    BY <1>4, <1>9
  <2> QED BY <1>0, <1>9, <2>1, DivideKeeps
<1>10. CASE ~less /\ ~(j < i)
  <2> DEFINE t == Swapped(a, i, j)
  <2>1. a' = t /\ pc' = "i" /\ i' = i + 1 /\ UNCHANGED <<j, lo, up, rnd, calls, p>>
    BY <1>4, <1>10
  <2>2. /\ i \in lo .. up /\ j \in lo .. up /\ i \in 1 .. Len(a) /\ j \in 1 .. Len(a)
        /\ up - 1 \in 1 .. Len(a)
    BY <1>1
  <2>3. Fine(t)
    BY <1>0, <1>6, <2>2, SwapFine
  <2>4. /\ t[i] = a[j] /\ t[j] = a[i]
        /\ \A k \in 1 .. Len(a) : k # i /\ k # j => t[k] = a[k]
    BY <1>1, <2>2, SwappedIs
  <2> HIDE DEF t
  <2>5. Working' /\ p' \in Int /\ i' \in Int /\ j' \in Int /\ P' \in Int
    BY <1>0, <1>1, <2>1 DEF Working, Typed
  <2>6. /\ Typed' /\ Holds(a)' /\ Apart'
        /\ ordered' => Rest(a, calls, lo, up)'
    BY <1>0, <2>1, <2>3, <2>5, GoesOn
  <2>7. Bounded'
    BY <1>1, <1>10, <2>1 DEF Bounded
  <2>8. ASSUME ordered
        PROVE  /\ a'[up' - 1] = P'
               /\ \A k \in lo' .. i' - 1 : a'[k] <= P'
               /\ \A k \in j' + 1 .. up' : P' <= a'[k]
               /\ P' <= a'[j']
    <3>1. P' = P /\ a' = t /\ up' - 1 = up - 1 /\ j' = j
      BY <1>0, <2>1
    <3>2. t[up - 1] = a[up - 1]
      BY <1>1, <1>10, <2>2, <2>4
    <3>3. t[i] <= P /\ P <= t[j]
      BY <1>1, <1>2, <1>3, <1>5, <1>10, <2>4, <2>8
    <3>4. ASSUME NEW k \in lo' .. i' - 1
          PROVE  t[k] <= P
      <4>1. k = i \/ k \in lo .. i - 1
        BY <1>1, <2>1
      <4>2. ASSUME k \in lo .. i - 1
            PROVE  t[k] = a[k]
        BY <1>1, <1>10, <2>4, <4>2
      <4> QED BY <1>3, <2>8, <3>3, <4>1, <4>2
    <3>5. ASSUME NEW k \in j' + 1 .. up'
          PROVE  P <= t[k]
      <4>1. k \in j + 1 .. up
        BY <2>1
      <4>2. t[k] = a[k]
        BY <1>1, <1>10, <2>4, <4>1
      <4> QED BY <1>3, <2>8, <4>1, <4>2
    <3> QED BY <1>3, <2>8, <3>1, <3>2, <3>3, <3>4, <3>5
  <2>9. InOrder'
    BY <1>0, <2>1, <2>6, <2>8 DEF InOrder
  <2> QED BY <2>6, <2>7, <2>9 DEF IInv
<1> QED BY <1>5, <1>7, <1>8, <1>9, <1>10
-----------------------------------------------------------------------------
(* The invariant holds when sort is called. *)
LEMMA Begun ==
  ASSUME SortInit
  PROVE  IInv
<1>1. PICK s \in Arrays : sort(s)
  BY DEF SortInit
<1>2. /\ s \in Seq(Int) /\ a = s /\ given = s /\ ordered \in BOOLEAN
      /\ pc = (IF Len(s) > 1 THEN "ends" ELSE "done")
      /\ lo = 1 /\ up = Len(s) /\ rnd = 0 /\ calls = <<>>
      /\ p = 0 /\ i = 0 /\ j = 0 /\ P = 0
  BY <1>1, SortAssumption DEF sort
<1>3. calls \in Seq(Interval) /\ Len(calls) = 0 /\ Len(s) \in Nat
  BY <1>2, EmptySeq
<1>4. Typed
  BY <1>2, <1>3 DEF Typed, Working
<1>5. Bounded
  BY <1>2, <1>3 DEF Bounded, Working
<1>6. Holds(a) /\ Apart
  BY <1>2, <1>3 DEF Holds, Apart, Disjoint, Clear
<1>7. InOrder
  <2>1. Rest(a, calls, lo, up)
    BY <1>2, <1>3 DEF Rest
  <2>2. pc = "done" => Settled(a, calls)
    BY <1>2, <1>3 DEF Settled
  <2> QED BY <1>2, <2>1, <2>2 DEF InOrder
<1> QED BY <1>4, <1>5, <1>6, <1>7 DEF IInv

(* No step of sort breaks the invariant. *)
LEMMA Stays ==
  ASSUME IInv, [SortNext]_svars
  PROVE  IInv'
<1>1. CASE Ends
  BY <1>1, EndsKeeps
<1>2. CASE Low
  BY <1>2, LowKeeps
<1>3. CASE High
  BY <1>3, HighKeeps
<1>4. CASE Up
  BY <1>4, UpKeeps
<1>5. CASE Down
  BY <1>5, DownKeeps
<1>6. CASE Return
  BY <1>6, ReturnKeeps
<1>7. CASE Raised
  BY <1>7, RaisedKeeps
<1>8. CASE UNCHANGED svars
  <2>1. UNCHANGED <<a, given, ordered, pc, lo, up, rnd, calls, p, i, j, P>>
    BY <1>8 DEF svars
  <2>2. Typed' /\ Bounded'
    BY <2>1 DEF IInv, Typed, Bounded, Working
  <2>3. Holds(a)' /\ Apart'
    BY <2>1 DEF IInv, Holds, Apart, Disjoint, Clear, Working
  <2>4. InOrder'
    BY <2>1 DEF IInv, InOrder, Rest, Settled, Waits, Working
  <2> QED BY <2>2, <2>3, <2>4 DEF IInv
<1> QED BY <1>1, <1>2, <1>3, <1>4, <1>5, <1>6, <1>7, <1>8 DEF SortNext

(* The invariant says what sort promises. *)
LEMMA Sorted ==
  ASSUME IInv
  PROVE  SortSorts
<1>1. SortedAtEnd
  <2>1. ASSUME ordered, pc = "done", NEW k \in 1 .. (Len(a) - 1)
        PROVE  a[k] <= a[k + 1]
    <3>1. Settled(a, calls) /\ calls = <<>> /\ a \in Seq(Int)
      BY <2>1 DEF IInv, InOrder, Typed
    <3>2. ~Waits(calls, k, k + 1)
      BY <3>1 DEF Waits
    <3>3. k \in 1 .. Len(a) /\ k + 1 \in 1 .. Len(a) /\ k < k + 1
      BY <3>1
    <3> QED BY <3>1, <3>2, <3>3 DEF Settled
  <2>2. ordered => pc # "error"
    BY DEF IInv, InOrder
  <2> QED BY <2>1, <2>2 DEF SortedAtEnd
<1>2. SortKeepsItems
  <2>1. \A x \in {given[k] : k \in DOMAIN given} : Count(a, x) = Count(given, x)
    BY DEF IInv, Holds, Typed
  <2>2. 1 <= lo /\ up <= Len(a)
    BY DEF IInv, Typed
  <2>3. /\ pc \in {"low", "high"} => lo < p /\ p < up
        /\ pc \in {"i", "j"} => lo < i /\ i < up
    BY DEF IInv, Bounded
  <2>4. pc \in {"i", "j"} => lo <= j /\ j < up
    <3>1. lo \in Int /\ up \in Int /\ j \in Int
      BY DEF IInv, Typed
    <3>2. CASE pc = "i"
      BY <3>1, <3>2 DEF IInv, Bounded
    <3>3. CASE pc = "j"
      BY <3>1, <3>3 DEF IInv, Bounded
    <3> QED BY <3>2, <3>3
  <2> QED BY <2>1, <2>2, <2>3, <2>4 DEF SortKeepsItems
<1> QED BY <1>1, <1>2 DEF SortSorts

(* For a table of any length and any numbers: with an order sort leaves it    *)
(* sorted and does not complain, and whatever the order function answers, at  *)
(* each of its calls the table holds what it held and no index leaves it      *)
(* (auxsort, partition).                                                      *)
THEOREM SortCorrect == SortSpec => []SortSorts
<1>1. SortInit => IInv
  BY Begun
<1>2. IInv /\ [SortNext]_svars => IInv'
  BY Stays
<1>3. IInv => SortSorts
  BY Sorted
<1> QED BY <1>1, <1>2, <1>3, PTL DEF SortSpec
=============================================================================
