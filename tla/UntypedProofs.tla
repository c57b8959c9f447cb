--------------------------- MODULE UntypedProofs ---------------------------
(***************************************************************************)
(* Proofs about module Untyped, for every number of regions, every size of *)
(* them, of the chunks and of the cache: memory never has two owners, none *)
(* is lost, and chunks in the list are empty.                              *)
(***************************************************************************)
EXTENDS Untyped, SequenceTheorems, TLAPS

Chunk == (1 .. Regions) \X Nat
Unit == Nat \X Nat

Job == [kind : {"none", "4m", "4k"}, region : 1 .. Regions, next : Nat, end : Nat,
        split : BOOLEAN]

(* The units behind a chunk of 4 MiB, and those a loop has yet to cut up. *)
Behind(chunk, x) == x[1] = chunk[1] /\ chunk[2] <= x[2] /\ x[2] < chunk[2] + PerLarge
Left(j, x) == x[1] = j.region /\ j.next <= x[2] /\ x[2] < j.end

(* One owner each: A is the set of free chunks of 4 KiB, H of those in     *)
(* use, L of those of 4 MiB, and j the loop's locals.                      *)
Apart(A, H, L, j) ==
  /\ \A x \in A : x \notin H
  /\ \A x \in A \cup H : ~Left(j, x) /\ \A c \in L : ~Behind(c, x)
  /\ \A x \in Chunk, c \in L : Behind(c, x) => ~Left(j, x)
  /\ \A x \in Chunk, c \in L, d \in L : Behind(c, x) /\ Behind(d, x) => c = d

Owned(A, H, L, j, x) ==
  x \in A \/ x \in H \/ Left(j, x) \/ \E c \in L : Behind(c, x)

(* What is owned in one state is owned in the next. *)
Kept(A, H, L, j, A2, H2, L2, j2) ==
  \A x \in Chunk : Owned(A, H, L, j, x) => Owned(A2, H2, L2, j2, x)

Sets(A, H, L, j) == A \subseteq Chunk /\ H \subseteq Chunk /\ L \subseteq Chunk /\ j \in Job

-----------------------------------------------------------------------------
(* The lists as sets.                                                      *)

LEMMA PushFacts ==
  ASSUME NEW S, NEW s \in Seq(S), NEW c \in S
  PROVE  /\ <<c>> \o s \in Seq(S)
         /\ ToSet(<<c>> \o s) = {c} \cup ToSet(s)
         /\ IsInjective(s) /\ c \notin ToSet(s) => IsInjective(<<c>> \o s)
<1> DEFINE t == <<c>> \o s
<1>1. /\ t \in Seq(S) /\ Len(t) = Len(s) + 1
      /\ t[1] = c
      /\ \A n \in 1 .. Len(s) : t[n + 1] = s[n]
  OBVIOUS
<1>2. DOMAIN t = 1 .. Len(s) + 1 /\ DOMAIN s = 1 .. Len(s) /\ Len(s) \in Nat
  BY <1>1
<1> HIDE DEF t
<1>3. ASSUME NEW n \in 1 .. Len(s) + 1, n # 1
      PROVE  n - 1 \in 1 .. Len(s) /\ t[n] = s[n - 1]
  <2>1. n - 1 \in 1 .. Len(s) /\ (n - 1) + 1 = n
    BY <1>2, <1>3
  <2> QED BY <2>1, <1>1
<1>4. ToSet(t) = {c} \cup ToSet(s)
  <2>1. ASSUME NEW x \in ToSet(t) PROVE x \in {c} \cup ToSet(s)
    <3>1. PICK n \in 1 .. Len(s) + 1 : x = t[n]
      BY <1>2 DEF ToSet
    <3>2. CASE n = 1
      BY <3>1, <3>2, <1>1
    <3>3. CASE n # 1
      BY <3>1, <3>3, <1>2, <1>3 DEF ToSet
    <3> QED BY <3>2, <3>3
  <2>2. c \in ToSet(t)
    BY <1>1, <1>2 DEF ToSet
  <2>3. ASSUME NEW x \in ToSet(s) PROVE x \in ToSet(t)
    <3>1. PICK n \in 1 .. Len(s) : x = s[n]
      BY <1>2 DEF ToSet
    <3>2. n + 1 \in 1 .. Len(s) + 1 /\ x = t[n + 1]
      BY <3>1, <1>1, <1>2
    <3> QED BY <3>2, <1>2 DEF ToSet
  <2> QED BY <2>1, <2>2, <2>3
<1>5. ASSUME IsInjective(s), c \notin ToSet(s) PROVE IsInjective(t)
  <2>1. SUFFICES ASSUME NEW m \in 1 .. Len(s) + 1, NEW n \in 1 .. Len(s) + 1, t[m] = t[n]
                 PROVE  m = n
    BY <1>2 DEF IsInjective
  <2>2. \A k \in 1 .. Len(s) : s[k] # c
    BY <1>2, <1>5 DEF ToSet
  <2>3. CASE m = 1 /\ n # 1
    BY <2>1, <2>2, <2>3, <1>1, <1>3
  <2>4. CASE m # 1 /\ n = 1
    BY <2>1, <2>2, <2>4, <1>1, <1>3
  <2>5. CASE m # 1 /\ n # 1
    <3>1. m - 1 \in 1 .. Len(s) /\ n - 1 \in 1 .. Len(s) /\ s[m - 1] = s[n - 1]
      BY <2>1, <2>5, <1>3
    <3>2. m - 1 = n - 1
      BY <3>1, <1>2, <1>5 DEF IsInjective
    <3> QED BY <3>2
  <2> QED BY <2>3, <2>4, <2>5
<1> QED BY <1>1, <1>4, <1>5 DEF t

LEMMA PopFacts ==
  ASSUME NEW S, NEW s \in Seq(S), s # <<>>
  PROVE  /\ Head(s) \in S /\ Tail(s) \in Seq(S)
         /\ Head(s) \in ToSet(s) /\ ToSet(s) = {Head(s)} \cup ToSet(Tail(s))
         /\ IsInjective(s) => IsInjective(Tail(s)) /\ Head(s) \notin ToSet(Tail(s))
<1> DEFINE t == Tail(s)
<1>1. /\ t \in Seq(S) /\ Len(t) = Len(s) - 1
      /\ Len(s) \in Nat /\ Len(s) > 0
      /\ \A n \in 1 .. Len(s) - 1 : t[n] = s[n + 1]
  OBVIOUS
<1>2. DOMAIN s = 1 .. Len(s) /\ DOMAIN t = 1 .. Len(s) - 1 /\ Head(s) = s[1]
  BY <1>1
<1>3. Head(s) \in S /\ Head(s) \in ToSet(s)
  BY <1>1, <1>2 DEF ToSet
<1> HIDE DEF t
<1>4. ToSet(s) = {Head(s)} \cup ToSet(t)
  <2>1. ASSUME NEW x \in ToSet(s) PROVE x \in {Head(s)} \cup ToSet(t)
    <3>1. PICK n \in 1 .. Len(s) : x = s[n]
      BY <1>2 DEF ToSet
    <3>2. CASE n = 1
      BY <3>1, <3>2, <1>2
    <3>3. CASE n # 1
      <4>1. n - 1 \in 1 .. Len(s) - 1 /\ (n - 1) + 1 = n
        BY <3>3, <1>1
      <4>2. t[n - 1] = x
        BY <4>1, <3>1, <1>1
      <4> QED BY <4>1, <4>2, <1>2 DEF ToSet
    <3> QED BY <3>2, <3>3
  <2>2. ASSUME NEW x \in ToSet(t) PROVE x \in ToSet(s)
    <3>1. PICK n \in 1 .. Len(s) - 1 : x = t[n]
      BY <1>2 DEF ToSet
    <3>2. n + 1 \in 1 .. Len(s) /\ x = s[n + 1]
      BY <3>1, <1>1
    <3> QED BY <3>2, <1>2 DEF ToSet
  <2> QED BY <2>1, <2>2, <1>3
<1>5. ASSUME IsInjective(s) PROVE IsInjective(t) /\ Head(s) \notin ToSet(t)
  <2>1. \A m, n \in 1 .. Len(s) : s[m] = s[n] => m = n
    BY <1>5, <1>2 DEF IsInjective
  <2>2. IsInjective(t)
    <3>1. SUFFICES ASSUME NEW m \in 1 .. Len(s) - 1, NEW n \in 1 .. Len(s) - 1, t[m] = t[n]
                   PROVE  m = n
      BY <1>2 DEF IsInjective
    <3>2. m + 1 \in 1 .. Len(s) /\ n + 1 \in 1 .. Len(s) /\ s[m + 1] = s[n + 1]
      BY <3>1, <1>1
    <3>3. m + 1 = n + 1
      BY <3>2, <2>1
    <3> QED BY <3>3
  <2>3. Head(s) \notin ToSet(t)
    <3>1. SUFFICES ASSUME NEW n \in 1 .. Len(s) - 1, t[n] = s[1] PROVE FALSE
      BY <1>2 DEF ToSet
    <3>2. n + 1 \in 1 .. Len(s) /\ 1 \in 1 .. Len(s) /\ s[n + 1] = s[1]
      BY <3>1, <1>1
    <3>3. n + 1 = 1
      BY <3>2, <2>1
    <3> QED BY <3>3
  <2> QED BY <2>2, <2>3
<1> QED BY <1>1, <1>3, <1>4, <1>5 DEF t

-----------------------------------------------------------------------------
(* The moves of memory between owners.                                     *)

LEMMA UnitFacts ==
  ASSUME SizesAssumption
  PROVE  /\ \A c \in Chunk : /\ c \in Unit /\ c = <<c[1], c[2]>>
                               /\ c[1] \in 1 .. Regions /\ c[2] \in Nat
         /\ \A c \in Chunk : Behind(c, c)
         /\ PerLarge \in Nat /\ PerLarge > 0
         /\ Regions \in Nat /\ Regions > 0
<1>1. PerLarge \in Nat /\ PerLarge > 0 /\ Regions \in Nat /\ Regions > 0
  BY DEF SizesAssumption
<1> HIDE DEF PerLarge
<1>2. \A c \in Chunk : c \in Unit /\ c[1] \in 1 .. Regions /\ c[2] \in Nat /\ c = <<c[1], c[2]>>
  BY <1>1 DEF Chunk, Unit
<1>3. \A c \in Chunk : Behind(c, c)
  BY <1>1, <1>2 DEF Behind
<1> QED BY <1>1, <1>2, <1>3

(* untyped_allocate_4k: a free chunk is in use. *)
LEMMA UseChunk ==
  ASSUME NEW A, NEW H, NEW L, NEW j, Sets(A, H, L, j), Apart(A, H, L, j), NEW c \in A,
         NEW A2, A2 = A \ {c}, NEW H2, H2 = H \cup {c}
  PROVE  Sets(A2, H2, L, j) /\ Apart(A2, H2, L, j) /\ Kept(A, H, L, j, A2, H2, L, j)
<1>1. Sets(A2, H2, L, j)
  BY DEF Sets
<1>2. Apart(A2, H2, L, j)
  BY DEF Apart
<1>3. Kept(A, H, L, j, A2, H2, L, j)
  BY DEF Kept, Owned
<1> QED BY <1>1, <1>2, <1>3

(* untyped_free_4k: a chunk in use is free. *)
LEMMA FreeChunk ==
  ASSUME NEW A, NEW H, NEW L, NEW j, Sets(A, H, L, j), Apart(A, H, L, j), NEW c \in H,
         NEW A2, A2 = {c} \cup A, NEW H2, H2 = H \ {c}
  PROVE  Sets(A2, H2, L, j) /\ Apart(A2, H2, L, j) /\ Kept(A, H, L, j, A2, H2, L, j)
<1>1. Sets(A2, H2, L, j)
  BY DEF Sets
<1>2. Apart(A2, H2, L, j)
  BY DEF Apart
<1>3. Kept(A, H, L, j, A2, H2, L, j)
  BY DEF Kept, Owned
<1> QED BY <1>1, <1>2, <1>3

(* The loop turns its next unit into a chunk of 4 KiB. *)
LEMMA CutSmall ==
  ASSUME SizesAssumption, NEW A, NEW H, NEW L, NEW j,
         Sets(A, H, L, j), Apart(A, H, L, j), j.next < j.end
  PROVE  LET c == <<j.region, j.next>>
             A2 == {c} \cup A
             j2 == [j EXCEPT !.next = @ + 1]
         IN  /\ c \in Chunk /\ c \notin A
             /\ Sets(A2, H, L, j2) /\ Apart(A2, H, L, j2)
             /\ Kept(A, H, L, j, A2, H, L, j2)
<1> DEFINE c == <<j.region, j.next>>
           j2 == [j EXCEPT !.next = @ + 1]
<1>1. j \in Job /\ j.region \in 1 .. Regions /\ j.next \in Nat /\ j.end \in Nat
  BY DEF Sets, Job
<1>2. j2 \in Job /\ j2.region = j.region /\ j2.next = j.next + 1 /\ j2.end = j.end
  BY <1>1 DEF Job
<1>3. c \in Chunk /\ c[1] = j.region /\ c[2] = j.next
  BY <1>1 DEF Chunk
<1>4. \A x \in Chunk : Left(j, x) <=> (x = c \/ Left(j2, x))
  <2>1. SUFFICES ASSUME NEW x \in Chunk PROVE Left(j, x) <=> (x = c \/ Left(j2, x))
    OBVIOUS
  <2>2. x[1] \in Nat /\ x[2] \in Nat /\ x = <<x[1], x[2]>>
    BY UnitFacts
  <2>3. x = c <=> x[1] = j.region /\ x[2] = j.next
    BY <2>2
  <2> HIDE DEF c, j2
  <2> QED BY <2>2, <2>3, <1>1, <1>2 DEF Left
<1>5. Left(j, c) /\ ~Left(j2, c)
  <2> HIDE DEF c, j2
  <2> QED BY <1>1, <1>2, <1>3 DEF Left
<1> HIDE DEF c, j2
<1>6. c \notin A /\ c \notin H /\ \A d \in L : ~Behind(d, c)
  BY <1>5, <1>3 DEF Apart
<1>7. Sets({c} \cup A, H, L, j2)
  BY <1>2, <1>3 DEF Sets
<1>8. Apart({c} \cup A, H, L, j2)
  <2>1. \A x \in {c} \cup A : x \notin H
    BY <1>6 DEF Apart
  <2>2. ASSUME NEW x \in ({c} \cup A) \cup H PROVE ~Left(j2, x) /\ \A d \in L : ~Behind(d, x)
    <3>1. CASE x = c
      BY <3>1, <1>5, <1>6
    <3>2. CASE x \in A \cup H
      <4>1. x \in Chunk
        BY <3>2 DEF Sets
      <4> QED BY <3>2, <4>1, <1>4 DEF Apart
    <3> QED BY <3>1, <3>2
  <2>3. \A x \in Chunk, d \in L : Behind(d, x) => ~Left(j2, x)
    BY <1>4 DEF Apart
  <2>4. \A x \in Chunk, d \in L, e \in L : Behind(d, x) /\ Behind(e, x) => d = e
    BY DEF Apart
  <2> QED BY <2>1, <2>2, <2>3, <2>4 DEF Apart
<1>9. Kept(A, H, L, j, {c} \cup A, H, L, j2)
  BY <1>4 DEF Kept, Owned
<1> QED BY <1>3, <1>6, <1>7, <1>8, <1>9 DEF c, j2

(* The loop turns its next units into a chunk of 4 MiB. *)
LEMMA CutLarge ==
  ASSUME SizesAssumption, NEW A, NEW H, NEW L, NEW j,
         Sets(A, H, L, j), Apart(A, H, L, j), j.next + PerLarge <= j.end
  PROVE  LET c == <<j.region, j.next>>
             L2 == {c} \cup L
             j2 == [j EXCEPT !.next = @ + PerLarge]
         IN  /\ c \in Chunk /\ c \notin L
             /\ Sets(A, H, L2, j2) /\ Apart(A, H, L2, j2)
             /\ Kept(A, H, L, j, A, H, L2, j2)
<1> DEFINE c == <<j.region, j.next>>
           j2 == [j EXCEPT !.next = @ + PerLarge]
<1>0. PerLarge \in Nat /\ PerLarge > 0
  BY UnitFacts
<1> HIDE DEF PerLarge
<1>1. j \in Job /\ j.region \in 1 .. Regions /\ j.next \in Nat /\ j.end \in Nat
  BY DEF Sets, Job
<1>2. j2 \in Job /\ j2.region = j.region /\ j2.next = j.next + PerLarge /\ j2.end = j.end
  BY <1>0, <1>1 DEF Job
<1>3. c \in Chunk /\ c[1] = j.region /\ c[2] = j.next
  BY <1>1 DEF Chunk
<1> HIDE DEF c, j2
<1>4. \A x \in Chunk : /\ Left(j, x) <=> (Behind(c, x) \/ Left(j2, x))
                       /\ ~(Behind(c, x) /\ Left(j2, x))
  <2>1. SUFFICES ASSUME NEW x \in Chunk
                 PROVE  /\ Left(j, x) <=> (Behind(c, x) \/ Left(j2, x))
                        /\ ~(Behind(c, x) /\ Left(j2, x))
    OBVIOUS
  <2>2. x[1] \in Nat /\ x[2] \in Nat
    BY UnitFacts
  <2> QED BY <2>2, <1>0, <1>1, <1>2, <1>3 DEF Left, Behind
<1>5. Behind(c, c)
  BY <1>3, UnitFacts
<1>6. c \notin L
  BY <1>3, <1>4, <1>5 DEF Apart
<1>7. Sets(A, H, {c} \cup L, j2)
  BY <1>2, <1>3 DEF Sets
<1>8. Apart(A, H, {c} \cup L, j2)
  <2>1. \A x \in A : x \notin H
    BY DEF Apart
  <2>2. ASSUME NEW x \in A \cup H PROVE ~Left(j2, x) /\ \A d \in {c} \cup L : ~Behind(d, x)
    <3>1. x \in Chunk
      BY DEF Sets
    <3>2. ~Left(j, x) /\ \A d \in L : ~Behind(d, x)
      BY DEF Apart
    <3> QED BY <3>1, <3>2, <1>4
  <2>3. ASSUME NEW x \in Chunk, NEW d \in {c} \cup L, Behind(d, x) PROVE ~Left(j2, x)
    BY <2>3, <1>4 DEF Apart
  <2>4. ASSUME NEW x \in Chunk, NEW d \in {c} \cup L, NEW e \in {c} \cup L,
               Behind(d, x), Behind(e, x)
        PROVE  d = e
    <3>1. Left(j, x) => d \notin L /\ e \notin L
      BY <2>4 DEF Apart
    <3>2. d = c \/ e = c => Left(j, x)
      BY <2>4, <1>4
    <3>3. d \in L /\ e \in L => d = e
      BY <2>4 DEF Apart
    <3> QED BY <3>1, <3>2, <3>3
  <2> QED BY <2>1, <2>2, <2>3, <2>4 DEF Apart
<1>9. Kept(A, H, L, j, A, H, {c} \cup L, j2)
  BY <1>4 DEF Kept, Owned
<1> QED BY <1>3, <1>6, <1>7, <1>8, <1>9 DEF c, j2

(* A loop has come to its end. *)
LEMMA EndJob ==
  ASSUME SizesAssumption, NEW A, NEW H, NEW L, NEW j, Sets(A, H, L, j), Apart(A, H, L, j)
  PROVE  /\ Sets(A, H, L, NoJob) /\ Apart(A, H, L, NoJob)
         /\ j.next = j.end => Kept(A, H, L, j, A, H, L, NoJob)
<1>1. NoJob \in Job
  BY UnitFacts DEF Job, NoJob
<1>2. \A x \in Chunk : ~Left(NoJob, x)
  BY UnitFacts DEF Left, NoJob
<1>3. ASSUME j.next = j.end, NEW x \in Chunk PROVE ~Left(j, x)
  <2>1. x[2] \in Nat /\ j.next \in Nat /\ j.end \in Nat
    BY UnitFacts DEF Sets, Job
  <2> QED BY <2>1, <1>3 DEF Left
<1> QED BY <1>1, <1>2, <1>3 DEF Sets, Apart, Kept, Owned

(* A refill takes a chunk of 4 MiB to cut it up. *)
LEMMA TakeLarge ==
  ASSUME SizesAssumption, NEW A, NEW H, NEW L, NEW c \in Chunk, c \notin L,
         Sets(A, H, {c} \cup L, NoJob), Apart(A, H, {c} \cup L, NoJob),
         NEW j \in Job, j.region = c[1], j.next = c[2], j.end = c[2] + PerLarge
  PROVE  /\ Sets(A, H, L, j) /\ Apart(A, H, L, j)
         /\ Kept(A, H, {c} \cup L, NoJob, A, H, L, j)
<1>1. \A x : Left(j, x) <=> Behind(c, x)
  BY DEF Left, Behind
<1>2. Sets(A, H, L, j)
  BY DEF Sets
<1>3. Apart(A, H, L, j)
  <2>1. \A x \in A : x \notin H
    BY DEF Apart
  <2>2. \A x \in A \cup H : ~Left(j, x) /\ \A d \in L : ~Behind(d, x)
    BY <1>1 DEF Apart
  <2>3. \A x \in Chunk, d \in L : Behind(d, x) => ~Left(j, x)
    BY <1>1 DEF Apart
  <2>4. \A x \in Chunk, d \in L, e \in L : Behind(d, x) /\ Behind(e, x) => d = e
    BY DEF Apart
  <2> QED BY <2>1, <2>2, <2>3, <2>4 DEF Apart
<1>4. \A x \in Chunk : ~Left(NoJob, x)
  BY UnitFacts DEF Left, NoJob
<1>5. Kept(A, H, {c} \cup L, NoJob, A, H, L, j)
  BY <1>1, <1>4 DEF Kept, Owned
<1> QED BY <1>2, <1>3, <1>5

(* A loop starts on a region that no chunk is from. *)
LEMMA StartJob ==
  ASSUME SizesAssumption, NEW A, NEW H, NEW L, Sets(A, H, L, NoJob), Apart(A, H, L, NoJob),
         NEW j \in Job, \A c \in (A \cup H) \cup L : c[1] # j.region
  PROVE  /\ Sets(A, H, L, j) /\ Apart(A, H, L, j)
         /\ Kept(A, H, L, NoJob, A, H, L, j)
<1>1. Sets(A, H, L, j)
  BY DEF Sets
<1>2. Apart(A, H, L, j)
  <2>1. \A x \in A : x \notin H
    BY DEF Apart
  <2>2. \A x \in A \cup H : ~Left(j, x) /\ \A d \in L : ~Behind(d, x)
    BY DEF Apart, Left
  <2>3. \A x \in Chunk, d \in L : Behind(d, x) => ~Left(j, x)
    BY DEF Behind, Left
  <2>4. \A x \in Chunk, d \in L, e \in L : Behind(d, x) /\ Behind(e, x) => d = e
    BY DEF Apart
  <2> QED BY <2>1, <2>2, <2>3, <2>4 DEF Apart
<1>3. \A x \in Chunk : ~Left(NoJob, x)
  BY UnitFacts DEF Left, NoJob
<1>4. Kept(A, H, L, NoJob, A, H, L, j)
  BY <1>3 DEF Kept, Owned
<1> QED BY <1>1, <1>2, <1>4

(* A loop that makes chunks of 4 MiB has a whole number of them before it. *)
Whole(j) == j.kind = "4m" => \E k \in Nat : j.end = j.next + k * PerLarge

LEMMA NextWhole ==
  ASSUME SizesAssumption, NEW j \in Job, j.kind = "4m", Whole(j), j.next < j.end
  PROVE  /\ j.next + PerLarge <= j.end
         /\ Whole([j EXCEPT !.next = @ + PerLarge])
<1>0. PerLarge \in Nat /\ PerLarge > 0 /\ j.next \in Nat /\ j.end \in Nat
  BY UnitFacts DEF Job
<1>1. PICK k \in Nat : j.end = j.next + k * PerLarge
  BY DEF Whole
<1> HIDE DEF PerLarge
<1>2. k # 0
  BY <1>0, <1>1
<1>3. k - 1 \in Nat /\ k * PerLarge = (k - 1) * PerLarge + PerLarge
  BY <1>0, <1>2
<1>4. (k - 1) * PerLarge \in Nat
  BY <1>0, <1>3
<1>5. j.next + PerLarge <= j.end
  BY <1>0, <1>1, <1>3, <1>4
<1>6. j.end = (j.next + PerLarge) + (k - 1) * PerLarge
  BY <1>0, <1>1, <1>3, <1>4
<1>7. LET j2 == [j EXCEPT !.next = @ + PerLarge]
      IN  j2.kind = j.kind /\ j2.end = j.end /\ j2.next = j.next + PerLarge
  BY DEF Job
<1> QED BY <1>3, <1>5, <1>6, <1>7 DEF Whole

(* The units of the first R regions of a boot information bt, each with an owner. *)
Size(bt, r) == IF bt[r] < BITS_4KIB THEN 0 ELSE 2 ^ (bt[r] - BITS_4KIB)
Counted(bt, r, A, H, L, j) == \A u \in 0 .. Size(bt, r) - 1 : Owned(A, H, L, j, <<r, u>>)

LEMMA SizeFacts ==
  ASSUME SizesAssumption, NEW bt \in [1 .. Regions -> BootSizes], NEW r \in 1 .. Regions
  PROVE  /\ Size(bt, r) \in Nat /\ bt[r] \in Nat /\ BITS_4KIB \in Nat /\ BITS_4MIB \in Nat
         /\ bt[r] < BITS_4KIB => Size(bt, r) = 0
         /\ bt[r] >= BITS_4KIB => Size(bt, r) = 2 ^ (bt[r] - BITS_4KIB)
         /\ bt[r] >= BITS_4MIB /\ bt[r] >= BITS_4KIB =>
              \E k \in Nat : Size(bt, r) = k * PerLarge
<1>1. bt[r] \in BootSizes /\ bt[r] \in Nat /\ BITS_4KIB \in Nat /\ BITS_4MIB \in Nat
  BY DEF SizesAssumption
<1>2. CASE bt[r] < BITS_4KIB
  <2>1. Size(bt, r) = 0 /\ ~(bt[r] >= BITS_4KIB)
    BY <1>1, <1>2 DEF Size
  <2> QED BY <2>1, <1>1
<1>3. CASE ~(bt[r] < BITS_4KIB)
  <2>1. Size(bt, r) = 2 ^ (bt[r] - BITS_4KIB) /\ bt[r] >= BITS_4KIB
    BY <1>1, <1>3 DEF Size
  <2>2. /\ 2 ^ (bt[r] - BITS_4KIB) \in Nat
        /\ bt[r] >= BITS_4MIB => \E k \in Nat : 2 ^ (bt[r] - BITS_4KIB) = k * PerLarge
    <3> DEFINE n == 2 ^ (bt[r] - BITS_4KIB)
    <3>1. n \in Nat /\ (bt[r] >= BITS_4MIB => \E k \in 1 .. n : n = k * PerLarge)
      BY <1>1, <2>1 DEF SizesAssumption
    <3>2. \A k \in 1 .. n : k \in Nat
      BY <3>1
    <3> QED BY <3>1, <3>2
  <2> QED BY <2>1, <2>2, <1>1, <1>3
<1> QED BY <1>2, <1>3

LEMMA StillCounted ==
  ASSUME SizesAssumption, NEW bt \in [1 .. Regions -> BootSizes], NEW r \in 1 .. Regions,
         NEW A, NEW H, NEW L, NEW j, NEW A2, NEW H2, NEW L2, NEW j2,
         Kept(A, H, L, j, A2, H2, L2, j2), Counted(bt, r, A, H, L, j)
  PROVE  Counted(bt, r, A2, H2, L2, j2)
<1>1. Size(bt, r) \in Nat
  BY SizeFacts
<1>2. \A u \in 0 .. Size(bt, r) - 1 : <<r, u>> \in Chunk
  BY <1>1 DEF Chunk
<1> QED BY <1>2 DEF Counted, Kept

-----------------------------------------------------------------------------
(* The inductive invariant.                                                *)

Looping == pc \in {"turn", "fx"}

Typed ==
  /\ boot \in [1 .. Regions -> BootSizes] /\ booted \in 0 .. Regions
  /\ avail_4ms \in Seq(Chunk) /\ avail_4ks \in Seq(Chunk)
  /\ refill_running \in BOOLEAN
  /\ pc \in {"boot", "turn", "fx", "idle", "user_fx", "stopped", "assertion"}
  /\ held \subseteq Chunk /\ nested \subseteq held /\ objects \subseteq held

(* Where a loop is, and for whom it runs. *)
Placed ==
  /\ job \in Job /\ job.next <= job.end /\ Whole(job)
  /\ pc = "fx" => job.next < job.end
  /\ IF Looping THEN job.kind # "none" ELSE pc # "assertion" => job = NoJob
  /\ pc = "boot" => Booting
  /\ pc \in {"idle", "user_fx"} => ~Booting
  /\ Booting => ~refill_running
  /\ Booting /\ Looping => job.region = booted + 1
  /\ ~Booting /\ Looping => refill_running
  /\ ~InMemFx /\ pc # "assertion" => nested = {}

(* Chunks come from regions that have been added, or are being added. *)
Chunks == (ToSet(avail_4ks) \cup held) \cup ToSet(avail_4ms)

Used ==
  /\ pc = "boot" => \A c \in Chunks : c[1] <= booted
  /\ Booting /\ Looping => \A c \in Chunks : c[1] <= booted + 1

Owners ==
  /\ IsInjective(avail_4ks) /\ IsInjective(avail_4ms)
  /\ Apart(ToSet(avail_4ks), held, ToSet(avail_4ms), job)

Lossless == pc \notin {"stopped", "assertion"} /\ (refill_running => Looping)

Accounted ==
  Lossless => \A r \in 1 .. Regions :
    r <= booted \/ (Booting /\ Looping /\ r = booted + 1) =>
      Counted(boot, r, ToSet(avail_4ks), held, ToSet(avail_4ms), job)

IInv == Typed /\ Placed /\ Used /\ Owners /\ Accounted

LEMMA ListsAreSets ==
  ASSUME Typed, Placed
  PROVE  /\ ToSet(avail_4ks) \subseteq Chunk /\ ToSet(avail_4ms) \subseteq Chunk
         /\ Sets(ToSet(avail_4ks), held, ToSet(avail_4ms), job)
<1>1. ASSUME NEW q \in Seq(Chunk) PROVE ToSet(q) \subseteq Chunk
  <2>1. \A n \in DOMAIN q : q[n] \in Chunk
    OBVIOUS
  <2> QED BY <2>1 DEF ToSet
<1> QED BY <1>1 DEF Typed, Placed, Sets

LEMMA Begun == ASSUME SizesAssumption, Init PROVE IInv
<1>1. <<>> \in Seq(Chunk) /\ ToSet(<<>>) = {} /\ IsInjective(<<>>)
  BY DEF ToSet, IsInjective
<1>2. Regions \in Nat /\ Regions > 0
  BY UnitFacts
<1>3. Typed
  <2>1. avail_4ms \in Seq(Chunk) /\ avail_4ks \in Seq(Chunk)
    BY <1>1 DEF Init
  <2>2. booted \in 0 .. Regions /\ boot \in [1 .. Regions -> BootSizes]
    BY <1>2 DEF Init
  <2> QED BY <2>1, <2>2 DEF Init, Typed
<1>4. Placed
  BY <1>2 DEF Init, Placed, NoJob, Job, Whole, Looping, Booting, InMemFx
<1>5. Used
  BY <1>1 DEF Init, Used, Chunks, Looping
<1>6. Owners
  BY <1>1 DEF Init, Owners, Apart
<1>7. Accounted
  <2>1. \A r \in 1 .. Regions : ~(r <= booted) /\ ~Looping
    BY <1>2 DEF Init, Looping
  <2> QED BY <2>1 DEF Accounted
<1> QED BY <1>3, <1>4, <1>5, <1>6, <1>7 DEF IInv

(* A step that keeps, for some region, what is owned. *)
LEMMA Account ==
  ASSUME SizesAssumption, Typed, Accounted, Lossless, boot' = boot,
         NEW r \in 1 .. Regions, r <= booted \/ (Booting /\ Looping /\ r = booted + 1),
         Kept(ToSet(avail_4ks), held, ToSet(avail_4ms), job,
              ToSet(avail_4ks'), held', ToSet(avail_4ms'), job')
  PROVE  Counted(boot', r, ToSet(avail_4ks'), held', ToSet(avail_4ms'), job')
<1>1. Counted(boot, r, ToSet(avail_4ks), held, ToSet(avail_4ms), job)
  BY DEF Accounted
<1>2. boot \in [1 .. Regions -> BootSizes]
  BY DEF Typed
<1> QED BY <1>1, <1>2, StillCounted

-----------------------------------------------------------------------------
(* What the operations do to the lists.                                    *)

LEMMA TakeFacts ==
  ASSUME SizesAssumption, Typed, Owners, NEW how, NEW then, Take(how, then),
         NEW j, Sets(ToSet(avail_4ks), held, ToSet(avail_4ms), j),
         Apart(ToSet(avail_4ks), held, ToSet(avail_4ms), j)
  PROVE  /\ pc' = then \/ pc' = "assertion"
         /\ avail_4ks' \in Seq(Chunk) /\ IsInjective(avail_4ks')
         /\ held \subseteq held' /\ held' \subseteq Chunk /\ objects' \subseteq held'
         /\ Apart(ToSet(avail_4ks'), held', ToSet(avail_4ms), j)
         /\ Kept(ToSet(avail_4ks), held, ToSet(avail_4ms), j,
                 ToSet(avail_4ks'), held', ToSet(avail_4ms), j)
         /\ ToSet(avail_4ks') \cup held' \subseteq ToSet(avail_4ks) \cup held
<1>1. CASE avail_4ks' = avail_4ks /\ held' = held /\ objects' = objects
           /\ (pc' = then \/ pc' = "assertion")
  <2>1. \A F, H, L : Kept(F, H, L, j, F, H, L, j)
    BY DEF Kept
  <2> QED BY <1>1, <2>1 DEF Typed, Owners
<1>2. CASE /\ avail_4ks # <<>> /\ pc' = then /\ avail_4ks' = Tail(avail_4ks)
           /\ held' = held \cup {Head(avail_4ks)}
           /\ objects' = objects \/ objects' = objects \cup {Head(avail_4ks)}
  <2> DEFINE c == Head(avail_4ks)
  <2>1. /\ c \in Chunk /\ Tail(avail_4ks) \in Seq(Chunk)
        /\ c \in ToSet(avail_4ks) /\ ToSet(avail_4ks) = {c} \cup ToSet(Tail(avail_4ks))
        /\ IsInjective(Tail(avail_4ks)) /\ c \notin ToSet(Tail(avail_4ks))
    BY <1>2, PopFacts DEF Typed, Owners
  <2> HIDE DEF c
  <2>2. ToSet(avail_4ks') = ToSet(avail_4ks) \ {c} /\ held' = held \cup {c}
    BY <2>1, <1>2 DEF c
  <2>3. /\ Apart(ToSet(avail_4ks'), held', ToSet(avail_4ms), j)
        /\ Kept(ToSet(avail_4ks), held, ToSet(avail_4ms), j,
                ToSet(avail_4ks'), held', ToSet(avail_4ms), j)
    BY <2>1, <2>2, UseChunk
  <2>4. held' \subseteq Chunk /\ objects' \subseteq held'
    BY <2>1, <2>2, <1>2 DEF Typed, c
  <2> QED BY <2>1, <2>2, <2>3, <2>4, <1>2
<1>3. avail_4ks = <<>> => avail_4ks' = avail_4ks /\ held' = held /\ objects' = objects
                            /\ (pc' = then \/ pc' = "assertion")
  BY DEF Take, Stop
<1>4. avail_4ks # <<>> =>
        \/ avail_4ks' = avail_4ks /\ held' = held /\ objects' = objects
             /\ (pc' = then \/ pc' = "assertion")
        \/ /\ pc' = then /\ avail_4ks' = Tail(avail_4ks)
           /\ held' = held \cup {Head(avail_4ks)}
           /\ objects' = objects \/ objects' = objects \cup {Head(avail_4ks)}
  BY DEF Take, Stop
<1> QED BY <1>1, <1>2, <1>3, <1>4

LEMMA ReleaseFacts ==
  ASSUME SizesAssumption, Typed, Placed, Owners, NEW chunk \in held, Release(chunk)
  PROVE  /\ avail_4ks' \in Seq(Chunk) /\ IsInjective(avail_4ks')
         /\ held' = held \ {chunk} /\ objects' \subseteq held'
         /\ Apart(ToSet(avail_4ks'), held', ToSet(avail_4ms), job)
         /\ Kept(ToSet(avail_4ks), held, ToSet(avail_4ms), job,
                 ToSet(avail_4ks'), held', ToSet(avail_4ms), job)
         /\ ToSet(avail_4ks') \cup held' = ToSet(avail_4ks) \cup held
<1>1. /\ avail_4ks' = <<chunk>> \o avail_4ks /\ held' = held \ {chunk}
      /\ objects' = objects \ {chunk}
  BY DEF Release, Cleared
<1>2. chunk \in Chunk /\ avail_4ks \in Seq(Chunk) /\ objects \subseteq held
  BY DEF Typed
<1>3. chunk \notin ToSet(avail_4ks) /\ IsInjective(avail_4ks)
  BY DEF Owners, Apart
<1>4. /\ avail_4ks' \in Seq(Chunk) /\ IsInjective(avail_4ks')
      /\ ToSet(avail_4ks') = {chunk} \cup ToSet(avail_4ks)
  BY <1>1, <1>2, <1>3, PushFacts
<1>5. /\ Sets(ToSet(avail_4ks), held, ToSet(avail_4ms), job)
      /\ Apart(ToSet(avail_4ks), held, ToSet(avail_4ms), job)
  BY ListsAreSets DEF Owners
<1>6. /\ Apart(ToSet(avail_4ks'), held', ToSet(avail_4ms), job)
      /\ Kept(ToSet(avail_4ks), held, ToSet(avail_4ms), job,
              ToSet(avail_4ks'), held', ToSet(avail_4ms), job)
  BY <1>1, <1>4, <1>5, FreeChunk
<1> QED BY <1>1, <1>2, <1>4, <1>6

-----------------------------------------------------------------------------
(* Each action keeps the invariant.                                        *)

LEMMA AddRegionStays == ASSUME SizesAssumption, IInv, AddRegion PROVE IInv'
<1> DEFINE F == ToSet(avail_4ks)
           G == ToSet(avail_4ms)
           r == booted + 1
<1> USE DEF IInv
<1>1. /\ pc = "boot" /\ job = NoJob /\ Booting /\ ~refill_running /\ nested = {}
      /\ job \in Job /\ ~Looping /\ Lossless
  BY DEF AddRegion, Placed, Looping, InMemFx, Lossless
<1>2. /\ boot' = boot /\ avail_4ms' = avail_4ms /\ avail_4ks' = avail_4ks
      /\ refill_running' = refill_running /\ held' = held /\ objects' = objects
      /\ nested' = nested
  BY DEF AddRegion, lists
<1>3. Regions \in Nat /\ booted \in Nat /\ r \in 1 .. Regions /\ booted < Regions
  BY <1>1, UnitFacts DEF Typed, Booting
<1>4. /\ Sets(F, held, G, NoJob) /\ Apart(F, held, G, NoJob)
  BY <1>1, ListsAreSets DEF Owners
<1>5. \A c \in Chunks : c \in Chunk /\ c[1] \in Nat /\ c[1] <= booted
  BY <1>1, ListsAreSets, UnitFacts DEF Chunks, Used, Typed
<1>6. boot \in [1 .. Regions -> BootSizes]
  BY DEF Typed
<1>7. Chunks' = Chunks
  BY <1>2 DEF Chunks
<1> HIDE DEF F, G
<1>8. CASE boot[r] < BITS_4KIB
  <2>1. /\ booted' = r /\ job' = job
        /\ pc' = IF r = Regions THEN "idle" ELSE "boot"
    BY <1>8 DEF AddRegion
  <2>2. Typed'
    BY <1>2, <1>3, <2>1 DEF Typed
  <2>3. Placed'
    BY <1>1, <1>2, <1>3, <2>1 DEF Placed, Booting, Looping, InMemFx
  <2>4. Used'
    BY <1>3, <1>5, <1>7, <2>1 DEF Used, Looping
  <2>5. Owners'
    BY <1>2, <2>1 DEF Owners
  <2>6. Accounted'
    <3>1. SUFFICES ASSUME NEW q \in 1 .. Regions, q <= r
                   PROVE  Counted(boot', q, ToSet(avail_4ks'), held', ToSet(avail_4ms'), job')
      BY <2>1 DEF Accounted, Looping
    <3>2. CASE q = r
      <4>1. Size(boot, q) = 0
        BY <1>6, <1>8, <3>2, SizeFacts
      <4> QED BY <4>1, <1>2 DEF Counted
    <3>3. CASE q <= booted
      <4>1. Counted(boot, q, ToSet(avail_4ks), held, ToSet(avail_4ms), job)
        BY <1>1, <3>3 DEF Accounted
      <4> QED BY <4>1, <1>2, <2>1
    <3> QED BY <3>1, <3>2, <3>3, <1>3
  <2> QED BY <2>2, <2>3, <2>4, <2>5, <2>6
<1>9. CASE ~(boot[r] < BITS_4KIB)
  <2>1. /\ job' = [kind |-> IF boot[r] >= BITS_4MIB THEN "4m" ELSE "4k", region |-> r,
                   next |-> 0, end |-> Units(r), split |-> boot[r] \notin {BITS_4KIB, BITS_4MIB}]
        /\ pc' = "turn" /\ booted' = booted
    BY <1>9 DEF AddRegion
  <2>2. /\ Units(r) = Size(boot, r) /\ Units(r) \in Nat
        /\ boot[r] >= BITS_4MIB => \E k \in Nat : Units(r) = k * PerLarge
    <3>1. boot[r] \in Nat /\ BITS_4KIB \in Nat
      BY <1>3, <1>6, SizeFacts
    <3>2. boot[r] >= BITS_4KIB
      BY <3>1, <1>9
    <3>3. Units(r) = Size(boot, r)
      BY DEF Units, Size
    <3> QED BY <3>2, <3>3, <1>3, <1>6, SizeFacts
  <2> HIDE DEF r
  <2>3. /\ job' \in Job /\ job'.region = r /\ job'.next = 0 /\ job'.end = Units(r)
        /\ job'.kind = IF boot[r] >= BITS_4MIB THEN "4m" ELSE "4k"
    <3>1. (boot[r] \notin {BITS_4KIB, BITS_4MIB}) \in BOOLEAN
      OBVIOUS
    <3>2. (IF boot[r] >= BITS_4MIB THEN "4m" ELSE "4k") \in {"none", "4m", "4k"}
      OBVIOUS
    <3> QED BY <2>1, <2>2, <1>3, <3>1, <3>2 DEF Job
  <2>4. Whole(job') /\ job'.next <= job'.end /\ job'.kind # "none"
    <3>1. job'.kind = "4m" => \E k \in Nat : job'.end = k * PerLarge
      BY <2>2, <2>3
    <3>2. PerLarge \in Nat
      BY UnitFacts
    <3>3. ASSUME NEW k \in Nat, job'.end = k * PerLarge PROVE job'.end = job'.next + k * PerLarge
      BY <3>2, <3>3, <2>3, <2>2
    <3>4. Whole(job')
      BY <3>1, <3>3 DEF Whole
    <3>5. job'.kind # "none"
      BY <2>3
    <3> QED BY <3>4, <3>5, <2>2, <2>3
  <2>5. /\ Sets(F, held, G, job') /\ Apart(F, held, G, job')
        /\ Kept(F, held, G, NoJob, F, held, G, job')
    <3>1. \A c \in (F \cup held) \cup G : c[1] # job'.region
      <4>1. \A c \in Chunks : c[1] # r
        BY <1>3, <1>5 DEF r
      <4> QED BY <4>1, <2>3 DEF Chunks, F, G
    <3> QED BY <1>4, <2>3, <3>1, StartJob
  <2>6. Typed'
    BY <1>2, <2>1 DEF Typed
  <2>7. Placed'
    <3>1. Booting' /\ Looping' /\ pc' = "turn"
      BY <1>1, <1>2, <2>1 DEF Booting, Looping
    <3> QED BY <1>1, <1>2, <2>1, <2>3, <2>4, <3>1 DEF Placed, InMemFx, r
  <2>8. Used'
    BY <1>3, <1>5, <1>7, <2>1 DEF Used, Looping
  <2>9. Owners'
    BY <1>2, <2>5 DEF Owners, F, G
  <2>10. Accounted'
    <3>1. SUFFICES ASSUME NEW q \in 1 .. Regions, q <= booted \/ q = r
                   PROVE  Counted(boot', q, ToSet(avail_4ks'), held', ToSet(avail_4ms'), job')
      BY <2>1 DEF Accounted, r
    <3>2. CASE q = r
      <4>1. ASSUME NEW u \in 0 .. Size(boot, r) - 1 PROVE Left(job', <<r, u>>)
        BY <2>2, <2>3, <4>1 DEF Left
      <4> QED BY <4>1, <3>2, <1>2 DEF Counted, Owned
    <3>3. CASE q <= booted
      BY <1>1, <1>2, <2>5, <3>3, Account DEF F, G
    <3> QED BY <3>1, <3>2, <3>3
  <2> QED BY <2>6, <2>7, <2>8, <2>9, <2>10
<1> QED BY <1>8, <1>9

LEMMA RegionDoneStays == ASSUME SizesAssumption, IInv, RegionDone PROVE IInv'
<1> USE DEF IInv
<1>1. /\ pc = "turn" /\ Booting /\ Looping /\ job.next = job.end
      /\ ~refill_running /\ nested = {} /\ Lossless
  BY DEF RegionDone, Placed, Looping, InMemFx, Lossless
<1>2. /\ boot' = boot /\ avail_4ms' = avail_4ms /\ avail_4ks' = avail_4ks
      /\ refill_running' = refill_running /\ held' = held /\ objects' = objects
      /\ nested' = nested /\ job' = NoJob /\ booted' = booted + 1
      /\ pc' = IF booted + 1 = Regions THEN "idle" ELSE "boot"
  BY DEF RegionDone, lists
<1>3. Regions \in Nat /\ booted \in Nat /\ booted < Regions /\ booted + 1 \in 0 .. Regions
  BY <1>1, UnitFacts DEF Typed, Booting
<1>4. /\ Sets(ToSet(avail_4ks), held, ToSet(avail_4ms), NoJob)
      /\ Apart(ToSet(avail_4ks), held, ToSet(avail_4ms), NoJob)
      /\ Kept(ToSet(avail_4ks), held, ToSet(avail_4ms), job,
              ToSet(avail_4ks), held, ToSet(avail_4ms), NoJob)
  BY <1>1, ListsAreSets, EndJob DEF Owners
<1>5. Typed'
  BY <1>2, <1>3 DEF Typed
<1>6. Placed'
  <2>1. NoJob \in Job /\ NoJob.next <= NoJob.end /\ Whole(NoJob)
    BY <1>4 DEF Sets, NoJob, Whole
  <2> QED BY <1>1, <1>2, <1>3, <2>1 DEF Placed, Booting, Looping, InMemFx
<1>7. Used'
  <2>1. Chunks' = Chunks /\ \A c \in Chunks : c[1] <= booted + 1
    BY <1>1, <1>2 DEF Chunks, Used
  <2> QED BY <2>1, <1>2 DEF Used, Looping
<1>8. Owners'
  BY <1>2, <1>4 DEF Owners
<1>9. Accounted'
  <2>1. SUFFICES ASSUME NEW q \in 1 .. Regions, q <= booted + 1
                 PROVE  Counted(boot', q, ToSet(avail_4ks'), held', ToSet(avail_4ms'), job')
    BY <1>2 DEF Accounted, Looping
  <2>2. q <= booted \/ q = booted + 1
    BY <2>1, <1>3
  <2> QED BY <1>1, <1>2, <1>4, <2>2, Account
<1> QED BY <1>5, <1>6, <1>7, <1>8, <1>9

(* A loop gives up, for want of slots or of memory for a node. *)
LEMMA GiveUpStays ==
  ASSUME SizesAssumption, IInv, Looping, GiveUp, nested' = {},
         UNCHANGED <<boot, booted, lists, refill_running, held, objects>>
  PROVE  IInv'
<1> USE DEF IInv
<1>1. /\ boot' = boot /\ booted' = booted /\ avail_4ms' = avail_4ms /\ avail_4ks' = avail_4ks
      /\ refill_running' = refill_running /\ held' = held /\ objects' = objects
      /\ job' = NoJob /\ pc' = IF Booting THEN "stopped" ELSE "idle"
  BY DEF GiveUp, lists
<1>2. /\ Sets(ToSet(avail_4ks), held, ToSet(avail_4ms), NoJob)
      /\ Apart(ToSet(avail_4ks), held, ToSet(avail_4ms), NoJob)
  BY ListsAreSets, EndJob DEF Owners
<1>3. Typed'
  BY <1>1 DEF Typed
<1>4. Placed'
  <2>1. NoJob \in Job /\ NoJob.next <= NoJob.end /\ Whole(NoJob)
    BY <1>2 DEF Sets, NoJob, Whole
  <2>2. Booting' = Booting
    BY <1>1 DEF Booting
  <2> QED BY <1>1, <2>1, <2>2 DEF Placed, Looping, InMemFx
<1>5. Used'
  BY <1>1 DEF Used, Looping
<1>6. Owners'
  BY <1>1, <1>2 DEF Owners
<1>7. Accounted'
  <2>1. ~Lossless'
    BY <1>1 DEF Lossless, Looping, Placed
  <2> QED BY <2>1 DEF Accounted
<1> QED BY <1>3, <1>4, <1>5, <1>6, <1>7

LEMMA TurnStays == ASSUME SizesAssumption, IInv, Turn PROVE IInv'
<1>1. /\ pc = "turn" /\ Looping /\ job.next < job.end
      /\ UNCHANGED <<boot, booted, lists, refill_running, held, objects, nested>>
  BY DEF Turn, Looping
<1>2. nested = {}
  BY <1>1 DEF IInv, Placed, InMemFx
<1>3. CASE GiveUp
  BY <1>1, <1>2, <1>3, GiveUpStays
<1>4. CASE pc' = "fx" /\ job' = job
  <2> USE DEF IInv
  <2>1. /\ boot' = boot /\ booted' = booted /\ avail_4ms' = avail_4ms /\ avail_4ks' = avail_4ks
        /\ refill_running' = refill_running /\ held' = held /\ objects' = objects
        /\ nested' = nested
    BY <1>1 DEF lists
  <2>2. Booting' = Booting /\ Looping' = Looping /\ Chunks' = Chunks
    BY <1>1, <1>4, <2>1 DEF Booting, Looping, Chunks
  <2>3. Typed'
    BY <1>4, <2>1 DEF Typed
  <2>4. Placed'
    BY <1>1, <1>2, <1>4, <2>1, <2>2 DEF Placed, InMemFx
  <2>5. Used'
    BY <1>4, <2>1, <2>2, <1>1 DEF Used
  <2>6. Owners'
    BY <1>4, <2>1 DEF Owners
  <2>7. Accounted'
    BY <1>1, <1>4, <2>1, <2>2 DEF Accounted, Lossless
  <2> QED BY <2>3, <2>4, <2>5, <2>6, <2>7
<1> QED BY <1>3, <1>4 DEF Turn

LEMMA AddFailsStays == ASSUME SizesAssumption, IInv, AddFails PROVE IInv'
BY GiveUpStays DEF AddFails, Looping

(* The next unit, or the next units, of the region become a chunk. *)
LEMMA NodeFacts ==
  ASSUME SizesAssumption, IInv, AddNode
  PROVE  /\ avail_4ks' \in Seq(Chunk) /\ avail_4ms' \in Seq(Chunk)
         /\ Chunks' \subseteq Chunks \cup {<<job.region, job.next>>}
         /\ job' \in Job /\ job'.next <= job'.end /\ Whole(job')
         /\ job'.kind # "none" /\ job'.region = job.region
         /\ Owners'
         /\ Kept(ToSet(avail_4ks), held, ToSet(avail_4ms), job,
                 ToSet(avail_4ks'), held', ToSet(avail_4ms'), job')
<1> DEFINE c == <<job.region, job.next>>
<1> USE DEF IInv
<1>1. /\ pc = "fx" /\ held' = held
      /\ job' = [job EXCEPT !.next = @ + Step(job.kind)]
  BY DEF AddNode
<1>2. job \in Job /\ job.next \in Nat /\ job.end \in Nat /\ job.next < job.end
      /\ job.kind # "none" /\ Whole(job)
  BY <1>1 DEF Placed, Looping, Job
<1>3. /\ Sets(ToSet(avail_4ks), held, ToSet(avail_4ms), job)
      /\ Apart(ToSet(avail_4ks), held, ToSet(avail_4ms), job)
      /\ avail_4ks \in Seq(Chunk) /\ avail_4ms \in Seq(Chunk)
      /\ IsInjective(avail_4ks) /\ IsInjective(avail_4ms)
  BY ListsAreSets DEF Typed, Owners
<1> HIDE DEF c
<1>4. CASE job.kind = "4m"
  <2>1. /\ avail_4ms' = <<c>> \o avail_4ms /\ avail_4ks' = avail_4ks
        /\ job' = [job EXCEPT !.next = @ + PerLarge]
    BY <1>1, <1>4 DEF AddNode, Step, c
  <2>2. job.next + PerLarge <= job.end /\ Whole(job')
    BY <1>2, <1>4, <2>1, NextWhole
  <2>3. LET L2 == {c} \cup ToSet(avail_4ms)
        IN  /\ c \in Chunk /\ c \notin ToSet(avail_4ms)
            /\ Sets(ToSet(avail_4ks), held, L2, job') /\ Apart(ToSet(avail_4ks), held, L2, job')
            /\ Kept(ToSet(avail_4ks), held, ToSet(avail_4ms), job, ToSet(avail_4ks), held, L2, job')
    BY <1>3, <2>1, <2>2, CutLarge DEF c
  <2>4. /\ avail_4ms' \in Seq(Chunk) /\ IsInjective(avail_4ms')
        /\ ToSet(avail_4ms') = {c} \cup ToSet(avail_4ms)
    BY <1>3, <2>1, <2>3, PushFacts
  <2>5. job'.next = job.next + PerLarge /\ job'.end = job.end /\ job'.kind = job.kind
        /\ job'.region = job.region
    BY <1>2, <2>1 DEF Job
  <2>6. Owners'
    BY <1>1, <1>3, <2>1, <2>3, <2>4 DEF Owners
  <2>7. Chunks' \subseteq Chunks \cup {c}
    BY <1>1, <2>1, <2>4 DEF Chunks
  <2>8. job' \in Job
    BY <2>3 DEF Sets
  <2> QED BY <1>1, <1>2, <1>3, <2>1, <2>2, <2>3, <2>4, <2>5, <2>6, <2>7, <2>8 DEF c
<1>5. CASE job.kind # "4m"
  <2>1. /\ avail_4ks' = <<c>> \o avail_4ks /\ avail_4ms' = avail_4ms
        /\ job' = [job EXCEPT !.next = @ + 1]
    BY <1>1, <1>5 DEF AddNode, Push, Step, c
  <2>2. LET A2 == {c} \cup ToSet(avail_4ks)
        IN  /\ c \in Chunk /\ c \notin ToSet(avail_4ks)
            /\ Sets(A2, held, ToSet(avail_4ms), job') /\ Apart(A2, held, ToSet(avail_4ms), job')
            /\ Kept(ToSet(avail_4ks), held, ToSet(avail_4ms), job, A2, held, ToSet(avail_4ms), job')
    BY <1>2, <1>3, <2>1, CutSmall DEF c
  <2>3. /\ avail_4ks' \in Seq(Chunk) /\ IsInjective(avail_4ks')
        /\ ToSet(avail_4ks') = {c} \cup ToSet(avail_4ks)
    BY <1>3, <2>1, <2>2, PushFacts
  <2>4. job'.next = job.next + 1 /\ job'.end = job.end /\ job'.kind = job.kind
        /\ job'.region = job.region
    BY <1>2, <2>1 DEF Job
  <2>5. Owners'
    BY <1>1, <1>3, <2>1, <2>2, <2>3 DEF Owners
  <2>6. Chunks' \subseteq Chunks \cup {c}
    BY <1>1, <2>1, <2>3 DEF Chunks
  <2>7. Whole(job') /\ job'.next <= job'.end
    BY <1>2, <1>5, <2>4 DEF Whole
  <2>8. job' \in Job
    BY <2>2 DEF Sets
  <2> QED BY <1>1, <1>2, <1>3, <2>1, <2>2, <2>3, <2>4, <2>5, <2>6, <2>7, <2>8 DEF c
<1> QED BY <1>4, <1>5

LEMMA AddNodeStays == ASSUME SizesAssumption, IInv, AddNode PROVE IInv'
<1> USE DEF IInv
<1>1. /\ pc = "fx" /\ pc' = "turn" /\ boot' = boot /\ booted' = booted
      /\ refill_running' = refill_running /\ held' = held /\ objects' = objects
      /\ nested' = {}
  BY DEF AddNode
<1>2. Booting' = Booting /\ Looping' = Looping /\ Looping /\ Looping'
  BY <1>1 DEF Booting, Looping
<1>3. Typed'
  BY <1>1, NodeFacts DEF Typed
<1>4. Placed'
  BY <1>1, <1>2, NodeFacts DEF Placed, InMemFx
<1>5. Used'
  <2>1. SUFFICES ASSUME Booting, NEW c \in Chunks' PROVE c[1] <= booted + 1
    BY <1>1, <1>2 DEF Used
  <2>2. CASE c \in Chunks
    BY <1>2, <2>1, <2>2 DEF Used
  <2>3. CASE c = <<job.region, job.next>>
    <3>1. c[1] = booted + 1 /\ booted \in Nat
      BY <1>2, <2>1, <2>3, UnitFacts DEF Placed, Typed
    <3> QED BY <3>1
  <2> QED BY <2>1, <2>2, <2>3, NodeFacts
<1>6. Accounted'
  <2>1. SUFFICES ASSUME Lossless', NEW q \in 1 .. Regions,
                        q <= booted \/ (Booting /\ Looping /\ q = booted + 1)
                 PROVE  Counted(boot', q, ToSet(avail_4ks'), held', ToSet(avail_4ms'), job')
    BY <1>1, <1>2 DEF Accounted
  <2>2. Lossless
    BY <1>1, <1>2 DEF Lossless
  <2> QED BY <1>1, <2>1, <2>2, NodeFacts, Account
<1> QED BY <1>3, <1>4, <1>5, <1>6, NodeFacts

LEMMA FreeStays == ASSUME SizesAssumption, IInv, NEW chunk \in held, Free(chunk) PROVE IInv'
<1> USE DEF IInv
<1>1. pc = "idle" /\ Release(chunk) /\ nested' = nested
  BY DEF Free
<1>2. /\ boot' = boot /\ booted' = booted /\ avail_4ms' = avail_4ms
      /\ refill_running' = refill_running /\ pc' = pc /\ job' = job
  BY <1>1 DEF Release
<1>3. ~Booting /\ ~Looping /\ nested = {}
  BY <1>1 DEF Placed, Looping, InMemFx
<1>4. Booting' = Booting /\ Looping' = Looping
  BY <1>2 DEF Booting, Looping
<1>5. Typed'
  BY <1>1, <1>2, <1>3, ReleaseFacts DEF Typed
<1>6. Placed'
  BY <1>1, <1>2, <1>3, <1>4 DEF Placed, InMemFx
<1>7. Used'
  BY <1>1, <1>2, <1>3, <1>4 DEF Used
<1>8. Owners'
  BY <1>1, <1>2, ReleaseFacts DEF Owners
<1>9. Accounted'
  <2>1. SUFFICES ASSUME Lossless', NEW q \in 1 .. Regions, q <= booted
                 PROVE  Counted(boot', q, ToSet(avail_4ks'), held', ToSet(avail_4ms'), job')
    BY <1>2, <1>3, <1>4 DEF Accounted
  <2>2. Lossless
    BY <1>2, <1>4, <2>1 DEF Lossless
  <2>3. Kept(ToSet(avail_4ks), held, ToSet(avail_4ms), job,
             ToSet(avail_4ks'), held', ToSet(avail_4ms'), job')
    BY <1>1, <1>2, ReleaseFacts
  <2> QED BY <1>2, <2>1, <2>2, <2>3, Account
<1> QED BY <1>5, <1>6, <1>7, <1>8, <1>9

LEMMA NestedFreeStays ==
  ASSUME SizesAssumption, IInv, NEW chunk \in nested, NestedFree(chunk) PROVE IInv'
<1> USE DEF IInv
<1>1. InMemFx /\ ~Booting /\ Release(chunk) /\ nested' = nested \ {chunk}
  BY DEF NestedFree
<1>2. /\ boot' = boot /\ booted' = booted /\ avail_4ms' = avail_4ms
      /\ refill_running' = refill_running /\ pc' = pc /\ job' = job
  BY <1>1 DEF Release
<1>3. Booting' = Booting /\ Looping' = Looping /\ InMemFx' = InMemFx
  BY <1>2 DEF Booting, Looping, InMemFx
<1>4. chunk \in held
  BY DEF Typed
<1>5. /\ avail_4ks' \in Seq(Chunk) /\ IsInjective(avail_4ks')
      /\ held' = held \ {chunk} /\ objects' \subseteq held'
      /\ Apart(ToSet(avail_4ks'), held', ToSet(avail_4ms), job)
      /\ Kept(ToSet(avail_4ks), held, ToSet(avail_4ms), job,
              ToSet(avail_4ks'), held', ToSet(avail_4ms), job)
  BY <1>1, <1>4, ReleaseFacts
<1>6. Typed'
  BY <1>1, <1>2, <1>5 DEF Typed
<1>7. Placed'
  BY <1>1, <1>2, <1>3 DEF Placed
<1>8. Used'
  BY <1>1, <1>2, <1>3 DEF Used, InMemFx
<1>9. Owners'
  BY <1>2, <1>5 DEF Owners
<1>10. Accounted'
  <2>1. SUFFICES ASSUME Lossless', NEW q \in 1 .. Regions, q <= booted
                 PROVE  Counted(boot', q, ToSet(avail_4ks'), held', ToSet(avail_4ms'), job')
    BY <1>1, <1>2, <1>3 DEF Accounted
  <2>2. Lossless
    BY <1>2, <1>3, <2>1 DEF Lossless
  <2> QED BY <1>2, <1>5, <2>1, <2>2, Account
<1> QED BY <1>6, <1>7, <1>8, <1>9, <1>10

LEMMA NestedAllocateStays == ASSUME SizesAssumption, IInv, NestedAllocate PROVE IInv'
<1> USE DEF IInv
<1>1. InMemFx /\ ~Booting /\ Take("typed", pc) /\ nested' = nested \cup (held' \ held)
  BY DEF NestedAllocate, MayRefill
<1>2. /\ boot' = boot /\ booted' = booted /\ avail_4ms' = avail_4ms
      /\ refill_running' = refill_running /\ job' = job
  BY DEF NestedAllocate
<1>3. /\ Sets(ToSet(avail_4ks), held, ToSet(avail_4ms), job)
      /\ Apart(ToSet(avail_4ks), held, ToSet(avail_4ms), job)
  BY ListsAreSets DEF Owners
<1>4. /\ pc' = pc \/ pc' = "assertion"
      /\ avail_4ks' \in Seq(Chunk) /\ IsInjective(avail_4ks')
      /\ held \subseteq held' /\ held' \subseteq Chunk /\ objects' \subseteq held'
      /\ Apart(ToSet(avail_4ks'), held', ToSet(avail_4ms), job)
      /\ Kept(ToSet(avail_4ks), held, ToSet(avail_4ms), job,
              ToSet(avail_4ks'), held', ToSet(avail_4ms), job)
  BY <1>1, <1>3, TakeFacts
<1>5. Booting' = Booting
  BY <1>2 DEF Booting
<1>6. Typed'
  BY <1>1, <1>2, <1>4 DEF Typed
<1>7. Placed'
  <2>1. CASE pc' = "assertion"
    BY <1>1, <1>2, <1>5, <2>1 DEF Placed, Looping
  <2>2. CASE pc' = pc
    <3>1. Looping' = Looping /\ InMemFx' = InMemFx
      BY <2>2 DEF Looping, InMemFx
    <3> QED BY <1>1, <1>2, <1>5, <2>2, <3>1 DEF Placed
  <2> QED BY <1>4, <2>1, <2>2
<1>8. Used'
  BY <1>1, <1>4, <1>5 DEF Used, InMemFx
<1>9. Owners'
  BY <1>2, <1>4 DEF Owners
<1>10. Accounted'
  <2>1. SUFFICES ASSUME Lossless', NEW q \in 1 .. Regions, q <= booted
                 PROVE  Counted(boot', q, ToSet(avail_4ks'), held', ToSet(avail_4ms'), job')
    BY <1>1, <1>2, <1>5 DEF Accounted
  <2>2. Lossless
    BY <1>2, <1>4, <2>1 DEF Lossless, Looping
  <2> QED BY <1>2, <1>4, <2>1, <2>2, Account
<1> QED BY <1>6, <1>7, <1>8, <1>9, <1>10

(* Steps that leave the memory alone: mem_fx_alloc begins or ends, or an   *)
(* allocation fails before it does anything.                               *)
LEMMA QuietStays ==
  ASSUME SizesAssumption, IInv, pc \in {"idle", "user_fx"},
         UNCHANGED <<boot, booted, avail_4ms, avail_4ks, refill_running, job, held, objects>>,
         pc' \in {"idle", "user_fx", "assertion"},
         nested' = nested \/ nested' = {}, pc' = "idle" => nested' = {}
  PROVE  IInv'
<1> USE DEF IInv
<1>1. /\ boot' = boot /\ booted' = booted /\ avail_4ms' = avail_4ms /\ avail_4ks' = avail_4ks
      /\ refill_running' = refill_running /\ job' = job /\ held' = held /\ objects' = objects
  OBVIOUS
<1>2. ~Booting /\ ~Booting' /\ ~Looping /\ ~Looping'
  BY <1>1 DEF Placed, Booting, Looping
<1>3. Typed'
  BY <1>1 DEF Typed
<1>4. Placed'
  BY <1>1, <1>2 DEF Placed, InMemFx
<1>5. Used'
  BY <1>2 DEF Used
<1>6. Owners'
  BY <1>1 DEF Owners
<1>7. Accounted'
  <2>1. Lossless' => Lossless
    BY <1>1, <1>2 DEF Lossless
  <2> QED BY <1>1, <1>2, <2>1 DEF Accounted
<1> QED BY <1>3, <1>4, <1>5, <1>6, <1>7

LEMMA UserStays == ASSUME SizesAssumption, IInv, UserMemFx \/ UserMemFxEnds PROVE IInv'
<1>1. CASE UserMemFx
  <2>1. pc = "idle" /\ pc' = "user_fx" /\ nested' = nested
    BY <1>1 DEF UserMemFx
  <2>2. UNCHANGED <<boot, booted, avail_4ms, avail_4ks, refill_running, job, held, objects>>
    BY <1>1 DEF UserMemFx, lists
  <2> QED BY <2>1, <2>2, QuietStays
<1>2. CASE UserMemFxEnds
  <2>1. pc = "user_fx" /\ pc' = "idle" /\ nested' = {}
    BY <1>2 DEF UserMemFxEnds
  <2>2. UNCHANGED <<boot, booted, avail_4ms, avail_4ks, refill_running, job, held, objects>>
    BY <1>2 DEF UserMemFxEnds, lists
  <2> QED BY <2>1, <2>2, QuietStays
<1> QED BY <1>1, <1>2

(* An allocation takes a chunk, or ends a refill and then takes one. *)
LEMMA TakeStays ==
  ASSUME SizesAssumption, IInv, NEW how, Take(how, "idle"),
         pc = "idle" \/ (pc = "turn" /\ ~Booting /\ job.next = job.end),
         boot' = boot, booted' = booted, avail_4ms' = avail_4ms, job' = NoJob, nested' = nested,
         refill_running' \in BOOLEAN, pc = "turn" => ~refill_running',
         pc = "idle" => refill_running' = refill_running
  PROVE  IInv'
<1> USE DEF IInv
<1>1. /\ ~Booting /\ ~Booting' /\ nested = {}
      /\ pc = "turn" => Looping
      /\ pc = "idle" => job = NoJob
  BY DEF Placed, Booting, Looping, InMemFx
<1>2. /\ Sets(ToSet(avail_4ks), held, ToSet(avail_4ms), job)
      /\ Apart(ToSet(avail_4ks), held, ToSet(avail_4ms), job)
  BY ListsAreSets DEF Owners
<1>3. /\ Sets(ToSet(avail_4ks), held, ToSet(avail_4ms), NoJob)
      /\ Apart(ToSet(avail_4ks), held, ToSet(avail_4ms), NoJob)
  BY <1>2, EndJob
<1>4. Kept(ToSet(avail_4ks), held, ToSet(avail_4ms), job,
           ToSet(avail_4ks), held, ToSet(avail_4ms), NoJob)
  <2>1. CASE pc = "idle"
    BY <1>1, <2>1 DEF Kept
  <2>2. CASE pc = "turn"
    <3>1. job.next = job.end
      BY <2>2
    <3> QED BY <1>2, <3>1, EndJob
  <2> QED BY <2>1, <2>2
<1>5. /\ pc' = "idle" \/ pc' = "assertion"
      /\ avail_4ks' \in Seq(Chunk) /\ IsInjective(avail_4ks')
      /\ held \subseteq held' /\ held' \subseteq Chunk /\ objects' \subseteq held'
      /\ Apart(ToSet(avail_4ks'), held', ToSet(avail_4ms), NoJob)
      /\ Kept(ToSet(avail_4ks), held, ToSet(avail_4ms), NoJob,
              ToSet(avail_4ks'), held', ToSet(avail_4ms), NoJob)
  BY <1>3, TakeFacts
<1>6. ~Looping'
  BY <1>5 DEF Looping
<1>7. Typed'
  BY <1>1, <1>5 DEF Typed
<1>8. Placed'
  <2>1. NoJob \in Job /\ NoJob.next <= NoJob.end /\ Whole(NoJob)
    BY <1>3 DEF Sets, NoJob, Whole
  <2> QED BY <1>1, <1>5, <1>6, <2>1 DEF Placed, InMemFx
<1>9. Used'
  BY <1>1, <1>5 DEF Used
<1>10. Owners'
  BY <1>5 DEF Owners
<1>11. Accounted'
  <2>1. SUFFICES ASSUME Lossless', NEW q \in 1 .. Regions, q <= booted
                 PROVE  Counted(boot', q, ToSet(avail_4ks'), held', ToSet(avail_4ms'), job')
    BY <1>1 DEF Accounted
  <2>2. Lossless
    <3>1. ~refill_running'
      BY <1>6, <2>1 DEF Lossless
    <3>2. CASE pc = "turn"
      BY <1>1, <3>2 DEF Lossless
    <3>3. CASE pc = "idle"
      <4>1. ~refill_running
        BY <3>1, <3>3
      <4> QED BY <4>1, <3>3 DEF Lossless
    <3> QED BY <3>2, <3>3
  <2>3. Kept(ToSet(avail_4ks), held, ToSet(avail_4ms), job,
             ToSet(avail_4ks'), held', ToSet(avail_4ms'), job')
    BY <1>4, <1>5 DEF Kept
  <2> QED BY <2>1, <2>2, <2>3, Account
<1> QED BY <1>7, <1>8, <1>9, <1>10, <1>11

(* A refill starts. *)
LEMMA RefillStays ==
  ASSUME SizesAssumption, IInv, pc = "idle", avail_4ms # <<>>, pc' = "turn",
         boot' = boot, booted' = booted, avail_4ks' = avail_4ks, held' = held,
         objects' = objects, nested' = nested, ~refill_running, refill_running' = TRUE,
         avail_4ms' = Tail(avail_4ms),
         job' = [kind |-> "4k", region |-> Head(avail_4ms)[1], next |-> Head(avail_4ms)[2],
                 end |-> Head(avail_4ms)[2] + PerLarge, split |-> TRUE]
  PROVE  IInv'
<1> USE DEF IInv
<1> DEFINE c == Head(avail_4ms)
           G2 == ToSet(Tail(avail_4ms))
<1>1. ~Booting /\ ~Booting' /\ nested = {} /\ job = NoJob /\ Looping' /\ Lossless
  BY DEF Placed, Booting, Looping, InMemFx, Lossless
<1>2. /\ c \in Chunk /\ Tail(avail_4ms) \in Seq(Chunk)
      /\ c \in ToSet(avail_4ms) /\ ToSet(avail_4ms) = {c} \cup G2
      /\ IsInjective(Tail(avail_4ms)) /\ c \notin G2
  BY PopFacts DEF Typed, Owners
<1> HIDE DEF c, G2
<1>3. /\ Sets(ToSet(avail_4ks), held, {c} \cup G2, NoJob)
      /\ Apart(ToSet(avail_4ks), held, {c} \cup G2, NoJob)
  BY <1>1, <1>2, ListsAreSets DEF Owners
<1>4. c[1] \in 1 .. Regions /\ c[2] \in Nat /\ PerLarge \in Nat /\ PerLarge > 0
  BY <1>2, UnitFacts
<1>5. /\ job'.region = c[1] /\ job'.next = c[2] /\ job'.end = c[2] + PerLarge
      /\ job'.kind = "4k" /\ job'.split = TRUE
  BY DEF c
<1>6. job' \in Job
  <2>1. job' = [kind |-> "4k", region |-> c[1], next |-> c[2], end |-> c[2] + PerLarge,
                split |-> TRUE]
    BY DEF c
  <2>2. c[2] + PerLarge \in Nat
    BY <1>4
  <2> HIDE DEF PerLarge
  <2> QED BY <1>4, <2>1, <2>2 DEF Job
<1>7. /\ Apart(ToSet(avail_4ks), held, G2, job')
      /\ Kept(ToSet(avail_4ks), held, {c} \cup G2, NoJob, ToSet(avail_4ks), held, G2, job')
  BY <1>2, <1>3, <1>5, <1>6, TakeLarge
<1>8. ToSet(avail_4ms') = G2
  BY DEF G2
<1>9. Typed'
  BY <1>2 DEF Typed
<1>10. Placed'
  <2>1. job'.next <= job'.end
    BY <1>4, <1>5
  <2> QED BY <1>1, <1>5, <1>6, <2>1 DEF Placed, Whole
<1>11. Used'
  BY <1>1 DEF Used
<1>12. Owners'
  BY <1>2, <1>7, <1>8 DEF Owners
<1>13. Accounted'
  <2>1. SUFFICES ASSUME NEW q \in 1 .. Regions, q <= booted
                 PROVE  Counted(boot', q, ToSet(avail_4ks'), held', ToSet(avail_4ms'), job')
    BY <1>1 DEF Accounted
  <2>2. Kept(ToSet(avail_4ks), held, ToSet(avail_4ms), job,
             ToSet(avail_4ks'), held', ToSet(avail_4ms'), job')
    BY <1>1, <1>2, <1>7, <1>8
  <2> QED BY <1>1, <2>1, <2>2, Account
<1> QED BY <1>9, <1>10, <1>11, <1>12, <1>13

LEMMA AllocateStays == ASSUME SizesAssumption, IInv, NEW how, Allocate(how) PROVE IInv'
<1>1. /\ pc = "idle" /\ boot' = boot /\ booted' = booted /\ nested' = nested
      /\ job = NoJob /\ nested = {} /\ refill_running \in BOOLEAN
  BY DEF Allocate, IInv, Placed, Looping, InMemFx, Typed
<1>2. CASE ~MayRefill
  BY <1>1, <1>2, TakeStays DEF Allocate
<1>3. CASE MayRefill /\ (avail_4ks_count = 0) # (avail_4ks = <<>>)
  <2>1. /\ pc' = "assertion"
        /\ UNCHANGED <<boot, booted, avail_4ms, avail_4ks, refill_running, job, held, objects>>
    BY <1>1, <1>3 DEF Allocate, Stop
  <2> QED BY <1>1, <2>1, QuietStays
<1>4. CASE /\ MayRefill /\ ~((avail_4ks_count = 0) # (avail_4ks = <<>>))
           /\ avail_4ms = <<>>
  <2>1. /\ pc' = pc
        /\ UNCHANGED <<boot, booted, avail_4ms, avail_4ks, refill_running, job, held, objects>>
    BY <1>1, <1>4 DEF Allocate
  <2> QED BY <1>1, <2>1, QuietStays
<1>5. CASE /\ MayRefill /\ ~((avail_4ks_count = 0) # (avail_4ks = <<>>))
           /\ avail_4ms # <<>>
  <2>1. /\ refill_running' = TRUE /\ ~refill_running /\ pc' = "turn"
        /\ avail_4ms' = Tail(avail_4ms)
        /\ job' = [kind |-> "4k", region |-> Head(avail_4ms)[1], next |-> Head(avail_4ms)[2],
                   end |-> Head(avail_4ms)[2] + PerLarge, split |-> TRUE]
        /\ avail_4ks' = avail_4ks /\ held' = held /\ objects' = objects
    BY <1>5 DEF Allocate, MayRefill
  <2> QED BY <1>1, <1>5, <2>1, RefillStays
<1> QED BY <1>2, <1>3, <1>4, <1>5

LEMMA RefillDoneStays == ASSUME SizesAssumption, IInv, RefillDone PROVE IInv'
<1>1. /\ pc = "turn" /\ ~Booting /\ job.next = job.end /\ Take(call, "idle")
      /\ boot' = boot /\ booted' = booted /\ avail_4ms' = avail_4ms /\ job' = NoJob
      /\ nested' = nested /\ refill_running' = FALSE
  BY DEF RefillDone
<1> QED BY <1>1, TakeStays

LEMMA Stays == ASSUME SizesAssumption, IInv, [Next]_vars PROVE IInv'
<1>1. CASE AddRegion
  BY <1>1, AddRegionStays
<1>2. CASE RegionDone
  BY <1>2, RegionDoneStays
<1>3. CASE Turn
  BY <1>3, TurnStays
<1>4. CASE AddNode
  BY <1>4, AddNodeStays
<1>5. CASE AddFails
  BY <1>5, AddFailsStays
<1>6. CASE \E how \in {"raw", "typed"} : Allocate(how)
  BY <1>6, AllocateStays
<1>7. CASE RefillDone
  BY <1>7, RefillDoneStays
<1>8. CASE \E chunk \in held : Free(chunk)
  BY <1>8, FreeStays
<1>9. CASE UserMemFx \/ UserMemFxEnds
  BY <1>9, UserStays
<1>10. CASE NestedAllocate
  BY <1>10, NestedAllocateStays
<1>11. CASE \E chunk \in nested : NestedFree(chunk)
  BY <1>11, NestedFreeStays
<1>12. CASE UNCHANGED vars
  <2>1. UNCHANGED <<boot, booted, avail_4ms, avail_4ks, refill_running, pc, job, held, objects,
                    nested>>
    BY <1>12 DEF vars, lists
  <2> QED BY <2>1 DEF IInv, Typed, Placed, Used, Chunks, Owners, Accounted, Lossless, Looping,
                      Booting, InMemFx
<1> QED BY <1>1, <1>2, <1>3, <1>4, <1>5, <1>6, <1>7, <1>8, <1>9, <1>10, <1>11, <1>12 DEF Next

-----------------------------------------------------------------------------
(* What follows.                                                           *)

LEMMA UnitSets ==
  ASSUME SizesAssumption, Typed, Placed, NEW x \in Chunk
  PROVE  /\ x \in LargeUnits <=> \E c \in ToSet(avail_4ms) : Behind(c, x)
         /\ x \in JobUnits <=> Left(job, x)
<1>1. PerLarge \in Nat /\ x = <<x[1], x[2]>> /\ x[2] \in Nat
  BY UnitFacts
<1>2. job.next \in Nat /\ job.end \in Nat
  BY DEF Placed, Job
<1> HIDE DEF PerLarge
<1>3. ASSUME NEW c \in ToSet(avail_4ms)
      PROVE  Behind(c, x) <=> \E u \in 0 .. PerLarge - 1 : x = <<c[1], c[2] + u>>
  <2>1. c[2] \in Nat
    BY ListsAreSets, UnitFacts
  <2>2. ASSUME Behind(c, x) PROVE \E u \in 0 .. PerLarge - 1 : x = <<c[1], c[2] + u>>
    <3>1. x[1] = c[1] /\ x[2] - c[2] \in 0 .. PerLarge - 1 /\ x[2] = c[2] + (x[2] - c[2])
      BY <1>1, <2>1, <2>2 DEF Behind
    <3>2. x = <<c[1], c[2] + (x[2] - c[2])>>
      BY <1>1, <3>1
    <3> QED BY <3>1, <3>2
  <2>3. ASSUME NEW u \in 0 .. PerLarge - 1, x = <<c[1], c[2] + u>> PROVE Behind(c, x)
    <3>1. x[1] = c[1] /\ x[2] = c[2] + u
      BY <2>3
    <3> QED BY <1>1, <2>1, <3>1 DEF Behind
  <2> QED BY <2>2, <2>3
<1>4. x \in LargeUnits <=> \E c \in ToSet(avail_4ms) : Behind(c, x)
  BY <1>3 DEF LargeUnits
<1>5. x \in JobUnits <=> Left(job, x)
  <2>1. ASSUME Left(job, x) PROVE x \in JobUnits
    <3>1. x[1] = job.region /\ x[2] \in job.next .. job.end - 1
      BY <1>1, <1>2, <2>1 DEF Left
    <3>2. x = <<job.region, x[2]>>
      BY <1>1, <3>1
    <3> QED BY <3>1, <3>2 DEF JobUnits
  <2>2. ASSUME x \in JobUnits PROVE Left(job, x)
    <3>1. PICK u \in job.next .. job.end - 1 : x = <<job.region, u>>
      BY <2>2 DEF JobUnits
    <3>2. x[1] = job.region /\ x[2] = u
      BY <3>1
    <3> QED BY <1>2, <3>1, <3>2 DEF Left
  <2> QED BY <2>1, <2>2
<1> QED BY <1>4, <1>5

LEMMA UnitsAreChunks ==
  ASSUME SizesAssumption, Typed, Placed PROVE LargeUnits \subseteq Chunk /\ JobUnits \subseteq Chunk
<1>1. PerLarge \in Nat /\ job.next \in Nat /\ job.end \in Nat /\ job.region \in 1 .. Regions
  BY UnitFacts DEF Placed, Job
<1> HIDE DEF PerLarge
<1>2. LargeUnits \subseteq Chunk
  <2>1. ASSUME NEW c \in ToSet(avail_4ms), NEW u \in 0 .. PerLarge - 1
        PROVE  <<c[1], c[2] + u>> \in Chunk
    <3>1. c[1] \in 1 .. Regions /\ c[2] \in Nat
      BY ListsAreSets, UnitFacts
    <3> QED BY <1>1, <3>1 DEF Chunk
  <2> QED BY <2>1 DEF LargeUnits
<1>3. JobUnits \subseteq Chunk
  BY <1>1 DEF JobUnits, Chunk
<1> QED BY <1>2, <1>3

LEMMA OnceFollows == ASSUME SizesAssumption, IInv PROVE MemoryOnce
<1> USE DEF IInv
<1>1. IsInjective(avail_4ks) /\ IsInjective(avail_4ms) /\ ToSet(avail_4ks) \cap held = {}
  BY DEF Owners, Apart
<1>2. ASSUME NEW x \in ToSet(avail_4ks) \cup held PROVE x \notin LargeUnits /\ x \notin JobUnits
  <2>1. x \in Chunk
    BY ListsAreSets DEF Typed
  <2>2. ~Left(job, x) /\ \A c \in ToSet(avail_4ms) : ~Behind(c, x)
    BY DEF Owners, Apart
  <2> QED BY <2>1, <2>2, UnitSets
<1>3. ASSUME NEW x \in LargeUnits PROVE x \notin JobUnits
  <2>1. x \in Chunk
    BY UnitsAreChunks
  <2>2. PICK c \in ToSet(avail_4ms) : Behind(c, x)
    BY <2>1, UnitSets
  <2>3. ~Left(job, x)
    BY <2>1, <2>2 DEF Owners, Apart
  <2> QED BY <2>1, <2>3, UnitSets
<1> QED BY <1>1, <1>2, <1>3 DEF MemoryOnce

LEMMA NothingLostFollows == ASSUME SizesAssumption, IInv PROVE NothingLost
<1> USE DEF IInv
<1>1. SUFFICES ASSUME pc \notin {"stopped", "assertion"}, refill_running => job.kind # "none",
                      NEW r \in 1 .. booted, NEW u \in 0 .. Units(r) - 1
               PROVE  <<r, u>> \in ToSet(avail_4ks) \cup held \cup LargeUnits \cup JobUnits
  BY DEF NothingLost
<1>2. Lossless
  BY <1>1 DEF Lossless, Placed, NoJob
<1>3. r \in 1 .. Regions /\ r <= booted
  BY UnitFacts DEF Typed
<1>4. Units(r) = Size(boot, r)
  BY DEF Units, Size
<1>5. Owned(ToSet(avail_4ks), held, ToSet(avail_4ms), job, <<r, u>>)
  BY <1>2, <1>3, <1>4 DEF Accounted, Counted
<1>6. <<r, u>> \in Chunk
  <2>1. Units(r) \in Nat
    BY <1>3, <1>4, SizeFacts DEF Typed
  <2>2. u \in Nat
    BY <2>1
  <2> QED BY <1>3, <2>2 DEF Chunk
<1> QED BY <1>5, <1>6, UnitSets DEF Owned

-----------------------------------------------------------------------------
(* The rest of the types, which the argument above does without.           *)

Bounded ==
  /\ avail_4ks_count \in Nat /\ slots \in 0 .. Slots
  /\ pc = "fx" => slots < Slots
  /\ call \in {"none", "raw", "typed"}
  /\ ret \in Places \cup {NULL}

LEMMA TakeBounded ==
  ASSUME Typed, Bounded, NEW how, NEW then, Take(how, then)
  PROVE  ret' \in Places \cup {NULL} /\ pc' \in {then, "assertion"}
<1>1. avail_4ks # <<>> => Head(avail_4ks) \in Places
  BY PopFacts DEF Typed, Chunk, Places
<1> QED BY <1>1 DEF Take, Stop, Bounded

LEMMA BoundedStays == ASSUME SizesAssumption, IInv, Bounded, [Next]_vars PROVE Bounded'
<1>0. Typed
  BY DEF IInv
<1>1. CASE AddRegion \/ RegionDone \/ UserMemFx \/ UserMemFxEnds
  BY <1>1 DEF AddRegion, RegionDone, UserMemFx, UserMemFxEnds, Bounded, lists
<1>2. CASE Turn
  <2>1. Slots \in Nat /\ Needs \in {1, 2}
    BY DEF SizesAssumption, Needs
  <2>2. slots' \in 0 .. Slots /\ (pc' = "fx" => slots' < Slots) /\ ret' \in Places \cup {NULL}
    BY <1>2, <2>1 DEF Turn, GiveUp, Bounded
  <2> QED BY <1>2, <2>2 DEF Turn, Bounded, lists
<1>3. CASE AddNode
  <2>1. avail_4ks_count' \in Nat
    BY <1>3 DEF AddNode, Push, Bounded
  <2> QED BY <1>3, <2>1 DEF AddNode, Bounded
<1>4. CASE AddFails
  BY <1>4 DEF AddFails, GiveUp, Bounded, lists, SizesAssumption
<1>5. CASE \E how \in {"raw", "typed"} : Allocate(how)
  <2>1. PICK how \in {"raw", "typed"} : Allocate(how)
    BY <1>5
  <2>2. UNCHANGED <<avail_4ks_count, slots>> /\ pc = "idle" /\ call' \in {call, how}
    BY <2>1 DEF Allocate
  <2>3. Take(how, "idle") => ret' \in Places \cup {NULL} /\ pc' \in {"idle", "assertion"}
    BY <1>0, TakeBounded
  <2>4. ret' \in Places \cup {NULL} /\ pc' # "fx"
    BY <2>1, <2>3 DEF Allocate, Stop, Bounded
  <2> QED BY <2>2, <2>4 DEF Bounded
<1>6. CASE RefillDone
  <2>1. ret' \in Places \cup {NULL} /\ pc' \in {"idle", "assertion"}
    BY <1>0, <1>6, TakeBounded DEF RefillDone
  <2> QED BY <1>6, <2>1 DEF RefillDone, Bounded
<1>7. CASE \E chunk \in held : Free(chunk)
  BY <1>7 DEF Free, Release, Bounded
<1>8. CASE NestedAllocate
  <2>1. Take("typed", pc) => ret' \in Places \cup {NULL} /\ pc' \in {pc, "assertion"}
    BY <1>0, TakeBounded
  <2>2. ret' \in Places \cup {NULL} /\ (pc' = "fx" => pc = "fx")
    BY <1>8, <2>1 DEF NestedAllocate, Stop, Bounded
  <2> QED BY <1>8, <2>2 DEF NestedAllocate, Bounded
<1>9. CASE \E chunk \in nested : NestedFree(chunk)
  BY <1>9 DEF NestedFree, Release, Bounded
<1>10. CASE UNCHANGED vars
  BY <1>10 DEF vars, lists, Bounded
<1> QED BY <1>1, <1>2, <1>3, <1>4, <1>5, <1>6, <1>7, <1>8, <1>9, <1>10 DEF Next

LEMMA BoundedBegun == ASSUME SizesAssumption, Init PROVE Bounded
  BY DEF Init, Bounded, SizesAssumption

(* All that the invariant UntypedOwned of ResourceParts says.               *)
LEMMA OwnedFollows ==
  ASSUME SizesAssumption, IInv, Bounded
  PROVE  TypeOK /\ MemoryOnce /\ NothingLost /\ FreeChunksEmpty /\ MemFxNotReentered
<1>1. TypeOK
  BY DEF IInv, Typed, Placed, Bounded, TypeOK, Chunk, Places
<1>2. FreeChunksEmpty
  BY DEF IInv, Typed, Owners, Apart, FreeChunksEmpty
<1>3. MemFxNotReentered
  BY DEF IInv, Typed, MemFxNotReentered
<1> QED BY <1>1, <1>2, <1>3, OnceFollows, NothingLostFollows

-----------------------------------------------------------------------------
(* However the splitting of a region or of a 4 MiB chunk and the nested    *)
(* calls of untyped_allocate_4k and untyped_free_4k interleave, and however *)
(* large the memory: no chunk is in a list twice, in a list and in use, or *)
(* part of memory that is still to be split.                               *)
THEOREM UntypedMemoryOnce == ASSUME SizesAssumption PROVE Spec => []MemoryOnce
<1>1. Init => IInv
  BY Begun
<1>2. IInv /\ [Next]_vars => IInv'
  BY Stays
<1>3. IInv => MemoryOnce
  BY OnceFollows
<1> QED BY <1>1, <1>2, <1>3, PTL DEF Spec

(* Every unit of the regions that have been added is in a list, in use or  *)
(* still to be split, but for a refill or a boot that failed half way      *)
(* (untyped_refill_avail_4ks, untyped_add_memory).                         *)
THEOREM UntypedNothingLost == ASSUME SizesAssumption PROVE Spec => []NothingLost
<1>1. Init => IInv
  BY Begun
<1>2. IInv /\ [Next]_vars => IInv'
  BY Stays
<1>3. IInv => NothingLost
  BY NothingLostFollows
<1> QED BY <1>1, <1>2, <1>3, PTL DEF Spec

(* The chunks in the list hold no kernel objects, and no refill is started *)
(* by an allocation from within mem_fx_alloc (untyped_allocate_4k,         *)
(* untyped_free_4k).                                                       *)
THEOREM UntypedChunksEmpty ==
  ASSUME SizesAssumption PROVE Spec => [](FreeChunksEmpty /\ MemFxNotReentered)
<1>1. Init => IInv
  BY Begun
<1>2. IInv /\ [Next]_vars => IInv'
  BY Stays
<1>3. IInv => FreeChunksEmpty /\ MemFxNotReentered
  <2>1. ASSUME IInv PROVE FreeChunksEmpty /\ MemFxNotReentered
    <3>1. objects \subseteq held /\ \A x \in ToSet(avail_4ks) : x \notin held
      BY <2>1 DEF IInv, Typed, Owners, Apart
    <3>2. pc # "reentered"
      BY <2>1 DEF IInv, Typed
    <3> QED BY <3>1, <3>2 DEF FreeChunksEmpty, MemFxNotReentered
  <2> QED BY <2>1
<1> QED BY <1>1, <1>2, <1>3, PTL DEF Spec
=============================================================================
