------------------------- MODULE ResourcePartsProofs -------------------------
(***************************************************************************)
(* Proofs about the parts of the resource layer, for every value of their  *)
(* constants: the invariants of ResourceParts hold in every state.         *)
(*                                                                         *)
(* The parts share the variables s1, s2, ... of ResourceParts; before each *)
(* part's proofs a comment says which of its variables each of them is.    *)
(* For a part P there are an inductive invariant PInv, the lemmas PBegun   *)
(* and PStays, and the theorem about the invariant of ResourceParts.       *)
(***************************************************************************)
EXTENDS ResourceParts, FiniteSetTheorems, SequenceTheorems, WellFoundedInduction, TLAPS


-----------------------------------------------------------------------------
(* Numbers, sets and sequences.                                            *)

Span(start, n) == start .. start + n - 1

LEMMA SpanSize ==
  ASSUME NEW start \in Nat, NEW n \in Nat
  PROVE  IsFiniteSet(Span(start, n)) /\ Cardinality(Span(start, n)) = n
<1>1. start \in Int /\ start + n - 1 \in Int
  OBVIOUS
<1>2. /\ IsFiniteSet(start .. start + n - 1)
      /\ Cardinality(start .. start + n - 1) =
           IF start > start + n - 1 THEN 0 ELSE (start + n - 1) - start + 1
  BY <1>1, FS_Interval
<1>3. (IF start > start + n - 1 THEN 0 ELSE (start + n - 1) - start + 1) = n
  OBVIOUS
<1> QED BY <1>2, <1>3 DEF Span

(* A step gives a set one member, or takes one from it. *)
LEMMA OneMore ==
  ASSUME NEW S, NEW T, NEW x, IsFiniteSet(S), \A y : y # x => (y \in S <=> y \in T)
  PROVE  /\ IsFiniteSet(T)
         /\ (x \in S <=> x \in T) => Cardinality(T) = Cardinality(S)
         /\ x \notin S /\ x \in T => Cardinality(T) = Cardinality(S) + 1
         /\ x \in S /\ x \notin T => Cardinality(T) = Cardinality(S) - 1
<1>1. CASE x \in S <=> x \in T
  <2>1. S = T
    BY <1>1
  <2> QED BY <1>1, <2>1
<1>2. CASE x \notin S /\ x \in T
  <2>1. T = S \cup {x}
    BY <1>2
  <2> QED BY <1>2, <2>1, FS_AddElement
<1>3. CASE x \in S /\ x \notin T
  <2>1. T = S \ {x}
    BY <1>3
  <2> QED BY <1>3, <2>1, FS_RemoveElement
<1> QED BY <1>1, <1>2, <1>3

(* Every nonempty set of numbers has a least element. *)
LEMMA Least ==
  ASSUME NEW S \in SUBSET Nat, S # {}
  PROVE  \E x \in S : \A y \in S : x <= y
<1>1. \E x \in S : \A y \in S : ~(<<y, x>> \in OpToRel(<, Nat))
  BY NatLessThanWellFounded, WFMin, Zenon
<1>2. PICK x \in S : \A y \in S : ~(<<y, x>> \in OpToRel(<, Nat))
  BY <1>1
<1>3. ASSUME NEW y \in S PROVE x <= y
  <2>1. ~(y < x)
    <3>1. x \in Nat /\ y \in Nat  OBVIOUS
    <3>2. <<y, x>> \notin OpToRel(<, Nat)  BY <1>2
    <3> QED BY <3>1, <3>2 DEF OpToRel
  <2> QED BY <2>1
<1> QED BY <1>3

(* One element of a sequence is exchanged. *)
LEMMA SeqChanged ==
  ASSUME NEW S, NEW q \in Seq(S), NEW k \in 1 .. Len(q), NEW x \in S
  PROVE  /\ [q EXCEPT ![k] = x] \in Seq(S)
         /\ Len([q EXCEPT ![k] = x]) = Len(q)
         /\ [q EXCEPT ![k] = x][k] = x
         /\ \A j \in 1 .. Len(q) : j # k => [q EXCEPT ![k] = x][j] = q[j]
  BY ExceptSeq

-----------------------------------------------------------------------------
(* The pool of untyped memory: the invariant and the argument are those of *)
(* UntypedProofs.                                                          *)

Pool == INSTANCE UntypedProofs WITH boot <- s1, booted <- s2, avail_4ms <- s3,
        avail_4ks <- s4, avail_4ks_count <- s5, refill_running <- s6,
        pc <- s7, job <- s8, call <- s9, ret <- s10, held <- s11,
        objects <- s12, slots <- s13, nested <- s14

MemoryInv == Pool!IInv /\ Pool!Bounded

LEMMA SameSizes == Memory!SizesAssumption => Pool!SizesAssumption
  BY DEF Memory!SizesAssumption, Pool!SizesAssumption, Memory!PerLarge, Pool!PerLarge

LEMMA SameInit == Memory!Init => Pool!Init
  BY DEF Memory!Init, Pool!Init, Memory!NoJob, Pool!NoJob

LEMMA SameTake ==
  ASSUME NEW how, NEW then, Memory!Take(how, then) PROVE Pool!Take(how, then)
  BY DEF Memory!Take, Pool!Take, Memory!Stop, Pool!Stop

LEMMA SameNext == ASSUME Memory!Next PROVE Pool!Next
<1> USE DEF Memory!lists, Pool!lists, Memory!Booting, Pool!Booting, Memory!InMemFx,
            Pool!InMemFx, Memory!NoJob, Pool!NoJob
<1>1. Memory!AddRegion => Pool!AddRegion
  BY DEF Memory!AddRegion, Pool!AddRegion, Memory!Units, Pool!Units
<1>2. Memory!RegionDone => Pool!RegionDone
  BY DEF Memory!RegionDone, Pool!RegionDone
<1>3. Memory!Turn => Pool!Turn
  BY DEF Memory!Turn, Pool!Turn, Memory!GiveUp, Pool!GiveUp, Memory!Needs, Pool!Needs
<1>4. Memory!AddNode => Pool!AddNode
  BY DEF Memory!AddNode, Pool!AddNode, Memory!Push, Pool!Push, Memory!Step, Pool!Step,
         Memory!PerLarge, Pool!PerLarge
<1>5. Memory!AddFails => Pool!AddFails
  BY DEF Memory!AddFails, Pool!AddFails, Memory!GiveUp, Pool!GiveUp
<1>6. ASSUME NEW how, Memory!Allocate(how) PROVE Pool!Allocate(how)
  BY <1>6, SameTake DEF Memory!Allocate, Pool!Allocate, Memory!MayRefill, Pool!MayRefill,
     Memory!Stop, Pool!Stop, Memory!PerLarge, Pool!PerLarge
<1>7. Memory!RefillDone => Pool!RefillDone
  BY SameTake DEF Memory!RefillDone, Pool!RefillDone
<1>8. ASSUME NEW chunk, Memory!Release(chunk) PROVE Pool!Release(chunk)
  BY <1>8 DEF Memory!Release, Pool!Release, Memory!Cleared, Pool!Cleared
<1>9. ASSUME NEW chunk, Memory!Free(chunk) PROVE Pool!Free(chunk)
  BY <1>8, <1>9 DEF Memory!Free, Pool!Free
<1>10. Memory!UserMemFx => Pool!UserMemFx
  BY DEF Memory!UserMemFx, Pool!UserMemFx
<1>11. Memory!UserMemFxEnds => Pool!UserMemFxEnds
  BY DEF Memory!UserMemFxEnds, Pool!UserMemFxEnds
<1>12. Memory!NestedAllocate => Pool!NestedAllocate
  BY SameTake DEF Memory!NestedAllocate, Pool!NestedAllocate, Memory!MayRefill, Pool!MayRefill,
     Memory!Stop, Pool!Stop, Memory!Cardinality, Pool!Cardinality, Memory!IsFiniteSet,
     Pool!IsFiniteSet
<1>13. ASSUME NEW chunk, Memory!NestedFree(chunk) PROVE Pool!NestedFree(chunk)
  BY <1>8, <1>13 DEF Memory!NestedFree, Pool!NestedFree
<1> QED BY <1>1, <1>2, <1>3, <1>4, <1>5, <1>6, <1>7, <1>9, <1>10, <1>11, <1>12, <1>13
        DEF Memory!Next, Pool!Next

LEMMA MemoryBegun == ASSUME Memory!SizesAssumption, Memory!Init PROVE MemoryInv
  BY SameSizes, SameInit, Pool!Begun, Pool!BoundedBegun DEF MemoryInv

LEMMA MemoryStays == ASSUME Memory!SizesAssumption, MemoryInv, Memory!Next PROVE MemoryInv'
<1>1. Pool!SizesAssumption /\ [Pool!Next]_(Pool!vars)
  BY SameSizes, SameNext
<1> QED BY <1>1, Pool!Stays, Pool!BoundedStays DEF MemoryInv

LEMMA MemoryFollows ==
  ASSUME Memory!SizesAssumption, MemoryInv
  PROVE  /\ Memory!TypeOK /\ Memory!MemoryOnce /\ Memory!NothingLost
         /\ Memory!FreeChunksEmpty /\ Memory!MemFxNotReentered
<1>1. /\ Pool!TypeOK /\ Pool!MemoryOnce /\ Pool!NothingLost
      /\ Pool!FreeChunksEmpty /\ Pool!MemFxNotReentered
  BY SameSizes, Pool!OwnedFollows DEF MemoryInv
<1>2. Memory!TypeOK
  BY <1>1 DEF Memory!TypeOK, Pool!TypeOK, Memory!Places, Pool!Places
<1>3. Memory!LargeUnits = Pool!LargeUnits /\ Memory!JobUnits = Pool!JobUnits
  BY DEF Memory!LargeUnits, Pool!LargeUnits, Memory!JobUnits, Pool!JobUnits, Memory!PerLarge,
         Pool!PerLarge, Memory!ToSet, Pool!ToSet
<1>4. Memory!MemoryOnce
  BY <1>1, <1>3 DEF Memory!MemoryOnce, Pool!MemoryOnce, Memory!ToSet, Pool!ToSet,
     Memory!IsInjective, Pool!IsInjective
<1>5. Memory!NothingLost
  BY <1>1, <1>3 DEF Memory!NothingLost, Pool!NothingLost, Memory!ToSet, Pool!ToSet,
     Memory!Units, Pool!Units
<1>6. Memory!FreeChunksEmpty /\ Memory!MemFxNotReentered
  BY <1>1 DEF Memory!FreeChunksEmpty, Pool!FreeChunksEmpty, Memory!ToSet, Pool!ToSet,
     Memory!MemFxNotReentered, Pool!MemFxNotReentered
<1> QED BY <1>2, <1>4, <1>5, <1>6

(* However the splitting loops, allocations and nested calls interleave,   *)
(* memory has one owner and none is lost, a free chunk has no objects left *)
(* and mem_fx_alloc is not entered again (untyped.c), for any memory.      *)
THEOREM UntypedCorrect == Spec => []UntypedOwned
<1> DEFINE Inv == part = "untyped" => MemoryInv
<1>1. Init => Inv
  BY MemoryBegun, MemoryAssumption DEF Init
<1>2. Inv /\ [Next]_vars => Inv'
  <2>1. ASSUME Inv, [Next]_vars, part' = "untyped" PROVE MemoryInv'
    <3>1. CASE UNCHANGED vars
      <4>1. part = "untyped" /\ Pool!SizesAssumption /\ UNCHANGED Pool!vars
        BY <2>1, <3>1, SameSizes, MemoryAssumption DEF vars, Pool!vars, Pool!lists
      <4> QED BY <2>1, <4>1, Pool!Stays, Pool!BoundedStays DEF MemoryInv
    <3>2. CASE Next
      <4>1. part = "untyped" /\ Memory!Next
        BY <2>1, <3>2 DEF Next
      <4> QED BY <2>1, <4>1, MemoryStays, MemoryAssumption
    <3> QED BY <2>1, <3>1, <3>2
  <2> QED BY <2>1
<1>3. Inv => UntypedOwned
  BY MemoryFollows, MemoryAssumption DEF UntypedOwned
<1> QED BY <1>1, <1>2, <1>3, PTL DEF Spec
-----------------------------------------------------------------------------
(* FxLarge: zones is s1, total_avail s2, live s3, ret s4 and phase s5.      *)

LargeZone == [name : Nat, used : SUBSET Large!Pages, avail_count : 0 .. COOKIE_COUNT]

(* A zone's count is that of its free pages, and its pages in use are the   *)
(* pages of its blocks.                                                     *)
ZoneRight(z, bs) ==
    /\ z.avail_count = COOKIE_COUNT - Cardinality(z.used)
    /\ \A p : p \in z.used <=> \E b \in bs : b.zone = z.name /\ p \in Large!PagesOf(b)

(* Zones are named from the last to the first; blocks lie in zones, apart.  *)
ZonesRight(zs, bs) ==
    /\ zs \in Seq(LargeZone) /\ bs \subseteq Large!Block
    /\ \A k \in 1 .. Len(zs) : zs[k].name = Len(zs) - k + 1 /\ ZoneRight(zs[k], bs)
    /\ \A b \in bs : b.zone \in 1 .. Len(zs) /\ b.start + b.pages <= COOKIE_COUNT
    /\ \A a, b \in bs : (a # b /\ a.zone = b.zone) =>
                            Large!PagesOf(a) \cap Large!PagesOf(b) = {}

(* total_avail may be too small, but it is never above zero for nothing.    *)
Stocked(zs, total) == total > 0 => \E k \in 1 .. Len(zs) : zs[k].avail_count > 0

LargeInv ==
    /\ ZonesRight(s1, s3) /\ Stocked(s1, s2)
    /\ s2 \in Nat /\ s4 \in Large!Block \cup {NULL} /\ s5 = "up"

LEMMA SomePages ==
  ASSUME Large!CountsAssumption, NEW S, S \subseteq Large!Pages
  PROVE  IsFiniteSet(S) /\ Cardinality(S) \in 0 .. COOKIE_COUNT
<1>1. COOKIE_COUNT \in Nat /\ Large!Pages = Span(0, COOKIE_COUNT)
  BY DEF Large!CountsAssumption, Large!Pages, Span
<1>2. IsFiniteSet(Large!Pages) /\ Cardinality(Large!Pages) = COOKIE_COUNT
  BY <1>1, SpanSize
<1>3. IsFiniteSet(S) /\ Cardinality(S) <= COOKIE_COUNT
  BY <1>2, FS_Subset
<1> QED BY <1>1, <1>3, FS_CardinalityType

(* A block that is mapped or unmapped changes the number of pages in use by *)
(* its own.                                                                 *)
LEMMA PagesTaken ==
  ASSUME Large!CountsAssumption, NEW used \in SUBSET Large!Pages,
         NEW start \in Large!Pages, NEW n \in 1 .. MAX_PAGES,
         start + n <= COOKIE_COUNT, Span(start, n) \cap used = {}
  PROVE  /\ used \cup Span(start, n) \in SUBSET Large!Pages
         /\ Cardinality(used \cup Span(start, n)) = Cardinality(used) + n
<1>1. start \in Nat /\ n \in Nat /\ COOKIE_COUNT \in Nat
  BY DEF Large!CountsAssumption, Large!Pages
<1>2. IsFiniteSet(Span(start, n)) /\ Cardinality(Span(start, n)) = n
  BY <1>1, SpanSize
<1>3. IsFiniteSet(used) /\ Cardinality(used) \in Nat
  BY SomePages, FS_CardinalityType
<1>4. Cardinality(used \cup Span(start, n)) =
        Cardinality(used) + Cardinality(Span(start, n)) - Cardinality(used \cap Span(start, n))
  BY <1>2, <1>3, FS_Union
<1>5. Cardinality(used \cap Span(start, n)) = 0
  <2>1. used \cap Span(start, n) = {}
    OBVIOUS
  <2> QED BY <2>1, FS_EmptySet
<1>6. Span(start, n) \subseteq Large!Pages
  BY <1>1 DEF Span, Large!Pages
<1>7. Cardinality(used \cup Span(start, n)) = Cardinality(used) + n
  BY <1>1, <1>2, <1>3, <1>4, <1>5
<1> QED BY <1>6, <1>7

LEMMA PagesGiven ==
  ASSUME Large!CountsAssumption, NEW used \in SUBSET Large!Pages,
         NEW start \in Nat, NEW n \in Nat, Span(start, n) \subseteq used
  PROVE  /\ used \ Span(start, n) \in SUBSET Large!Pages
         /\ Cardinality(used \ Span(start, n)) = Cardinality(used) - n
         /\ n <= Cardinality(used)
<1>1. IsFiniteSet(Span(start, n)) /\ Cardinality(Span(start, n)) = n
  BY SpanSize
<1>2. IsFiniteSet(used) /\ Cardinality(used) \in Nat
  BY SomePages, FS_CardinalityType
<1>3. Cardinality(used \ Span(start, n)) =
        Cardinality(used) - Cardinality(used \cap Span(start, n))
  BY <1>2, FS_Difference
<1>4. used \cap Span(start, n) = Span(start, n)
  OBVIOUS
<1>5. n <= Cardinality(used)
  BY <1>1, <1>2, FS_Subset
<1> QED BY <1>1, <1>3, <1>4, <1>5

LEMMA ZoneFacts ==
  ASSUME Large!CountsAssumption, NEW zs, NEW bs, ZonesRight(zs, bs), NEW k \in 1 .. Len(zs)
  PROVE  /\ COOKIE_COUNT \in Nat /\ Len(zs) \in Nat /\ k \in Nat
         /\ zs \in Seq(LargeZone) /\ zs[k] \in LargeZone
         /\ zs[k].used \in SUBSET Large!Pages
         /\ zs[k].avail_count \in Nat
         /\ zs[k].name = Len(zs) - k + 1
         /\ ZoneRight(zs[k], bs)
<1>1. COOKIE_COUNT \in Nat
  BY DEF Large!CountsAssumption
<1>2. zs \in Seq(LargeZone) /\ Len(zs) \in Nat
  BY DEF ZonesRight
<1>3. zs[k] \in LargeZone
  BY <1>2
<1>4. zs[k].used \in SUBSET Large!Pages /\ zs[k].avail_count \in 0 .. COOKIE_COUNT
  BY <1>3 DEF LargeZone
<1>5. zs[k].name = Len(zs) - k + 1 /\ ZoneRight(zs[k], bs)
  BY DEF ZonesRight
<1> QED BY <1>1, <1>2, <1>3, <1>4, <1>5

LEMMA BlockFacts ==
  ASSUME Large!CountsAssumption, NEW b \in Large!Block
  PROVE  /\ b.start \in Nat /\ b.pages \in Nat /\ b.pages > 0
         /\ Large!PagesOf(b) = Span(b.start, b.pages)
<1>1. b.start \in Large!Pages /\ b.pages \in 1 .. MAX_PAGES /\ MAX_PAGES \in Nat
  BY DEF Large!Block, Large!CountsAssumption
<1> QED BY <1>1 DEF Large!Pages, Large!PagesOf, Span

(* A zone of another count and other pages in use. *)
Changed(z, used, count) == [z EXCEPT !.used = used, !.avail_count = count]

LEMMA ZoneChanged ==
  ASSUME NEW z \in LargeZone, NEW used \in SUBSET Large!Pages, NEW count \in 0 .. COOKIE_COUNT
  PROVE  /\ Changed(z, used, count) \in LargeZone
         /\ Changed(z, used, count).name = z.name
         /\ Changed(z, used, count).used = used
         /\ Changed(z, used, count).avail_count = count
  BY DEF LargeZone, Changed

(* A new zone is first in the list and free.                                *)
LEMMA ZonesGrow ==
  ASSUME Large!CountsAssumption, NEW zs, NEW bs, ZonesRight(zs, bs),
         NEW new, new = [name |-> Len(zs) + 1, used |-> {}, avail_count |-> COOKIE_COUNT]
  PROVE  ZonesRight(<<new>> \o zs, bs)
<1> DEFINE ys == <<new>> \o zs
<1>1. COOKIE_COUNT \in Nat /\ Len(zs) \in Nat /\ zs \in Seq(LargeZone)
  BY DEF Large!CountsAssumption, ZonesRight
<1>2. new \in LargeZone /\ new.name = Len(zs) + 1 /\ new.used = {} /\ new.avail_count = COOKIE_COUNT
  BY <1>1 DEF LargeZone
<1>3. /\ ys \in Seq(LargeZone) /\ Len(ys) = Len(zs) + 1 /\ ys[1] = new
      /\ \A k \in 2 .. Len(ys) : k - 1 \in 1 .. Len(zs) /\ ys[k] = zs[k - 1]
  BY <1>1, <1>2
<1>4. \A b \in bs : b.zone \in 1 .. Len(zs) /\ b.zone # Len(zs) + 1
  BY <1>1 DEF ZonesRight
<1>5. ASSUME NEW k \in 1 .. Len(ys)
      PROVE  ys[k].name = Len(ys) - k + 1 /\ ZoneRight(ys[k], bs)
  <2>1. CASE k = 1
    <3>1. Cardinality({}) = 0
      BY FS_EmptySet
    <3>2. ZoneRight(new, bs)
      BY <1>1, <1>2, <1>4, <3>1 DEF ZoneRight
    <3> QED BY <1>1, <1>2, <1>3, <2>1, <3>2
  <2>2. CASE k # 1
    <3>1. k - 1 \in 1 .. Len(zs) /\ ys[k] = zs[k - 1]
      BY <1>1, <1>3, <2>2
    <3>2. zs[k - 1].name = Len(zs) - (k - 1) + 1 /\ ZoneRight(zs[k - 1], bs)
      BY <3>1 DEF ZonesRight
    <3> QED BY <1>1, <1>3, <3>1, <3>2
  <2> QED BY <2>1, <2>2
<1>6. \A b \in bs : b.zone \in 1 .. Len(ys) /\ b.start + b.pages <= COOKIE_COUNT
  BY <1>1, <1>3, <1>4 DEF ZonesRight
<1> QED BY <1>3, <1>5, <1>6 DEF ZonesRight

(* A block is mapped in free pages of the k-th zone.                        *)
LEMMA ZonesTake ==
  ASSUME Large!CountsAssumption, NEW zs, NEW bs, ZonesRight(zs, bs),
         NEW k \in 1 .. Len(zs), NEW start \in Large!Pages, NEW n \in 1 .. MAX_PAGES,
         Large!is_avail(zs[k], n, start),
         NEW b \in Large!Block, b.zone = zs[k].name, b.start = start, b.pages = n
  PROVE  ZonesRight([zs EXCEPT ![k] = Changed(zs[k], zs[k].used \cup Span(start, n),
                                              zs[k].avail_count - n)],
                    bs \cup {b})
<1> DEFINE z == Changed(zs[k], zs[k].used \cup Span(start, n), zs[k].avail_count - n)
           ys == [zs EXCEPT ![k] = z]
           cs == bs \cup {b}
<1>1. /\ COOKIE_COUNT \in Nat /\ start \in Nat /\ n \in Nat
      /\ Len(zs) \in Nat /\ zs \in Seq(LargeZone) /\ zs[k] \in LargeZone
  BY ZoneFacts DEF Large!CountsAssumption, Large!Pages
<1>2. /\ zs[k].used \in SUBSET Large!Pages /\ zs[k].avail_count \in Nat
      /\ zs[k].name = Len(zs) - k + 1 /\ ZoneRight(zs[k], bs)
  BY ZoneFacts
<1>3. start + n <= COOKIE_COUNT /\ Span(start, n) \cap zs[k].used = {}
  BY DEF Large!is_avail, Span
<1> DEFINE used == zs[k].used \cup Span(start, n)
<1>4. used \in SUBSET Large!Pages /\ Cardinality(used) = Cardinality(zs[k].used) + n
  BY <1>2, <1>3, PagesTaken
<1>5. Cardinality(zs[k].used) \in Nat /\ Cardinality(used) \in 0 .. COOKIE_COUNT
  BY <1>1, <1>2, <1>4, SomePages
<1>6. /\ zs[k].avail_count - n = COOKIE_COUNT - Cardinality(used)
      /\ zs[k].avail_count - n \in 0 .. COOKIE_COUNT
  <2>1. zs[k].avail_count = COOKIE_COUNT - Cardinality(zs[k].used)
    BY <1>2 DEF ZoneRight
  <2> HIDE DEF used
  <2> QED BY <1>1, <1>4, <1>5, <2>1
<1>8. /\ z \in LargeZone /\ z.name = zs[k].name /\ z.used = zs[k].used \cup Span(start, n)
      /\ z.avail_count = COOKIE_COUNT - Cardinality(z.used)
  <2>1. PICK c \in 0 .. COOKIE_COUNT : c = zs[k].avail_count - n
    BY <1>6
  <2>2. z = Changed(zs[k], used, c)
    BY <2>1
  <2> HIDE DEF z
  <2>3. used = zs[k].used \cup Span(start, n)
    OBVIOUS
  <2> HIDE DEF used
  <2>4. z \in LargeZone /\ z.name = zs[k].name /\ z.used = used /\ z.avail_count = c
    BY <1>1, <1>4, <2>2, ZoneChanged
  <2> QED BY <1>6, <2>1, <2>3, <2>4
<1> HIDE DEF used, z
<1>9. Large!PagesOf(b) = Span(start, n)
  BY DEF Large!PagesOf, Span
<1>10. /\ ys \in Seq(LargeZone) /\ Len(ys) = Len(zs) /\ ys[k] = z
       /\ \A j \in 1 .. Len(zs) : j # k => ys[j] = zs[j]
  <2>1. zs \in Seq(LargeZone) /\ z \in LargeZone
    BY <1>1, <1>8
  <2> QED BY <2>1, SeqChanged
<1>11. \A c \in bs : c.zone = b.zone => Large!PagesOf(c) \cap Large!PagesOf(b) = {}
  BY <1>2, <1>3, <1>9 DEF ZoneRight
<1>12. ASSUME NEW j \in 1 .. Len(ys)
       PROVE  ys[j].name = Len(ys) - j + 1 /\ ZoneRight(ys[j], cs)
  <2>1. CASE j = k
    <3>1. \A p : p \in z.used <=> \E c \in cs : c.zone = z.name /\ p \in Large!PagesOf(c)
      BY <1>2, <1>8, <1>9 DEF ZoneRight
    <3> QED BY <1>2, <1>8, <1>10, <2>1, <3>1 DEF ZoneRight
  <2>2. CASE j # k
    <3>1. ys[j] = zs[j] /\ zs[j].name = Len(zs) - j + 1 /\ ZoneRight(zs[j], bs)
      BY <1>10, <2>2 DEF ZonesRight
    <3>2. zs[j].name # b.zone
      BY <1>1, <1>2, <1>9, <1>10, <2>2, <3>1
    <3>3. ZoneRight(zs[j], cs)
      BY <3>1, <3>2 DEF ZoneRight
    <3> QED BY <1>10, <3>1, <3>3
  <2> QED BY <2>1, <2>2
<1>13. \A c \in cs : c.zone \in 1 .. Len(ys) /\ c.start + c.pages <= COOKIE_COUNT
  BY <1>1, <1>2, <1>3, <1>9, <1>10 DEF ZonesRight
<1>14. \A a, c \in cs : (a # c /\ a.zone = c.zone) =>
                           Large!PagesOf(a) \cap Large!PagesOf(c) = {}
  BY <1>11 DEF ZonesRight
<1>15. cs \subseteq Large!Block
  BY <1>9 DEF ZonesRight
<1> QED BY <1>10, <1>12, <1>13, <1>14, <1>15 DEF ZonesRight, z

(* A block in use is unmapped.                                              *)
LEMMA ZonesFree ==
  ASSUME Large!CountsAssumption, NEW zs, NEW bs, ZonesRight(zs, bs),
         NEW b \in bs, NEW k \in 1 .. Len(zs), zs[k].name = b.zone
  PROVE  LET z == Changed(zs[k], zs[k].used \ Large!PagesOf(b), zs[k].avail_count + b.pages)
         IN  /\ ZonesRight([zs EXCEPT ![k] = z], bs \ {b})
             /\ z \in LargeZone /\ z.avail_count > 0
<1> DEFINE z == Changed(zs[k], zs[k].used \ Large!PagesOf(b), zs[k].avail_count + b.pages)
           ys == [zs EXCEPT ![k] = z]
           cs == bs \ {b}
<1>1. /\ COOKIE_COUNT \in Nat
      /\ Len(zs) \in Nat /\ zs \in Seq(LargeZone) /\ zs[k] \in LargeZone
  BY ZoneFacts
<1>2. /\ zs[k].used \in SUBSET Large!Pages /\ zs[k].avail_count \in Nat
      /\ zs[k].name = Len(zs) - k + 1 /\ ZoneRight(zs[k], bs)
  BY ZoneFacts
<1>3. /\ b \in Large!Block /\ b.start \in Nat /\ b.pages \in Nat /\ b.pages > 0
      /\ Large!PagesOf(b) = Span(b.start, b.pages)
  BY BlockFacts DEF ZonesRight
<1> DEFINE used == zs[k].used \ Large!PagesOf(b)
<1>4. Large!PagesOf(b) \subseteq zs[k].used
  BY <1>2 DEF ZoneRight
<1>5. /\ used \in SUBSET Large!Pages
      /\ Cardinality(used) = Cardinality(zs[k].used) - b.pages
  BY <1>2, <1>3, <1>4, PagesGiven
<1>6. Cardinality(zs[k].used) \in Nat /\ Cardinality(used) \in 0 .. COOKIE_COUNT
  BY <1>1, <1>2, <1>5, SomePages
<1>7. /\ zs[k].avail_count + b.pages = COOKIE_COUNT - Cardinality(used)
      /\ zs[k].avail_count + b.pages \in 0 .. COOKIE_COUNT
  <2>1. zs[k].avail_count = COOKIE_COUNT - Cardinality(zs[k].used)
    BY <1>2 DEF ZoneRight
  <2> HIDE DEF used
  <2> QED BY <1>1, <1>3, <1>5, <1>6, <2>1
<1>9. /\ z \in LargeZone /\ z.name = zs[k].name /\ z.used = zs[k].used \ Large!PagesOf(b)
      /\ z.avail_count = COOKIE_COUNT - Cardinality(z.used) /\ z.avail_count > 0
  <2>1. PICK c \in 0 .. COOKIE_COUNT : c = zs[k].avail_count + b.pages
    BY <1>7
  <2>2. z = Changed(zs[k], used, c)
    BY <2>1
  <2>3. used = zs[k].used \ Large!PagesOf(b)
    OBVIOUS
  <2> HIDE DEF used, z
  <2>4. z \in LargeZone /\ z.name = zs[k].name /\ z.used = used /\ z.avail_count = c
    BY <1>1, <1>5, <2>2, ZoneChanged
  <2>5. c > 0
    BY <1>2, <1>3, <2>1
  <2> QED BY <1>7, <2>1, <2>3, <2>4, <2>5
<1> HIDE DEF used, z
<1>10. /\ ys \in Seq(LargeZone) /\ Len(ys) = Len(zs) /\ ys[k] = z
       /\ \A j \in 1 .. Len(zs) : j # k => ys[j] = zs[j]
  <2>1. zs \in Seq(LargeZone) /\ z \in LargeZone
    BY <1>1, <1>9
  <2> QED BY <2>1, SeqChanged
<1>11. \A c \in cs : c.zone = b.zone => Large!PagesOf(c) \cap Large!PagesOf(b) = {}
  BY DEF ZonesRight
<1>12. ASSUME NEW j \in 1 .. Len(ys)
       PROVE  ys[j].name = Len(ys) - j + 1 /\ ZoneRight(ys[j], cs)
  <2>1. CASE j = k
    <3>1. \A p : p \in z.used <=> \E c \in cs : c.zone = z.name /\ p \in Large!PagesOf(c)
      BY <1>2, <1>9, <1>11 DEF ZoneRight
    <3> QED BY <1>2, <1>9, <1>10, <2>1, <3>1 DEF ZoneRight
  <2>2. CASE j # k
    <3>1. ys[j] = zs[j] /\ zs[j].name = Len(zs) - j + 1 /\ ZoneRight(zs[j], bs)
      BY <1>10, <2>2 DEF ZonesRight
    <3>2. zs[j].name # b.zone
      BY <1>1, <1>2, <1>10, <2>2, <3>1
    <3>3. ZoneRight(zs[j], cs)
      BY <3>1, <3>2 DEF ZoneRight
    <3> QED BY <1>10, <3>1, <3>3
  <2> QED BY <2>1, <2>2
<1>13. \A c \in cs : c.zone \in 1 .. Len(ys) /\ c.start + c.pages <= COOKIE_COUNT
  BY <1>10 DEF ZonesRight
<1>14. \A a, c \in cs : (a # c /\ a.zone = c.zone) =>
                           Large!PagesOf(a) \cap Large!PagesOf(c) = {}
  BY DEF ZonesRight
<1>15. cs \subseteq Large!Block
  BY DEF ZonesRight
<1>16. ZonesRight(ys, cs)
  BY <1>10, <1>12, <1>13, <1>14, <1>15 DEF ZonesRight
<1> QED BY <1>9, <1>16 DEF z

(* A search in a zone with enough free pages ends at a free place: the     *)
(* assertion that the second search of mem_fxlarge_alloc finds one.        *)
LEMMA ZoneServes ==
  ASSUME Large!CountsAssumption, NEW zs, NEW bs, ZonesRight(zs, bs),
         NEW k \in 1 .. Len(zs), NEW n \in 1 .. MAX_PAGES, Large!Serves(zs[k], n)
  PROVE  Large!has_any_avail(zs[k], n)
<1>1. CASE n > 1
  BY <1>1 DEF Large!Serves
<1>2. CASE n = 1
  <2>1. /\ COOKIE_COUNT \in Nat /\ zs[k] \in LargeZone /\ ZoneRight(zs[k], bs)
        /\ zs[k].avail_count >= 1
    BY <1>2 DEF Large!CountsAssumption, ZonesRight, Large!Serves
  <2>2. zs[k].used \subseteq Large!Pages
    BY <2>1 DEF LargeZone
  <2>3. Large!Pages = Span(0, COOKIE_COUNT) /\ Cardinality(Span(0, COOKIE_COUNT)) = COOKIE_COUNT
    <3>1. Large!Pages = Span(0, COOKIE_COUNT)
      BY <2>1 DEF Large!Pages, Span
    <3>2. 0 \in Nat /\ COOKIE_COUNT \in Nat
      BY <2>1
    <3> QED BY <3>1, <3>2, SpanSize
  <2>4. Cardinality(zs[k].used) \in 0 .. COOKIE_COUNT
    BY <2>2, SomePages
  <2>5. zs[k].used # Large!Pages
    BY <2>1, <2>3, <2>4 DEF ZoneRight
  <2>6. PICK p \in Large!Pages : p \notin zs[k].used
    BY <2>2, <2>5
  <2>7. p \in Nat /\ p + 1 <= COOKIE_COUNT /\ p .. p + 1 - 1 = {p}
    BY <2>1 DEF Large!Pages
  <2>8. Large!is_avail(zs[k], 1, p)
    BY <2>6, <2>7 DEF Large!is_avail
  <2> QED BY <1>2, <2>6, <2>8 DEF Large!has_any_avail
<1> QED BY <1>1, <1>2

LEMMA StockedStays ==
  ASSUME NEW zs, NEW k \in 1 .. Len(zs), zs[k].avail_count > 0, NEW total
  PROVE  Stocked(zs, total)
  BY DEF Stocked

(* The rest of an allocation, from any list in which the place was found.   *)
LEMMA LargeAllocIn ==
  ASSUME Large!CountsAssumption, NEW zs, ZonesRight(zs, s3), NEW k \in 1 .. Len(zs),
         NEW n \in 1 .. MAX_PAGES, NEW total \in Nat, Stocked(zs, total), s5 = "up",
         Large!has_any_avail(zs[k], n), Large!AllocIn(zs, k, total, n)
  PROVE  LargeInv'
<1>1. PICK start \in Large!Pages :
        /\ Large!is_avail(zs[k], n, start)
        /\ \/ /\ s1' = [zs EXCEPT ![k].used = @ \cup (start .. start + n - 1),
                                  ![k].avail_count = Large!AvailTaken(zs[k], n)]
              /\ s2' = Large!TotalTaken(total, n)
              /\ s4' = [zone |-> zs[k].name, start |-> start, pages |-> n]
              /\ s3' = s3 \cup {s4'}
           \/ s1' = zs /\ s2' = total /\ s4' = NULL /\ s3' = s3
        /\ s5' = s5
  BY DEF Large!AllocIn
<1>2. CASE /\ s1' = [zs EXCEPT ![k].used = @ \cup (start .. start + n - 1),
                               ![k].avail_count = Large!AvailTaken(zs[k], n)]
           /\ s2' = Large!TotalTaken(total, n)
           /\ s4' = [zone |-> zs[k].name, start |-> start, pages |-> n]
           /\ s3' = s3 \cup {s4'}
  <2> DEFINE z == Changed(zs[k], zs[k].used \cup Span(start, n), zs[k].avail_count - n)
  <2>1. zs \in Seq(LargeZone) /\ zs[k] \in LargeZone
    BY DEF ZonesRight
  <2>2. s1' = [zs EXCEPT ![k] = z]
    BY <1>2, <2>1 DEF Large!AvailTaken, Span, LargeZone, Changed
  <2>3. ZonesRight(s1', s3') /\ s4' \in Large!Block
    <3>1. /\ start \in Large!Pages /\ n \in 1 .. MAX_PAGES /\ zs[k].name \in Nat
          /\ Large!is_avail(zs[k], n, start)
      BY <1>1, <2>1 DEF LargeZone
    <3>2. PICK b \in Large!Block : /\ b = [zone |-> zs[k].name, start |-> start, pages |-> n]
                                   /\ b.zone = zs[k].name /\ b.start = start /\ b.pages = n
      <4> DEFINE c == [zone |-> zs[k].name, start |-> start, pages |-> n]
      <4>1. c \in Large!Block
        BY <3>1 DEF Large!Block
      <4> QED BY <4>1
    <3>3. ZonesRight([zs EXCEPT ![k] = z], s3 \cup {b})
      BY <3>1, <3>2, ZonesTake
    <3> QED BY <1>2, <2>2, <3>2, <3>3
  <2>4. s2' = 0
    BY <1>2 DEF Large!TotalTaken
  <2> QED BY <1>1, <2>3, <2>4 DEF LargeInv, Stocked
<1>3. CASE s1' = zs /\ s2' = total /\ s4' = NULL /\ s3' = s3
  BY <1>1, <1>3 DEF LargeInv
<1> QED BY <1>1, <1>2, <1>3

LEMMA LargeExpand ==
  ASSUME Large!CountsAssumption, LargeInv, NEW n \in 1 .. MAX_PAGES, Large!Expand(n)
  PROVE  LargeInv'
<1>1. CASE Large!AllocIn(<<Large!NewZone>> \o s1, 1, s2 + COOKIE_COUNT, n)
  <2> DEFINE zs == <<Large!NewZone>> \o s1
  <2>1. ZonesRight(zs, s3)
    BY ZonesGrow DEF LargeInv, Large!NewZone
  <2>2. /\ Len(zs) \in Nat /\ 1 \in 1 .. Len(zs) /\ zs[1] = Large!NewZone
    BY DEF LargeInv, ZonesRight
  <2>3. COOKIE_COUNT \in Nat /\ COOKIE_COUNT > 0 /\ n <= COOKIE_COUNT /\ s2 \in Nat
    BY DEF Large!CountsAssumption, LargeInv
  <2>4. zs[1].used = {} /\ zs[1].avail_count = COOKIE_COUNT
    BY <2>2 DEF Large!NewZone
  <2>5. Stocked(zs, s2 + COOKIE_COUNT)
    BY <2>2, <2>3, <2>4, StockedStays
  <2>6. Large!has_any_avail(zs[1], n)
    <3>1. 0 \in Large!Pages /\ Large!is_avail(zs[1], n, 0)
      BY <2>3, <2>4 DEF Large!is_avail, Large!Pages
    <3> QED BY <3>1 DEF Large!has_any_avail
  <2>7. s5 = "up" /\ s2 + COOKIE_COUNT \in Nat
    BY <2>3 DEF LargeInv
  <2> QED BY <1>1, <2>1, <2>2, <2>5, <2>6, <2>7, LargeAllocIn
<1>2. CASE s4' = NULL /\ UNCHANGED <<s1, s2, s3, s5>>
  BY <1>2 DEF LargeInv
<1> QED BY <1>1, <1>2 DEF Large!Expand

LEMMA LargeAllocStays ==
  ASSUME Large!CountsAssumption, LargeInv, NEW n \in 1 .. MAX_PAGES,
         Large!mem_fxlarge_alloc(n)
  PROVE  LargeInv'
<1>1. n \in Nat /\ n >= 1 /\ s2 \in Nat
  BY DEF Large!CountsAssumption, LargeInv
<1>2. CASE Large!Expand(n)
  BY <1>2, LargeExpand
<1>3. ASSUME NEW k \in 1 .. Len(s1), Large!Serves(s1[k], n), Large!AllocIn(s1, k, s2, n)
      PROVE  LargeInv'
  <2>1. Large!has_any_avail(s1[k], n)
    BY <1>3, ZoneServes DEF LargeInv
  <2> QED BY <1>3, <2>1, LargeAllocIn DEF LargeInv
<1>4. CASE s2 >= n /\ n = 1 /\ ~\E k \in 1 .. Len(s1) : Large!Serves(s1[k], n)
  <2>1. PICK k \in 1 .. Len(s1) : s1[k].avail_count > 0
    BY <1>1, <1>4 DEF LargeInv, Stocked
  <2>2. s1[k].avail_count \in Nat
    BY ZoneFacts DEF LargeInv
  <2>3. Large!Serves(s1[k], 1)
    BY <2>1, <2>2 DEF Large!Serves
  <2> QED BY <1>4, <2>3
<1> QED BY <1>1, <1>2, <1>3, <1>4 DEF Large!mem_fxlarge_alloc

LEMMA LargeFreeStays ==
  ASSUME Large!CountsAssumption, LargeInv, NEW b \in s3, Large!mem_fxlarge_free(b)
  PROVE  LargeInv'
<1>1. PICK k \in 1 .. Len(s1) :
        /\ s1[k].name = b.zone
        /\ s1' = [s1 EXCEPT ![k].used = @ \ (b.start .. b.start + b.pages - 1),
                            ![k].avail_count = Large!AvailFreed(s1[k], b.pages)]
  BY DEF Large!mem_fxlarge_free
<1>2. s2' = s2 + b.pages /\ s3' = s3 \ {b} /\ s4' = NULL /\ s5' = s5
  BY DEF Large!mem_fxlarge_free
<1> DEFINE z == Changed(s1[k], s1[k].used \ Large!PagesOf(b), s1[k].avail_count + b.pages)
<1>3. s1 \in Seq(LargeZone) /\ s1[k] \in LargeZone /\ b \in Large!Block
  BY DEF LargeInv, ZonesRight
<1>4. s1' = [s1 EXCEPT ![k] = z]
  BY <1>1, <1>3 DEF Large!AvailFreed, Large!PagesOf, LargeZone, Changed
<1>5. ZonesRight([s1 EXCEPT ![k] = z], s3 \ {b}) /\ z.avail_count > 0 /\ z \in LargeZone
  BY <1>1, ZonesFree DEF LargeInv
<1> HIDE DEF z
<1>6. k \in 1 .. Len(s1') /\ s1'[k] = z
  BY <1>3, <1>4, <1>5, SeqChanged
<1>7. Stocked(s1', s2')
  BY <1>5, <1>6 DEF Stocked
<1>8. s2' \in Nat
  BY <1>2, <1>3 DEF LargeInv, Large!Block, Large!CountsAssumption
<1> QED BY <1>2, <1>4, <1>5, <1>7, <1>8 DEF LargeInv

LEMMA LargeBegun == ASSUME Large!CountsAssumption, Large!Init PROVE LargeInv
<1>1. s1 \in Seq(LargeZone) /\ Len(s1) = 0
  BY DEF Large!Init
<1> QED BY <1>1 DEF Large!Init, LargeInv, ZonesRight, Stocked

LEMMA LargeStays == ASSUME Large!CountsAssumption, LargeInv, Large!Next PROVE LargeInv'
  BY LargeAllocStays, LargeFreeStays DEF Large!Next

(* FxLarge's Cardinality is that of the library. *)
LEMMA LargeSize == ASSUME NEW S PROVE Large!Cardinality(S) = Cardinality(S)
  BY DEF Large!Cardinality, Cardinality, Large!IsFiniteSet, IsFiniteSet

LEMMA LargeFollows ==
  ASSUME Large!CountsAssumption, LargeInv
  PROVE  /\ Large!TypeOK /\ Large!AvailIsFreePages
         /\ Large!BlocksApart /\ Large!AssertionsHold
<1>1. Large!TypeOK
  BY DEF LargeInv, ZonesRight, LargeZone, Large!TypeOK
<1>2. Large!AvailIsFreePages
  <2>1. ASSUME NEW k \in 1 .. Len(s1)
        PROVE  s1[k].avail_count = COOKIE_COUNT - Cardinality(s1[k].used)
    <3>1. ZoneRight(s1[k], s3)
      BY DEF LargeInv, ZonesRight
    <3> QED BY <3>1 DEF ZoneRight
  <2> QED BY <2>1, LargeSize DEF Large!AvailIsFreePages
<1>3. Large!BlocksApart
  BY DEF LargeInv, ZonesRight, ZoneRight, Large!BlocksApart
<1> QED BY <1>1, <1>2, <1>3 DEF LargeInv, Large!AssertionsHold

(* However blocks of either length are taken and given back and whatever    *)
(* mapping fails, blocks of pages do not overlap, a zone's count is that of *)
(* its free pages, and a search in a zone that should have room finds it    *)
(* (mem_fxlarge.c), for any number of pages in a zone and in a block.       *)
THEOREM LargeBlocksCorrect == Spec => []LargeBlocksApart
<1> DEFINE Inv == part = "fxlarge" => LargeInv
<1>1. Init => Inv
  BY LargeBegun, LargeAssumption DEF Init
<1>2. Inv /\ [Next]_vars => Inv'
  <2>1. ASSUME Inv, [Next]_vars, part' = "fxlarge" PROVE LargeInv'
    <3>1. CASE UNCHANGED vars
      BY <2>1, <3>1 DEF vars, LargeInv
    <3>2. CASE Next
      <4>1. part = "fxlarge" /\ Large!Next
        BY <2>1, <3>2 DEF Next
      <4> QED BY <2>1, <4>1, LargeStays, LargeAssumption
    <3> QED BY <2>1, <3>1, <3>2
  <2> QED BY <2>1
<1>3. Inv => LargeBlocksApart
  BY LargeFollows, LargeAssumption DEF LargeBlocksApart
<1> QED BY <1>1, <1>2, <1>3, PTL DEF Spec

-----------------------------------------------------------------------------
(* MemPage: tables is s1, counts s2, cookies s3, calls s4, kernel s5,       *)
(* objects s6 and phase s7.                                                 *)

PageCookie == [ref : BOOLEAN, mapped : BOOLEAN, unref : BOOLEAN]
PageCall == [page : AllPages, shared : BOOLEAN, at : {"frame", "table"}]

Good(c) == c.ref \/ c.mapped
Framed(cs) == {p \in AllPages : cs[p].ref}
UsersIn(cs, t) == {p \in AllPages : Page!TableOf(p) = t /\ cs[p].unref}
Made(ts) == {t \in Page!Tables : ts[t]}

(* Calls that have a frame while they make a table. *)
Waits(call) == call.at = "table" /\ ~call.shared
Waiting(calls) == {k \in 1 .. Len(calls) : Waits(calls[k])}

Put(cs, page, c) == [cs EXCEPT ![page] = c]

(* Pages give up the tables this process made, and no others; so counts and *)
(* tables follow from the cookies.                                          *)
Booked(ts, ns, cs) ==
    /\ ts \in [Page!Tables -> BOOLEAN] /\ ns \in [Page!Tables -> Nat]
    /\ cs \in [AllPages -> PageCookie]
    /\ \A p \in AllPages :
           cs[p].unref <=> Good(cs[p]) /\ Page!TableOf(p) \notin OutsideTables
    /\ \A t \in Page!Tables : ns[t] = Cardinality(UsersIn(cs, t))
    /\ \A t \in Page!Tables : ts[t] <=> t \notin OutsideTables /\ ns[t] > 0

(* The pages of the calls in progress differ and are not mapped yet. *)
Stacked(calls, cs) ==
    /\ calls \in Seq(PageCall)
    /\ \A k \in 1 .. Len(calls) : ~Good(cs[calls[k].page])
    /\ \A k, n \in 1 .. Len(calls) : calls[k].page = calls[n].page => k = n

KernelOf(ts, cs) ==
    [tables |-> OutsideTables \cup Made(ts), pages |-> {p \in AllPages : Good(cs[p])}]

ObjectsOf(ts, cs, calls) ==
    Cardinality(Framed(cs)) + Cardinality(Made(ts)) + Cardinality(Waiting(calls))

PageInv ==
    /\ Booked(s1, s2, s3) /\ Stacked(s4, s3)
    /\ s5 = KernelOf(s1, s3) /\ s6 = ObjectsOf(s1, s3, s4) /\ s7 = "up"

LEMMA TablePages ==
  ASSUME Page!PagesAssumption, NEW p \in AllPages
  PROVE  /\ Page!TableOf(p) \in Page!Tables /\ p \in Nat
         /\ p \in Span(Page!TableOf(p) * PAGE_COUNT_PER_TABLE, PAGE_COUNT_PER_TABLE)
<1> DEFINE n == PAGE_COUNT_PER_TABLE
           t == p \div n
           r == p % n
<1>1. n \in Nat /\ n > 0 /\ PAGE_TABLE_COUNT \in Nat
  BY DEF Page!PagesAssumption
<1>2. p \in 0 .. PAGE_TABLE_COUNT * n - 1 /\ PAGE_TABLE_COUNT * n \in Nat
  BY <1>1 DEF Page!PagesAssumption
<1>3. p \in Nat /\ p < PAGE_TABLE_COUNT * n
  BY <1>2
<1>4. t \in Int /\ r \in 0 .. n - 1 /\ p = n * t + r
  BY <1>1, <1>3
<1> HIDE DEF n, t, r
<1>5. t \in Nat
  <2>1. SUFFICES ASSUME t <= -1 PROVE FALSE
    BY <1>4
  <2>2. n * t <= n * (-1)
    BY <1>1, <1>4, <2>1
  <2> QED BY <1>1, <1>3, <1>4, <2>2
<1>6. t < PAGE_TABLE_COUNT
  <2>1. SUFFICES ASSUME PAGE_TABLE_COUNT <= t PROVE FALSE
    BY <1>1, <1>4
  <2>2. PAGE_TABLE_COUNT * n <= t * n
    BY <1>1, <1>5, <2>1
  <2>3. t * n = n * t
    BY <1>1, <1>5
  <2> QED BY <1>1, <1>3, <1>4, <1>5, <2>2, <2>3
<1>7. t * n = n * t /\ t * n \in Nat
  BY <1>1, <1>5
<1>8. p \in t * n .. (t * n) + n - 1
  BY <1>1, <1>4, <1>5, <1>7
<1>9. Page!TableOf(p) = t
  BY DEF Page!TableOf, t, n
<1>10. p \in Span(t * n, n)
  BY <1>8 DEF Span
<1> QED BY <1>1, <1>3, <1>5, <1>6, <1>9, <1>10 DEF Page!Tables, n

(* Any set of pages or tables is finite, and of pages of one table there    *)
(* are at most PAGE_COUNT_PER_TABLE.                                        *)
LEMMA PageSets ==
  ASSUME Page!PagesAssumption
  PROVE  /\ \A S \in SUBSET AllPages : IsFiniteSet(S) /\ Cardinality(S) \in Nat
         /\ \A S \in SUBSET Page!Tables : IsFiniteSet(S) /\ Cardinality(S) \in Nat
<1>1. PAGE_TABLE_COUNT \in Nat /\ PAGE_TABLE_COUNT * PAGE_COUNT_PER_TABLE \in Nat
  BY DEF Page!PagesAssumption
<1>2. /\ IsFiniteSet(0 .. PAGE_TABLE_COUNT - 1)
      /\ IsFiniteSet(0 .. PAGE_TABLE_COUNT * PAGE_COUNT_PER_TABLE - 1)
  <2>1. 0 \in Int /\ PAGE_TABLE_COUNT - 1 \in Int /\ PAGE_TABLE_COUNT * PAGE_COUNT_PER_TABLE - 1 \in Int
    BY <1>1
  <2> QED BY <2>1, FS_Interval
<1>3. IsFiniteSet(AllPages) /\ IsFiniteSet(Page!Tables)
  BY <1>2, FS_Subset DEF Page!PagesAssumption, Page!Tables
<1> QED BY <1>3, FS_Subset, FS_CardinalityType

LEMMA UsersFew ==
  ASSUME Page!PagesAssumption, NEW cs, NEW t
  PROVE  /\ IsFiniteSet(UsersIn(cs, t)) /\ Cardinality(UsersIn(cs, t)) \in Nat
         /\ t \in Page!Tables => Cardinality(UsersIn(cs, t)) <= PAGE_COUNT_PER_TABLE
<1>1. UsersIn(cs, t) \in SUBSET AllPages
  BY DEF UsersIn
<1>2. ASSUME t \in Page!Tables
      PROVE  Cardinality(UsersIn(cs, t)) <= PAGE_COUNT_PER_TABLE
  <2>1. PAGE_COUNT_PER_TABLE \in Nat /\ t \in Nat
    BY <1>2 DEF Page!PagesAssumption, Page!Tables
  <2>2. t * PAGE_COUNT_PER_TABLE \in Nat
    BY <2>1
  <2> DEFINE W == Span(t * PAGE_COUNT_PER_TABLE, PAGE_COUNT_PER_TABLE)
  <2>3. IsFiniteSet(W) /\ Cardinality(W) = PAGE_COUNT_PER_TABLE
    BY <2>1, <2>2, SpanSize
  <2>4. UsersIn(cs, t) \in SUBSET W
    BY TablePages DEF UsersIn
  <2> QED BY <2>3, <2>4, FS_Subset
<1> QED BY <1>1, <1>2, PageSets

LEMMA PutFacts ==
  ASSUME NEW cs \in [AllPages -> PageCookie], NEW p \in AllPages, NEW c \in PageCookie
  PROVE  /\ Put(cs, p, c) \in [AllPages -> PageCookie]
         /\ Put(cs, p, c)[p] = c
         /\ \A q \in AllPages : q # p => Put(cs, p, c)[q] = cs[q]
  BY DEF Put

(* A cookie changes: the frames in use, and the users of the tables. *)
LEMMA PutCounts ==
  ASSUME Page!PagesAssumption, NEW cs \in [AllPages -> PageCookie],
         NEW p \in AllPages, NEW c \in PageCookie
  PROVE  LET ds == Put(cs, p, c)
             u == Page!TableOf(p)
         IN  /\ (cs[p].ref <=> c.ref) => Cardinality(Framed(ds)) = Cardinality(Framed(cs))
             /\ ~cs[p].ref /\ c.ref => Cardinality(Framed(ds)) = Cardinality(Framed(cs)) + 1
             /\ cs[p].ref /\ ~c.ref => Cardinality(Framed(ds)) = Cardinality(Framed(cs)) - 1
             /\ \A t : t # u => UsersIn(ds, t) = UsersIn(cs, t)
             /\ (cs[p].unref <=> c.unref) =>
                    Cardinality(UsersIn(ds, u)) = Cardinality(UsersIn(cs, u))
             /\ ~cs[p].unref /\ c.unref =>
                    Cardinality(UsersIn(ds, u)) = Cardinality(UsersIn(cs, u)) + 1
             /\ cs[p].unref /\ ~c.unref =>
                    Cardinality(UsersIn(ds, u)) = Cardinality(UsersIn(cs, u)) - 1
<1> DEFINE ds == Put(cs, p, c)
           u == Page!TableOf(p)
<1>1. ds[p] = c /\ \A q \in AllPages : q # p => ds[q] = cs[q]
  BY PutFacts
<1> HIDE DEF ds, u
<1>2. IsFiniteSet(Framed(cs)) /\ IsFiniteSet(UsersIn(cs, u))
  BY PageSets, UsersFew DEF Framed
<1>3. /\ \A y : y # p => (y \in Framed(cs) <=> y \in Framed(ds))
      /\ p \in Framed(cs) <=> cs[p].ref
      /\ p \in Framed(ds) <=> c.ref
  BY <1>1 DEF Framed
<1>4. /\ \A y : y # p => (y \in UsersIn(cs, u) <=> y \in UsersIn(ds, u))
      /\ p \in UsersIn(cs, u) <=> cs[p].unref
      /\ p \in UsersIn(ds, u) <=> c.unref
  BY <1>1 DEF UsersIn, u
<1>5. ASSUME NEW t, t # u PROVE UsersIn(ds, t) = UsersIn(cs, t)
  BY <1>1, <1>5 DEF UsersIn, u
<1>6. /\ (cs[p].ref <=> c.ref) => Cardinality(Framed(ds)) = Cardinality(Framed(cs))
      /\ ~cs[p].ref /\ c.ref => Cardinality(Framed(ds)) = Cardinality(Framed(cs)) + 1
      /\ cs[p].ref /\ ~c.ref => Cardinality(Framed(ds)) = Cardinality(Framed(cs)) - 1
  BY <1>2, <1>3, OneMore
<1>7. /\ (cs[p].unref <=> c.unref) =>
             Cardinality(UsersIn(ds, u)) = Cardinality(UsersIn(cs, u))
      /\ ~cs[p].unref /\ c.unref =>
             Cardinality(UsersIn(ds, u)) = Cardinality(UsersIn(cs, u)) + 1
      /\ cs[p].unref /\ ~c.unref =>
             Cardinality(UsersIn(ds, u)) = Cardinality(UsersIn(cs, u)) - 1
  BY <1>2, <1>4, OneMore
<1> QED BY <1>5, <1>6, <1>7 DEF ds, u

LEMMA MadeCounts ==
  ASSUME Page!PagesAssumption, NEW ts \in [Page!Tables -> BOOLEAN],
         NEW us \in [Page!Tables -> BOOLEAN], NEW t \in Page!Tables,
         \A v \in Page!Tables : v # t => (us[v] <=> ts[v])
  PROVE  /\ (ts[t] <=> us[t]) => Made(us) = Made(ts)
         /\ ~ts[t] /\ us[t] => /\ Cardinality(Made(us)) = Cardinality(Made(ts)) + 1
                               /\ Made(us) = Made(ts) \cup {t}
         /\ ts[t] /\ ~us[t] => /\ Cardinality(Made(us)) = Cardinality(Made(ts)) - 1
                               /\ Made(us) = Made(ts) \ {t}
<1>1. IsFiniteSet(Made(ts))
  BY PageSets DEF Made
<1>2. /\ \A y : y # t => (y \in Made(ts) <=> y \in Made(us))
      /\ t \in Made(ts) <=> ts[t]
      /\ t \in Made(us) <=> us[t]
  BY DEF Made
<1>3. ~ts[t] /\ us[t] => Cardinality(Made(us)) = Cardinality(Made(ts)) + 1
  BY <1>1, <1>2, OneMore
<1>4. ts[t] /\ ~us[t] => Cardinality(Made(us)) = Cardinality(Made(ts)) - 1
  BY <1>1, <1>2, OneMore
<1> QED BY <1>2, <1>3, <1>4

(* A page is mapped in a table that is there. *)
LEMMA BookMap ==
  ASSUME Page!PagesAssumption, NEW ts, NEW ns, NEW cs, Booked(ts, ns, cs),
         NEW p \in AllPages, ~Good(cs[p]), NEW c \in PageCookie, Good(c),
         ts[Page!TableOf(p)] \/ Page!TableOf(p) \in OutsideTables,
         c.unref <=> ts[Page!TableOf(p)]
  PROVE  LET t == Page!TableOf(p)
         IN  /\ Booked(ts, IF ts[t] THEN [ns EXCEPT ![t] = @ + 1] ELSE ns, Put(cs, p, c))
             /\ ts[t] => ns[t] < PAGE_COUNT_PER_TABLE
<1> DEFINE t == Page!TableOf(p)
           ds == Put(cs, p, c)
           ms == IF ts[t] THEN [ns EXCEPT ![t] = @ + 1] ELSE ns
<1>1. /\ t \in Page!Tables /\ ~cs[p].unref
      /\ cs \in [AllPages -> PageCookie] /\ ns \in [Page!Tables -> Nat]
      /\ ts \in [Page!Tables -> BOOLEAN]
      /\ ns[t] = Cardinality(UsersIn(cs, t)) /\ (ts[t] <=> t \notin OutsideTables /\ ns[t] > 0)
      /\ ns[t] \in Nat
  BY TablePages DEF Booked
<1>2. /\ ds \in [AllPages -> PageCookie] /\ ds[p] = c
      /\ \A q \in AllPages : q # p => ds[q] = cs[q]
  BY <1>1, PutFacts
<1>3. /\ \A v : v # t => UsersIn(ds, v) = UsersIn(cs, v)
      /\ ~ts[t] => Cardinality(UsersIn(ds, t)) = Cardinality(UsersIn(cs, t))
      /\ ts[t] => Cardinality(UsersIn(ds, t)) = Cardinality(UsersIn(cs, t)) + 1
  BY <1>1, PutCounts
<1> HIDE DEF t, ds
<1>4. /\ ms \in [Page!Tables -> Nat]
      /\ \A v \in Page!Tables : v # t => ms[v] = ns[v]
      /\ ms[t] = IF ts[t] THEN ns[t] + 1 ELSE ns[t]
  BY <1>1
<1> HIDE DEF ms
<1>5. \A v \in Page!Tables : ms[v] = Cardinality(UsersIn(ds, v))
  BY <1>1, <1>3, <1>4 DEF Booked
<1>6. \A v \in Page!Tables : ts[v] <=> v \notin OutsideTables /\ ms[v] > 0
  <2>1. ASSUME NEW v \in Page!Tables, v # t PROVE ts[v] <=> v \notin OutsideTables /\ ms[v] > 0
    BY <1>4, <2>1 DEF Booked
  <2>2. ts[t] <=> t \notin OutsideTables /\ ms[t] > 0
    BY <1>1, <1>4
  <2> QED BY <2>1, <2>2
<1>7. \A q \in AllPages : ds[q].unref <=> Good(ds[q]) /\ Page!TableOf(q) \notin OutsideTables
  <2>1. ASSUME NEW q \in AllPages, q # p
        PROVE  ds[q].unref <=> Good(ds[q]) /\ Page!TableOf(q) \notin OutsideTables
    BY <1>2, <2>1 DEF Booked
  <2>2. ds[p].unref <=> Good(ds[p]) /\ Page!TableOf(p) \notin OutsideTables
    BY <1>1, <1>2 DEF t
  <2> QED BY <2>1, <2>2
<1>8. ASSUME ts[t] PROVE ns[t] < PAGE_COUNT_PER_TABLE
  <2>1. Cardinality(UsersIn(ds, t)) <= PAGE_COUNT_PER_TABLE
    BY <1>1, UsersFew
  <2>2. Cardinality(UsersIn(ds, t)) = ns[t] + 1
    BY <1>1, <1>3, <1>8
  <2> QED BY <1>1, <2>1, <2>2 DEF Page!PagesAssumption
<1>9. Booked(ts, ms, ds)
  BY <1>1, <1>2, <1>4, <1>5, <1>6, <1>7 DEF Booked
<1> QED BY <1>8, <1>9 DEF t, ds, ms

(* A page is the first in a table. *)
LEMMA BookTable ==
  ASSUME Page!PagesAssumption, NEW ts, NEW ns, NEW cs, Booked(ts, ns, cs),
         NEW p \in AllPages, ~Good(cs[p]), NEW c \in PageCookie, Good(c), c.unref,
         ~ts[Page!TableOf(p)], Page!TableOf(p) \notin OutsideTables
  PROVE  LET t == Page!TableOf(p)
         IN  Booked([ts EXCEPT ![t] = TRUE], [ns EXCEPT ![t] = 1], Put(cs, p, c))
<1> DEFINE t == Page!TableOf(p)
           ds == Put(cs, p, c)
           ms == [ns EXCEPT ![t] = 1]
           us == [ts EXCEPT ![t] = TRUE]
<1>1. /\ t \in Page!Tables /\ ~cs[p].unref
      /\ cs \in [AllPages -> PageCookie] /\ ns \in [Page!Tables -> Nat]
      /\ ts \in [Page!Tables -> BOOLEAN]
      /\ ns[t] = Cardinality(UsersIn(cs, t)) /\ ns[t] = 0
  BY TablePages DEF Booked
<1>2. /\ ds \in [AllPages -> PageCookie] /\ ds[p] = c
      /\ \A q \in AllPages : q # p => ds[q] = cs[q]
  BY <1>1, PutFacts
<1>3. /\ \A v : v # t => UsersIn(ds, v) = UsersIn(cs, v)
      /\ Cardinality(UsersIn(ds, t)) = Cardinality(UsersIn(cs, t)) + 1
  BY <1>1, PutCounts
<1> HIDE DEF t, ds
<1>4. /\ ms \in [Page!Tables -> Nat] /\ ms[t] = 1
      /\ \A v \in Page!Tables : v # t => ms[v] = ns[v]
      /\ us \in [Page!Tables -> BOOLEAN] /\ us[t] = TRUE
      /\ \A v \in Page!Tables : v # t => us[v] = ts[v]
  BY <1>1
<1> HIDE DEF ms, us
<1>5. \A v \in Page!Tables : ms[v] = Cardinality(UsersIn(ds, v))
  BY <1>1, <1>3, <1>4 DEF Booked
<1>6. \A v \in Page!Tables : us[v] <=> v \notin OutsideTables /\ ms[v] > 0
  <2>1. ASSUME NEW v \in Page!Tables, v # t PROVE us[v] <=> v \notin OutsideTables /\ ms[v] > 0
    BY <1>4, <2>1 DEF Booked
  <2>2. us[t] <=> t \notin OutsideTables /\ ms[t] > 0
    BY <1>4 DEF t
  <2> QED BY <2>1, <2>2
<1>7. \A q \in AllPages : ds[q].unref <=> Good(ds[q]) /\ Page!TableOf(q) \notin OutsideTables
  <2>1. ASSUME NEW q \in AllPages, q # p
        PROVE  ds[q].unref <=> Good(ds[q]) /\ Page!TableOf(q) \notin OutsideTables
    BY <1>2, <2>1 DEF Booked
  <2>2. ds[p].unref <=> Good(ds[p]) /\ Page!TableOf(p) \notin OutsideTables
    BY <1>1, <1>2 DEF t
  <2> QED BY <2>1, <2>2
<1>8. Booked(us, ms, ds)
  BY <1>2, <1>4, <1>5, <1>6, <1>7 DEF Booked
<1> QED BY <1>8 DEF t, ds, ms, us

(* A page is unmapped, and with the last of its users the table. *)
LEMMA BookFree ==
  ASSUME Page!PagesAssumption, NEW ts, NEW ns, NEW cs, Booked(ts, ns, cs),
         NEW p \in AllPages, Good(cs[p])
  PROVE  LET t == Page!TableOf(p)
             ds == Put(cs, p, Page!Invalid)
         IN  /\ cs[p].unref => ts[t] /\ ns[t] \in Nat \ {0}
             /\ ~cs[p].unref => Booked(ts, ns, ds)
             /\ cs[p].unref /\ ns[t] # 1 => Booked(ts, [ns EXCEPT ![t] = @ - 1], ds)
             /\ cs[p].unref /\ ns[t] = 1 =>
                    /\ Booked([ts EXCEPT ![t] = FALSE], [ns EXCEPT ![t] = @ - 1], ds)
                    /\ \A q \in AllPages : Page!TableOf(q) = t => ~Good(ds[q])
<1> DEFINE t == Page!TableOf(p)
           c == Page!Invalid
           ds == Put(cs, p, c)
           ms == IF cs[p].unref THEN [ns EXCEPT ![t] = @ - 1] ELSE ns
           us == IF cs[p].unref /\ ns[t] = 1 THEN [ts EXCEPT ![t] = FALSE] ELSE ts
<1>1. /\ t \in Page!Tables
      /\ cs \in [AllPages -> PageCookie] /\ ns \in [Page!Tables -> Nat]
      /\ ts \in [Page!Tables -> BOOLEAN]
      /\ ns[t] = Cardinality(UsersIn(cs, t)) /\ ns[t] \in Nat
      /\ cs[p].unref <=> t \notin OutsideTables
      /\ ts[t] <=> t \notin OutsideTables /\ ns[t] > 0
  <2>1. t \in Page!Tables
    BY TablePages
  <2>2. cs[p].unref <=> t \notin OutsideTables
    BY DEF Booked
  <2> HIDE DEF t
  <2> QED BY <2>1, <2>2 DEF Booked
<1>2. c \in PageCookie /\ ~c.ref /\ ~c.unref /\ ~Good(c)
  BY DEF Page!Invalid, PageCookie, Good
<1> HIDE DEF c
<1>3. /\ ds \in [AllPages -> PageCookie] /\ ds[p] = c
      /\ \A q \in AllPages : q # p => ds[q] = cs[q]
  <2>1. cs \in [AllPages -> PageCookie] /\ c \in PageCookie
    BY <1>1, <1>2
  <2> QED BY <2>1, PutFacts
<1>4. /\ \A v : v # t => UsersIn(ds, v) = UsersIn(cs, v)
      /\ ~cs[p].unref => Cardinality(UsersIn(ds, t)) = Cardinality(UsersIn(cs, t))
      /\ cs[p].unref => Cardinality(UsersIn(ds, t)) = Cardinality(UsersIn(cs, t)) - 1
  <2>1. /\ \A v : v # t => UsersIn(ds, v) = UsersIn(cs, v)
        /\ (cs[p].unref <=> c.unref) =>
               Cardinality(UsersIn(ds, t)) = Cardinality(UsersIn(cs, t))
        /\ cs[p].unref /\ ~c.unref =>
               Cardinality(UsersIn(ds, t)) = Cardinality(UsersIn(cs, t)) - 1
    BY <1>1, <1>2, PutCounts
  <2> HIDE DEF ds, t
  <2> QED BY <2>1, <1>2
<1> HIDE DEF ds
<1>5. Cardinality(UsersIn(ds, t)) \in Nat
  BY UsersFew
<1>6. cs[p].unref => ts[t] /\ ns[t] \in Nat \ {0}
  BY <1>1, <1>4, <1>5
<1> HIDE DEF t
<1>7. /\ ms \in [Page!Tables -> Nat]
      /\ \A v \in Page!Tables : v # t => ms[v] = ns[v]
      /\ ms[t] = IF cs[p].unref THEN ns[t] - 1 ELSE ns[t]
      /\ us \in [Page!Tables -> BOOLEAN]
      /\ \A v \in Page!Tables : v # t => us[v] = ts[v]
      /\ us[t] <=> ts[t] /\ ~(cs[p].unref /\ ns[t] = 1)
  BY <1>1, <1>6
<1> HIDE DEF ms, us
<1>8. \A v \in Page!Tables : ms[v] = Cardinality(UsersIn(ds, v))
  BY <1>1, <1>4, <1>7 DEF Booked
<1>9. \A v \in Page!Tables : us[v] <=> v \notin OutsideTables /\ ms[v] > 0
  <2>1. ASSUME NEW v \in Page!Tables, v # t PROVE us[v] <=> v \notin OutsideTables /\ ms[v] > 0
    BY <1>7, <2>1 DEF Booked
  <2>2. us[t] <=> t \notin OutsideTables /\ ms[t] > 0
    BY <1>1, <1>6, <1>7
  <2> QED BY <2>1, <2>2
<1>10. \A q \in AllPages : ds[q].unref <=> Good(ds[q]) /\ Page!TableOf(q) \notin OutsideTables
  <2>1. ASSUME NEW q \in AllPages, q # p
        PROVE  ds[q].unref <=> Good(ds[q]) /\ Page!TableOf(q) \notin OutsideTables
    BY <1>3, <2>1 DEF Booked
  <2>2. ds[p].unref <=> Good(ds[p]) /\ Page!TableOf(p) \notin OutsideTables
    BY <1>2, <1>3
  <2> QED BY <2>1, <2>2
<1>11. Booked(us, ms, ds)
  BY <1>3, <1>7, <1>8, <1>9, <1>10 DEF Booked
<1>12. ASSUME cs[p].unref, ns[t] = 1, NEW q \in AllPages, Page!TableOf(q) = t, Good(ds[q])
       PROVE  FALSE
  <2>1. ds[q].unref
    BY <1>1, <1>10, <1>12
  <2>2. q \in UsersIn(ds, t)
    BY <1>12, <2>1 DEF UsersIn
  <2>3. Cardinality(UsersIn(ds, t)) = 0 /\ IsFiniteSet(UsersIn(ds, t))
    BY <1>1, <1>4, <1>12, UsersFew
  <2> QED BY <2>2, <2>3, FS_EmptySet
<1>13. /\ ~cs[p].unref => Booked(ts, ns, ds)
       /\ cs[p].unref /\ ns[t] # 1 => Booked(ts, [ns EXCEPT ![t] = @ - 1], ds)
       /\ cs[p].unref /\ ns[t] = 1 =>
              Booked([ts EXCEPT ![t] = FALSE], [ns EXCEPT ![t] = @ - 1], ds)
  BY <1>11 DEF ms, us
<1> QED BY <1>6, <1>12, <1>13 DEF t, ds, c

(* Calls begin, go on from their frame to the table, and end. *)
LEMMA PushedCall ==
  ASSUME NEW calls \in Seq(PageCall), NEW call \in PageCall
  PROVE  LET s == <<call>> \o calls
         IN  /\ s \in Seq(PageCall) /\ Len(s) = Len(calls) + 1
             /\ s[1] = call /\ \A n \in 1 .. Len(calls) : s[n + 1] = calls[n]
             /\ \A k \in 1 .. Len(s) : k # 1 => k - 1 \in 1 .. Len(calls) /\ s[k] = calls[k - 1]
<1> DEFINE s == <<call>> \o calls
<1>1. /\ s \in Seq(PageCall) /\ Len(s) = Len(calls) + 1
      /\ s[1] = call /\ \A n \in 1 .. Len(calls) : s[n + 1] = calls[n]
  OBVIOUS
<1> HIDE DEF s
<1>2. ASSUME NEW k \in 1 .. Len(s), k # 1
      PROVE  k - 1 \in 1 .. Len(calls) /\ s[k] = calls[k - 1]
  <2>1. Len(calls) \in Nat
    OBVIOUS
  <2>2. k - 1 \in 1 .. Len(calls) /\ (k - 1) + 1 = k
    BY <1>1, <1>2, <2>1
  <2> QED BY <1>1, <2>2
<1> QED BY <1>1, <1>2 DEF s

LEMMA WaitingSize ==
  ASSUME NEW calls \in Seq(PageCall)
  PROVE  IsFiniteSet(Waiting(calls)) /\ Cardinality(Waiting(calls)) \in Nat
<1>1. 1 \in Int /\ Len(calls) \in Int
  OBVIOUS
<1>2. IsFiniteSet(1 .. Len(calls))
  BY <1>1, FS_Interval
<1>3. Waiting(calls) \in SUBSET (1 .. Len(calls))
  BY DEF Waiting
<1> QED BY <1>2, <1>3, FS_Subset, FS_CardinalityType

LEMMA WaitingPushed ==
  ASSUME NEW calls \in Seq(PageCall), NEW call \in PageCall
  PROVE  /\ IsFiniteSet(Waiting(calls)) /\ Cardinality(Waiting(calls)) \in Nat
         /\ Cardinality(Waiting(<<call>> \o calls)) =
              Cardinality(Waiting(calls)) + (IF Waits(call) THEN 1 ELSE 0)
<1> DEFINE s == <<call>> \o calls
           W == Waiting(calls)
           V == Waiting(s) \ {1}
           f == [k \in W |-> k + 1]
<1>1. /\ Len(s) = Len(calls) + 1 /\ s[1] = call /\ Len(calls) \in Nat
      /\ \A n \in 1 .. Len(calls) : s[n + 1] = calls[n]
      /\ \A k \in 1 .. Len(s) : k # 1 => k - 1 \in 1 .. Len(calls) /\ s[k] = calls[k - 1]
  BY PushedCall
<1> HIDE DEF s
<1>3. IsFiniteSet(W) /\ Cardinality(W) \in Nat
  BY WaitingSize
<1>4. f \in Bijection(W, V)
  <2>1. ASSUME NEW k \in W PROVE f[k] \in V
    <3>1. k \in 1 .. Len(calls) /\ Waits(calls[k])
      BY DEF Waiting
    <3>2. k + 1 \in 1 .. Len(s) /\ k + 1 # 1 /\ Waits(s[k + 1])
      BY <1>1, <3>1
    <3> QED BY <3>2 DEF Waiting
  <2>2. ASSUME NEW k \in W, NEW n \in W, f[k] = f[n] PROVE k = n
    BY <2>2 DEF Waiting
  <2>3. ASSUME NEW m \in V PROVE \E k \in W : f[k] = m
    <3>1. m \in 1 .. Len(s) /\ m # 1 /\ Waits(s[m])
      BY DEF Waiting
    <3>2. m - 1 \in 1 .. Len(calls) /\ Waits(calls[m - 1]) /\ (m - 1) + 1 = m
      BY <1>1, <3>1
    <3>3. m - 1 \in W
      BY <3>2 DEF Waiting
    <3> QED BY <3>2, <3>3
  <2> QED BY <2>1, <2>2, <2>3 DEF Bijection, Injection, Surjection, IsInjective
<1>5. IsFiniteSet(V) /\ Cardinality(V) = Cardinality(W)
  <2> HIDE DEF f, V, W
  <2> QED BY <1>3, <1>4, FS_Bijection DEF ExistsBijection
<1>6. 1 \in Waiting(s) <=> Waits(call)
  BY <1>1 DEF Waiting
<1> HIDE DEF W, V, f
<1>7. ASSUME Waits(call) PROVE Cardinality(Waiting(s)) = Cardinality(W) + 1
  <2>1. Waiting(s) = V \cup {1} /\ 1 \notin V
    BY <1>6, <1>7 DEF V
  <2>2. Cardinality(V \cup {1}) = Cardinality(V) + 1
    BY <1>5, <2>1, FS_AddElement
  <2> QED BY <1>5, <2>1, <2>2
<1>8. ASSUME ~Waits(call) PROVE Cardinality(Waiting(s)) = Cardinality(W)
  <2>1. Waiting(s) = V
    BY <1>6, <1>8 DEF V
  <2> QED BY <1>5, <2>1
<1> QED BY <1>3, <1>7, <1>8 DEF s, W

LEMMA StackPush ==
  ASSUME NEW cs, NEW calls, Stacked(calls, cs), NEW call \in PageCall, ~Good(cs[call.page]),
         \A k \in 1 .. Len(calls) : calls[k].page # call.page
  PROVE  Stacked(<<call>> \o calls, cs)
<1> DEFINE s == <<call>> \o calls
<1>1. calls \in Seq(PageCall)
  BY DEF Stacked
<1>2. /\ s \in Seq(PageCall) /\ s[1] = call
      /\ \A k \in 1 .. Len(s) : k # 1 => k - 1 \in 1 .. Len(calls) /\ s[k] = calls[k - 1]
  BY <1>1, PushedCall
<1> HIDE DEF s
<1>3. ASSUME NEW k \in 1 .. Len(s) PROVE ~Good(cs[s[k].page])
  BY <1>2 DEF Stacked
<1>4. ASSUME NEW k \in 1 .. Len(s), NEW n \in 1 .. Len(s), s[k].page = s[n].page
      PROVE  k = n
  <2>1. CASE k = 1 \/ n = 1
    BY <1>2, <1>4, <2>1
  <2>2. CASE k # 1 /\ n # 1
    <3>1. k - 1 \in 1 .. Len(calls) /\ n - 1 \in 1 .. Len(calls)
          /\ calls[k - 1].page = calls[n - 1].page
      BY <1>2, <1>4, <2>2
    <3>2. k - 1 = n - 1
      BY <3>1 DEF Stacked
    <3> QED BY <3>2
  <2> QED BY <2>1, <2>2
<1> QED BY <1>2, <1>3, <1>4 DEF Stacked, s

LEMMA StackPop ==
  ASSUME NEW cs, NEW calls, Stacked(calls, cs), calls # <<>>
  PROVE  /\ Head(calls) \in PageCall /\ ~Good(cs[Head(calls).page])
         /\ calls = <<Head(calls)>> \o Tail(calls) /\ Stacked(Tail(calls), cs)
         /\ \A k \in 1 .. Len(Tail(calls)) : Tail(calls)[k].page # Head(calls).page
<1> DEFINE t == Tail(calls)
<1>1. calls \in Seq(PageCall)
  BY DEF Stacked
<1>2. /\ Head(calls) = calls[1] /\ Len(calls) > 0 /\ Len(calls) \in Nat
      /\ calls = <<Head(calls)>> \o t
      /\ t \in Seq(PageCall) /\ Len(t) = Len(calls) - 1
      /\ \A n \in 1 .. Len(t) : t[n] = calls[n + 1]
  BY <1>1
<1>3. calls[1] \in PageCall
  BY <1>1, <1>2
<1> HIDE DEF t
<1>4. \A n \in 1 .. Len(t) : n + 1 \in 1 .. Len(calls) /\ n + 1 # 1 /\ t[n] = calls[n + 1]
  BY <1>2
<1>5. 1 \in 1 .. Len(calls)
  BY <1>2
<1>6. \A n \in 1 .. Len(t) : t[n].page # calls[1].page /\ ~Good(cs[t[n].page])
  BY <1>4, <1>5 DEF Stacked
<1>7. ASSUME NEW k \in 1 .. Len(t), NEW n \in 1 .. Len(t), t[k].page = t[n].page
      PROVE  k = n
  <2>1. k + 1 = n + 1
    BY <1>4, <1>7 DEF Stacked
  <2> QED BY <2>1
<1>8. Stacked(t, cs) /\ ~Good(cs[calls[1].page])
  BY <1>2, <1>5, <1>6, <1>7 DEF Stacked
<1> QED BY <1>2, <1>3, <1>6, <1>8 DEF t

LEMMA StackPut ==
  ASSUME NEW cs \in [AllPages -> PageCookie], NEW calls, Stacked(calls, cs),
         NEW p \in AllPages, NEW c \in PageCookie,
         \A k \in 1 .. Len(calls) : calls[k].page # p
  PROVE  Stacked(calls, Put(cs, p, c))
<1>1. \A k \in 1 .. Len(calls) : calls[k] \in PageCall
  BY DEF Stacked
<1>2. \A k \in 1 .. Len(calls) : calls[k].page \in AllPages
  BY <1>1 DEF PageCall
<1>3. \A k \in 1 .. Len(calls) : Put(cs, p, c)[calls[k].page] = cs[calls[k].page]
  BY <1>2, PutFacts
<1> QED BY <1>3 DEF Stacked

LEMMA GoodPut ==
  ASSUME NEW cs \in [AllPages -> PageCookie], NEW p \in AllPages, NEW c \in PageCookie
  PROVE  {q \in AllPages : Good(Put(cs, p, c)[q])} =
           IF Good(c) THEN {q \in AllPages : Good(cs[q])} \cup {p}
           ELSE {q \in AllPages : Good(cs[q])} \ {p}
  BY PutFacts

LEMMA MapInTableStays ==
  ASSUME Page!PagesAssumption, PageInv, NEW call \in PageCall, ~Good(s3[call.page]),
         NEW rest, Stacked(rest, s3), \A k \in 1 .. Len(rest) : rest[k].page # call.page,
         Cardinality(Waiting(rest)) = Cardinality(Waiting(s4)),
         Page!TableOf(call.page) \in s5.tables, Page!MapInTable(call, rest)
  PROVE  PageInv'
<1> DEFINE t == Page!TableOf(call.page)
           p == call.page
           c == [ref |-> ~call.shared, mapped |-> call.shared, unref |-> s1[t]]
           ms == IF s1[t] THEN [s2 EXCEPT ![t] = @ + 1] ELSE s2
<1>1. p \in AllPages /\ call.shared \in BOOLEAN /\ t \in Page!Tables
  BY TablePages DEF PageCall
<1>2. /\ s1 \in [Page!Tables -> BOOLEAN] /\ s2 \in [Page!Tables -> Nat]
      /\ s3 \in [AllPages -> PageCookie] /\ Booked(s1, s2, s3)
  BY DEF PageInv, Booked
<1>3. s1[t] \in BOOLEAN /\ s2[t] \in Nat
  BY <1>1, <1>2
<1>4. c \in PageCookie
  BY <1>1, <1>3 DEF PageCookie
<1>5. Good(c) /\ (c.unref <=> s1[t]) /\ (c.ref <=> ~call.shared)
  BY <1>1, <1>3 DEF Good
<1>6. s1[t] \/ t \in OutsideTables
  BY DEF PageInv, KernelOf, Made
<1>7. Booked(s1, ms, Put(s3, p, c)) /\ (s1[t] => s2[t] < PAGE_COUNT_PER_TABLE)
  <2> HIDE DEF c, p
  <2> QED BY <1>1, <1>2, <1>4, <1>5, <1>6, BookMap DEF p
<1>8. ~(s1[t] /\ s2[t] > PAGE_COUNT_PER_TABLE) /\ PAGE_COUNT_PER_TABLE \in Nat
  BY <1>3, <1>7 DEF Page!PagesAssumption
<1>9. /\ s2' = ms /\ s3' = Put(s3, p, c)
      /\ s5' = [s5 EXCEPT !.pages = @ \cup {p}]
      /\ s6' = s6 + Page!Frames(call) /\ s4' = rest /\ s1' = s1 /\ s7' = s7
  BY <1>8 DEF Page!MapInTable, Page!Counted, Put
<1>10. Stacked(rest, Put(s3, p, c))
  <2> HIDE DEF c
  <2> QED BY <1>1, <1>2, <1>4, StackPut
<1>11. s5' = KernelOf(s1, Put(s3, p, c))
  <2> HIDE DEF c
  <2>1. s5 = [tables |-> OutsideTables \cup Made(s1), pages |-> {q \in AllPages : Good(s3[q])}]
    BY DEF PageInv, KernelOf
  <2>2. {q \in AllPages : Good(Put(s3, p, c)[q])} = {q \in AllPages : Good(s3[q])} \cup {p}
    BY <1>1, <1>2, <1>4, <1>5, GoodPut
  <2> HIDE DEF p
  <2> QED BY <1>9, <2>1, <2>2 DEF KernelOf
<1>12. s6' = ObjectsOf(s1, Put(s3, p, c), rest)
  <2> HIDE DEF c
  <2>1. ~s3[p].ref
    BY DEF Good
  <2>2. Cardinality(Framed(Put(s3, p, c))) = Cardinality(Framed(s3)) + Page!Frames(call)
    <3>1. /\ (s3[p].ref <=> c.ref) =>
                 Cardinality(Framed(Put(s3, p, c))) = Cardinality(Framed(s3))
          /\ ~s3[p].ref /\ c.ref =>
                 Cardinality(Framed(Put(s3, p, c))) = Cardinality(Framed(s3)) + 1
      BY <1>1, <1>2, <1>4, PutCounts
    <3>2. Cardinality(Framed(s3)) \in Nat
      BY PageSets DEF Framed
    <3> HIDE DEF p
    <3> QED BY <1>5, <2>1, <3>1, <3>2 DEF Page!Frames
  <2>3. Cardinality(Framed(s3)) \in Nat /\ Cardinality(Made(s1)) \in Nat
    BY PageSets DEF Framed, Made
  <2>4. Cardinality(Waiting(s4)) \in Nat /\ Page!Frames(call) \in Nat
    BY WaitingPushed DEF PageInv, Stacked, Page!Frames
  <2> QED BY <1>9, <2>2, <2>3, <2>4 DEF PageInv, ObjectsOf
<1> QED BY <1>7, <1>9, <1>10, <1>11, <1>12 DEF PageInv

LEMMA FirstMapStays ==
  ASSUME Page!PagesAssumption, PageInv, NEW call \in PageCall, ~Good(s3[call.page]),
         call.at = "frame", NEW rest, Stacked(rest, s3),
         \A k \in 1 .. Len(rest) : rest[k].page # call.page,
         Cardinality(Waiting(rest)) = Cardinality(Waiting(s4)), Page!FirstMap(call, rest)
  PROVE  PageInv'
<1> DEFINE t == Page!TableOf(call.page)
           next == [call EXCEPT !.at = "table"]
<1>1. t \in Page!Tables
  BY TablePages DEF PageCall
<1>2. CASE s4' = rest /\ Page!Unchanged
  <2>1. UNCHANGED <<s1, s2, s3, s5, s6, s7>>
    BY <1>2 DEF Page!Unchanged
  <2> QED BY <1>2, <2>1 DEF PageInv, ObjectsOf
<1>3. CASE t \in s5.tables /\ Page!MapInTable(call, rest)
  BY <1>3, MapInTableStays
<1>4. CASE t \notin s5.tables /\ ~(s4' = rest /\ Page!Unchanged)
  <2>1. ~(s1[t] \/ s2[t] # 0)
    BY <1>1, <1>4 DEF PageInv, Booked, KernelOf, Made
  <2>2. /\ s4' = <<next>> \o rest /\ s6' = s6 + Page!Frames(call)
        /\ UNCHANGED <<s1, s2, s3, s5, s7>>
    BY <1>4, <2>1 DEF Page!FirstMap
  <2>3. next \in PageCall /\ next.page = call.page /\ next.at = "table" /\ next.shared = call.shared
    BY DEF PageCall
  <2> HIDE DEF next
  <2>4. Stacked(<<next>> \o rest, s3)
    BY <2>3, StackPush
  <2>5. s6' = ObjectsOf(s1, s3, <<next>> \o rest)
    <3>1. rest \in Seq(PageCall)
      BY DEF Stacked
    <3>2. Cardinality(Waiting(<<next>> \o rest)) =
            Cardinality(Waiting(rest)) + (IF Waits(next) THEN 1 ELSE 0)
      BY <2>3, <3>1, WaitingPushed
    <3>3. (IF Waits(next) THEN 1 ELSE 0) = Page!Frames(call)
      BY <2>3 DEF Waits, Page!Frames
    <3>4. Cardinality(Waiting(rest)) \in Nat /\ Page!Frames(call) \in Nat
      BY <3>1, WaitingPushed DEF Page!Frames
    <3>5. Cardinality(Framed(s3)) \in Nat /\ Cardinality(Made(s1)) \in Nat
      BY PageSets DEF Framed, Made
    <3> QED BY <2>2, <3>2, <3>3, <3>4, <3>5 DEF PageInv, ObjectsOf
  <2> QED BY <2>2, <2>4, <2>5 DEF PageInv
<1> QED BY <1>2, <1>3, <1>4 DEF Page!FirstMap

LEMMA MemPageMapStays ==
  ASSUME Page!PagesAssumption, PageInv, NEW p \in AllPages, Page!mem_page_map(p)
  PROVE  PageInv'
<1> DEFINE call == [page |-> p, shared |-> FALSE, at |-> "frame"]
<1>1. /\ s4' = <<call>> \o s4 /\ UNCHANGED <<s1, s2, s3, s5, s6, s7>>
      /\ ~Good(s3[p]) /\ \A k \in 1 .. Len(s4) : s4[k].page # p
  BY DEF Page!mem_page_map, Page!Unchanged, Page!Fresh, Page!mem_page_valid, Good
<1>2. call \in PageCall /\ call.page = p /\ ~Waits(call)
  BY DEF PageCall, Waits
<1> HIDE DEF call
<1>3. Stacked(<<call>> \o s4, s3)
  BY <1>1, <1>2, StackPush DEF PageInv
<1>4. Cardinality(Waiting(<<call>> \o s4)) = Cardinality(Waiting(s4))
  <2>1. s4 \in Seq(PageCall)
    BY DEF PageInv, Stacked
  <2>2. /\ Cardinality(Waiting(s4)) \in Nat
        /\ Cardinality(Waiting(<<call>> \o s4)) =
             Cardinality(Waiting(s4)) + (IF Waits(call) THEN 1 ELSE 0)
    BY <1>2, <2>1, WaitingPushed
  <2> QED BY <1>2, <2>2
<1> QED BY <1>1, <1>3, <1>4 DEF PageInv, ObjectsOf

LEMMA SharedMapStays ==
  ASSUME Page!PagesAssumption, PageInv, NEW p \in AllPages, Page!mem_page_shared_map(p)
  PROVE  PageInv'
<1> DEFINE call == [page |-> p, shared |-> TRUE, at |-> "frame"]
<1>1. s4 = <<>> /\ ~Good(s3[p]) /\ Page!FirstMap(call, <<>>)
  BY DEF Page!mem_page_shared_map, Page!Fresh, Page!mem_page_valid, Good
<1>2. call \in PageCall /\ call.page = p /\ call.at = "frame"
  BY DEF PageCall
<1> HIDE DEF call
<1>3. Stacked(<<>>, s3) /\ \A k \in 1 .. Len(<<>>) : <<>>[k].page # p
  BY <1>1 DEF Stacked
<1>4. Cardinality(Waiting(<<>>)) = Cardinality(Waiting(s4))
  BY <1>1
<1> QED BY <1>1, <1>2, <1>3, <1>4, FirstMapStays

(* The innermost call ends or goes on: what the others have is left. *)
LEMMA Innermost ==
  ASSUME PageInv, s4 # <<>>
  PROVE  /\ Head(s4) \in PageCall /\ ~Good(s3[Head(s4).page]) /\ Stacked(Tail(s4), s3)
         /\ \A k \in 1 .. Len(Tail(s4)) : Tail(s4)[k].page # Head(s4).page
         /\ Cardinality(Waiting(Tail(s4))) \in Nat
         /\ Cardinality(Waiting(s4)) =
              Cardinality(Waiting(Tail(s4))) + (IF Waits(Head(s4)) THEN 1 ELSE 0)
<1>1. /\ Head(s4) \in PageCall /\ ~Good(s3[Head(s4).page])
      /\ s4 = <<Head(s4)>> \o Tail(s4) /\ Stacked(Tail(s4), s3)
      /\ \A k \in 1 .. Len(Tail(s4)) : Tail(s4)[k].page # Head(s4).page
  BY StackPop DEF PageInv
<1>2. Tail(s4) \in Seq(PageCall)
  BY <1>1 DEF Stacked
<1>3. /\ Cardinality(Waiting(Tail(s4))) \in Nat
      /\ Cardinality(Waiting(<<Head(s4)>> \o Tail(s4))) =
           Cardinality(Waiting(Tail(s4))) + (IF Waits(Head(s4)) THEN 1 ELSE 0)
  BY <1>1, <1>2, WaitingPushed
<1> QED BY <1>1, <1>3

LEMMA FrameStays ==
  ASSUME Page!PagesAssumption, PageInv, Page!FrameFails \/ Page!FrameReturned
  PROVE  PageInv'
<1>1. s4 # <<>> /\ Head(s4).at = "frame"
  BY DEF Page!FrameFails, Page!FrameReturned, Page!Call
<1>2. /\ Head(s4) \in PageCall /\ ~Good(s3[Head(s4).page]) /\ Stacked(Tail(s4), s3)
      /\ \A k \in 1 .. Len(Tail(s4)) : Tail(s4)[k].page # Head(s4).page
      /\ Cardinality(Waiting(s4)) = Cardinality(Waiting(Tail(s4)))
  BY <1>1, Innermost DEF Waits
<1>3. CASE Page!FrameFails
  <2>1. s4' = Tail(s4) /\ UNCHANGED <<s1, s2, s3, s5, s6, s7>>
    BY <1>3 DEF Page!FrameFails, Page!Unchanged
  <2> QED BY <1>2, <2>1 DEF PageInv, ObjectsOf
<1>4. CASE Page!FrameReturned
  BY <1>1, <1>2, <1>4, FirstMapStays DEF Page!FrameReturned, Page!Call
<1> QED BY <1>3, <1>4

LEMMA TableFailsStays ==
  ASSUME Page!PagesAssumption, PageInv, Page!TableFails PROVE PageInv'
<1>1. s4 # <<>> /\ Head(s4).at = "table"
  BY DEF Page!TableFails, Page!Call
<1>2. /\ Stacked(Tail(s4), s3) /\ Cardinality(Waiting(Tail(s4))) \in Nat
      /\ Cardinality(Waiting(s4)) = Cardinality(Waiting(Tail(s4))) + Page!Frames(Head(s4))
      /\ Page!Frames(Head(s4)) \in Nat
  BY <1>1, Innermost DEF Waits, Page!Frames
<1>3. /\ s4' = Tail(s4) /\ s6' = s6 - Page!Frames(Head(s4))
      /\ UNCHANGED <<s1, s2, s3, s5, s7>>
  <2>1. s6 \in Nat
    <3>1. /\ Cardinality(Framed(s3)) \in Nat /\ Cardinality(Made(s1)) \in Nat
          /\ Cardinality(Waiting(s4)) \in Nat
      BY <1>2, PageSets DEF Framed, Made
    <3> QED BY <3>1 DEF PageInv, ObjectsOf
  <2> QED BY <1>2, <2>1 DEF Page!TableFails, Page!KeptFrame, Page!Call
<1>4. s6' = ObjectsOf(s1, s3, Tail(s4))
  <2>1. Cardinality(Framed(s3)) \in Nat /\ Cardinality(Made(s1)) \in Nat
    BY PageSets DEF Framed, Made
  <2> QED BY <1>2, <1>3, <2>1 DEF PageInv, ObjectsOf
<1> QED BY <1>2, <1>3, <1>4 DEF PageInv

LEMMA TableReturnedStays ==
  ASSUME Page!PagesAssumption, PageInv, Page!TableReturned PROVE PageInv'
<1> DEFINE call == Head(s4)
           rest == Tail(s4)
           p == call.page
           t == Page!TableOf(p)
           c == [ref |-> ~call.shared, mapped |-> call.shared, unref |-> TRUE]
<1>1. s4 # <<>> /\ call.at = "table" /\ t \notin s5.tables /\ s4' = rest /\ s7' = s7
  BY DEF Page!TableReturned, Page!Call
<1>2. /\ call \in PageCall /\ ~Good(s3[p]) /\ Stacked(rest, s3)
      /\ \A k \in 1 .. Len(rest) : rest[k].page # p
      /\ Cardinality(Waiting(rest)) \in Nat
      /\ Cardinality(Waiting(s4)) = Cardinality(Waiting(rest)) + Page!Frames(call)
      /\ Page!Frames(call) \in {0, 1}
  BY <1>1, Innermost DEF Waits, Page!Frames
<1>3. p \in AllPages /\ call.shared \in BOOLEAN /\ t \in Page!Tables
  BY <1>2, TablePages DEF PageCall
<1>4. /\ s1 \in [Page!Tables -> BOOLEAN] /\ s2 \in [Page!Tables -> Nat]
      /\ s3 \in [AllPages -> PageCookie] /\ Booked(s1, s2, s3)
  BY DEF PageInv, Booked
<1>5. t \notin OutsideTables /\ ~s1[t] /\ s1[t] = FALSE
  BY <1>1, <1>3, <1>4 DEF PageInv, KernelOf, Made
<1>6. Cardinality(Framed(s3)) \in Nat /\ Cardinality(Made(s1)) \in Nat
  BY PageSets DEF Framed, Made
<1>7. s6 = Cardinality(Framed(s3)) + Cardinality(Made(s1)) + Cardinality(Waiting(s4))
  BY DEF PageInv, ObjectsOf
<1>8. CASE /\ s1' = [s1 EXCEPT ![t] = TRUE] /\ s2' = [s2 EXCEPT ![t] = 1]
           /\ s5' = [tables |-> s5.tables \cup {t}, pages |-> s5.pages \cup {p}]
           /\ s3' = Put(s3, p, c) /\ s6' = s6 + 1
  <2>1. c \in PageCookie /\ Good(c) /\ c.unref /\ (c.ref <=> ~call.shared)
    BY <1>3 DEF PageCookie, Good
  <2> HIDE DEF c
  <2>2. Booked([s1 EXCEPT ![t] = TRUE], [s2 EXCEPT ![t] = 1], Put(s3, p, c))
    <3> HIDE DEF p
    <3> QED BY <1>2, <1>3, <1>4, <1>5, <2>1, BookTable DEF p
  <2>3. Stacked(rest, Put(s3, p, c))
    BY <1>2, <1>3, <1>4, <2>1, StackPut
  <2> DEFINE us == [s1 EXCEPT ![t] = TRUE]
  <2>4. us \in [Page!Tables -> BOOLEAN] /\ us[t] /\ \A v \in Page!Tables : v # t => us[v] = s1[v]
    BY <1>3, <1>4
  <2> HIDE DEF us
  <2>5. /\ Cardinality(Made(us)) = Cardinality(Made(s1)) + 1
        /\ Made(us) = Made(s1) \cup {t}
    <3>1. \A v \in Page!Tables : v # t => (us[v] <=> s1[v])
      BY <2>4
    <3> HIDE DEF t
    <3> QED BY <1>3, <1>4, <1>5, <2>4, <3>1, MadeCounts
  <2>6. s5' = KernelOf(us, Put(s3, p, c))
    <3>1. s5 = [tables |-> OutsideTables \cup Made(s1), pages |-> {q \in AllPages : Good(s3[q])}]
      BY DEF PageInv, KernelOf
    <3>2. {q \in AllPages : Good(Put(s3, p, c)[q])} = {q \in AllPages : Good(s3[q])} \cup {p}
      BY <1>3, <1>4, <2>1, GoodPut
    <3> HIDE DEF p, t
    <3> QED BY <1>8, <2>5, <3>1, <3>2 DEF KernelOf
  <2>7. Cardinality(Framed(Put(s3, p, c))) = Cardinality(Framed(s3)) + Page!Frames(call)
    <3>1. /\ (s3[p].ref <=> c.ref) =>
                 Cardinality(Framed(Put(s3, p, c))) = Cardinality(Framed(s3))
          /\ ~s3[p].ref /\ c.ref =>
                 Cardinality(Framed(Put(s3, p, c))) = Cardinality(Framed(s3)) + 1
      BY <1>3, <1>4, <2>1, PutCounts
    <3>2. ~s3[p].ref
      BY <1>2 DEF Good
    <3> HIDE DEF p
    <3> QED BY <1>6, <2>1, <3>1, <3>2 DEF Page!Frames
  <2>8. s6' = ObjectsOf(us, Put(s3, p, c), rest)
    <3> DEFINE A == Cardinality(Framed(s3))
               B == Cardinality(Made(s1))
               C == Cardinality(Waiting(rest))
               n == Page!Frames(call)
    <3>1. A \in Nat /\ B \in Nat /\ C \in Nat /\ n \in Nat /\ s6 = A + B + (C + n)
      BY <1>2, <1>6, <1>7
    <3>2. ObjectsOf(us, Put(s3, p, c), rest) = (A + n) + (B + 1) + C
      BY <2>5, <2>7 DEF ObjectsOf
    <3> HIDE DEF A, B, C, n
    <3> QED BY <1>8, <3>1, <3>2
  <2>9. s1' = us
    BY <1>8 DEF us
  <2>10. Booked(s1', s2', s3')
    BY <1>8, <2>2
  <2> QED BY <1>1, <1>8, <2>3, <2>6, <2>8, <2>9, <2>10 DEF PageInv
<1>9. CASE /\ s6' = s6 - Page!Frames(call) /\ s1' = [s1 EXCEPT ![t] = FALSE]
           /\ UNCHANGED <<s2, s5, s3>>
  <2>1. s1' = s1
    BY <1>3, <1>4, <1>5, <1>9
  <2>2. s6' = ObjectsOf(s1, s3, rest)
    BY <1>2, <1>6, <1>7, <1>9 DEF ObjectsOf
  <2> QED BY <1>1, <1>2, <1>9, <2>1, <2>2 DEF PageInv
<1> QED BY <1>8, <1>9 DEF Page!TableReturned, Page!Call, Page!FirstCount, Page!EntryAfter, Put

LEMMA MemPageFreeStays ==
  ASSUME Page!PagesAssumption, PageInv, NEW p \in AllPages, Page!mem_page_free(p)
  PROVE  PageInv'
<1> DEFINE t == Page!TableOf(p)
           c == Page!Invalid
           frame == IF s3[p].ref THEN 1 ELSE 0
<1>1. s4 = <<>> /\ Good(s3[p])
  BY DEF Page!mem_page_free, Page!mem_page_valid, Good
<1>2. c \in PageCookie /\ ~Good(c) /\ ~c.ref
  BY DEF Page!Invalid, PageCookie, Good
<1> HIDE DEF c
<1>3. /\ s1 \in [Page!Tables -> BOOLEAN] /\ s2 \in [Page!Tables -> Nat]
      /\ s3 \in [AllPages -> PageCookie] /\ Booked(s1, s2, s3) /\ t \in Page!Tables
  BY TablePages DEF PageInv, Booked
<1>4. /\ s3[p].unref => s1[t] /\ s2[t] \in Nat \ {0}
      /\ ~s3[p].unref => Booked(s1, s2, Put(s3, p, c))
      /\ s3[p].unref /\ s2[t] # 1 => Booked(s1, [s2 EXCEPT ![t] = @ - 1], Put(s3, p, c))
      /\ s3[p].unref /\ s2[t] = 1 =>
             /\ Booked([s1 EXCEPT ![t] = FALSE], [s2 EXCEPT ![t] = @ - 1], Put(s3, p, c))
             /\ \A q \in AllPages : Page!TableOf(q) = t => ~Good(Put(s3, p, c)[q])
  BY <1>1, <1>3, BookFree DEF c
<1>5. Cardinality(Framed(Put(s3, p, c))) = Cardinality(Framed(s3)) - frame
  <2>1. /\ (s3[p].ref <=> c.ref) =>
               Cardinality(Framed(Put(s3, p, c))) = Cardinality(Framed(s3))
        /\ s3[p].ref /\ ~c.ref =>
               Cardinality(Framed(Put(s3, p, c))) = Cardinality(Framed(s3)) - 1
    BY <1>2, <1>3, PutCounts
  <2>2. Cardinality(Framed(s3)) \in Nat
    BY PageSets DEF Framed
  <2> QED BY <1>2, <2>1, <2>2
<1>6. Cardinality(Framed(s3)) \in Nat /\ Cardinality(Made(s1)) \in Nat /\ frame \in {0, 1}
  BY PageSets DEF Framed, Made
<1>7. Cardinality(Waiting(s4)) \in Nat
  BY WaitingSize DEF PageInv, Stacked
<1>8. s6 = Cardinality(Framed(s3)) + Cardinality(Made(s1)) + Cardinality(Waiting(s4))
  BY DEF PageInv, ObjectsOf
<1>9. s5 = [tables |-> OutsideTables \cup Made(s1), pages |-> {q \in AllPages : Good(s3[q])}]
  BY DEF PageInv, KernelOf
<1>10. {q \in AllPages : Good(Put(s3, p, c)[q])} = {q \in AllPages : Good(s3[q])} \ {p}
  BY <1>2, <1>3, GoodPut
<1>11. Stacked(s4, Put(s3, p, c))
  BY <1>1 DEF PageInv, Stacked
<1> HIDE DEF t, frame
<1>12. CASE s3[p].unref /\ s2[t] = 1
  <2>1. /\ s2' = [s2 EXCEPT ![t] = @ - 1] /\ s1' = [s1 EXCEPT ![t] = FALSE]
        /\ s5' = [tables |-> s5.tables \ {t},
                  pages |-> {q \in s5.pages : Page!TableOf(q) # t}]
        /\ s6' = s6 - 1 - frame /\ s3' = Put(s3, p, c) /\ s4' = s4 /\ s7' = s7
    BY <1>4, <1>12 DEF Page!mem_page_free, Page!LastUser, Page!Uncounted, Page!EntryAfter,
                       Put, c, t, frame
  <2> DEFINE us == [s1 EXCEPT ![t] = FALSE]
  <2>2. us \in [Page!Tables -> BOOLEAN] /\ ~us[t] /\ \A v \in Page!Tables : v # t => (us[v] <=> s1[v])
    BY <1>3
  <2> HIDE DEF us
  <2>3. /\ Cardinality(Made(us)) = Cardinality(Made(s1)) - 1
        /\ Made(us) = Made(s1) \ {t}
    BY <1>3, <1>4, <1>12, <2>2, MadeCounts
  <2>4. t \notin OutsideTables
    BY <1>3, <1>4, <1>12 DEF Booked
  <2>5. {q \in s5.pages : Page!TableOf(q) # t} = {q \in AllPages : Good(Put(s3, p, c)[q])}
    <3>1. \A q \in AllPages : Page!TableOf(q) = t => ~Good(Put(s3, p, c)[q])
      BY <1>4, <1>12
    <3>2. Page!TableOf(p) = t
      BY DEF t
    <3> QED BY <1>9, <1>10, <3>1, <3>2
  <2>6. s5' = KernelOf(us, Put(s3, p, c))
    BY <1>9, <2>1, <2>3, <2>4, <2>5 DEF KernelOf
  <2>7. s6' = ObjectsOf(us, Put(s3, p, c), s4)
    BY <1>5, <1>6, <1>7, <1>8, <2>1, <2>3 DEF ObjectsOf
  <2>8. s1' = us
    BY <2>1 DEF us
  <2>9. Booked(s1', s2', s3')
    BY <1>4, <1>12, <2>1
  <2> QED BY <1>11, <2>1, <2>6, <2>7, <2>8, <2>9 DEF PageInv
<1>13. CASE ~(s3[p].unref /\ s2[t] = 1)
  <2>1. /\ s2' = IF s3[p].unref THEN [s2 EXCEPT ![t] = @ - 1] ELSE s2
        /\ s5' = [s5 EXCEPT !.pages = @ \ {p}]
        /\ s6' = s6 - frame /\ s3' = Put(s3, p, c) /\ s4' = s4 /\ s7' = s7 /\ s1' = s1
    BY <1>4, <1>13 DEF Page!mem_page_free, Page!LastUser, Page!Uncounted,
                       Put, c, t, frame
  <2>2. Booked(s1', s2', s3')
    BY <1>4, <1>13, <2>1
  <2>3. s5' = KernelOf(s1, Put(s3, p, c))
    BY <1>9, <1>10, <2>1 DEF KernelOf
  <2>4. s6' = ObjectsOf(s1, Put(s3, p, c), s4)
    BY <1>5, <1>6, <1>7, <1>8, <2>1 DEF ObjectsOf
  <2> QED BY <1>11, <2>1, <2>2, <2>3, <2>4 DEF PageInv
<1> QED BY <1>12, <1>13

LEMMA PageBegun == ASSUME Page!PagesAssumption, Page!Init PROVE PageInv
<1>1. /\ s1 \in [Page!Tables -> BOOLEAN] /\ s2 \in [Page!Tables -> Nat]
      /\ s3 \in [AllPages -> PageCookie]
      /\ \A t \in Page!Tables : ~s1[t] /\ s2[t] = 0
      /\ \A p \in AllPages : ~Good(s3[p]) /\ ~s3[p].ref /\ ~s3[p].unref
  BY DEF Page!Init, Page!Invalid, PageCookie, Good
<1>2. /\ Framed(s3) = {} /\ Made(s1) = {} /\ Waiting(s4) = {}
      /\ \A t : UsersIn(s3, t) = {}
      /\ {p \in AllPages : Good(s3[p])} = {}
  BY <1>1 DEF Framed, Made, Waiting, UsersIn, Page!Init
<1>3. Cardinality({}) = 0
  BY FS_EmptySet
<1>4. Booked(s1, s2, s3)
  <2>1. \A t \in Page!Tables : s2[t] = Cardinality(UsersIn(s3, t))
    BY <1>1, <1>2, <1>3
  <2>2. \A t \in Page!Tables : s1[t] <=> t \notin OutsideTables /\ s2[t] > 0
    BY <1>1
  <2> QED BY <1>1, <2>1, <2>2 DEF Booked
<1>5. Stacked(s4, s3)
  BY DEF Page!Init, Stacked
<1>6. s5 = KernelOf(s1, s3)
  BY <1>2 DEF Page!Init, KernelOf
<1>7. s6 = ObjectsOf(s1, s3, s4)
  <2>1. ObjectsOf(s1, s3, s4) = 0 + 0 + 0
    BY <1>2, <1>3 DEF ObjectsOf
  <2> QED BY <2>1 DEF Page!Init
<1> QED BY <1>4, <1>5, <1>6, <1>7 DEF PageInv, Page!Init

LEMMA PageStays == ASSUME Page!PagesAssumption, PageInv, Page!Next PROVE PageInv'
<1>1. CASE \E p \in AllPages : Page!mem_page_map(p) \/ Page!mem_page_shared_map(p)
  BY <1>1, MemPageMapStays, SharedMapStays
<1>2. CASE Page!FrameFails \/ Page!FrameReturned
  BY <1>2, FrameStays
<1>3. CASE Page!TableFails \/ Page!TableReturned
  BY <1>3, TableFailsStays, TableReturnedStays
<1>4. CASE \E p \in AllPages \ FxPages : Page!mem_page_free(p)
  BY <1>4, MemPageFreeStays
<1> QED BY <1>1, <1>2, <1>3, <1>4 DEF Page!Next

(* MemPage's Cardinality is that of the library. *)
LEMMA PageSize == ASSUME NEW S PROVE Page!Cardinality(S) = Cardinality(S)
  BY DEF Page!Cardinality, Cardinality, Page!IsFiniteSet, IsFiniteSet

LEMMA PageFollows ==
  ASSUME Page!PagesAssumption, PageInv
  PROVE  /\ Page!TypeOK /\ Page!TablesFollowUsers /\ Page!ValidMeansMapped
         /\ Page!ObjectsAccounted /\ Page!AssertionsHold
<1>1. \A t : Page!Users(t) = UsersIn(s3, t)
  BY DEF Page!Users, UsersIn
<1>2. Page!TablesFollowUsers
  <2>1. \A t \in Page!Tables : s2[t] = Page!Cardinality(Page!Users(t))
    BY <1>1, PageSize DEF PageInv, Booked
  <2>2. \A t \in Page!Tables : s1[t] <=> t \notin OutsideTables /\ s2[t] > 0
    BY DEF PageInv, Booked
  <2>3. s5.tables = OutsideTables \cup {t \in Page!Tables : s1[t]}
    BY DEF PageInv, KernelOf, Made
  <2> QED BY <2>1, <2>2, <2>3 DEF Page!TablesFollowUsers
<1>3. Page!ValidMeansMapped
  BY DEF PageInv, KernelOf, Page!ValidMeansMapped, Page!mem_page_valid, Good
<1>4. Page!ObjectsAccounted
  <2>1. s6 = Cardinality(Framed(s3)) + Cardinality(Made(s1)) + Cardinality(Waiting(s4))
    BY DEF PageInv, ObjectsOf
  <2>2. /\ {p \in AllPages : s3[p].ref} = Framed(s3)
        /\ {t \in Page!Tables : s1[t]} = Made(s1)
        /\ {k \in 1 .. Len(s4) : s4[k].at = "table" /\ ~s4[k].shared} = Waiting(s4)
    BY DEF Framed, Made, Waiting, Waits
  <2> QED BY <2>1, <2>2, PageSize DEF Page!ObjectsAccounted
<1>5. Page!TypeOK
  <2>1. s2 \in [Page!Tables -> 0 .. PAGE_COUNT_PER_TABLE]
    <3>1. ASSUME NEW t \in Page!Tables PROVE s2[t] \in 0 .. PAGE_COUNT_PER_TABLE
      <4>1. s2[t] \in Nat /\ s2[t] <= PAGE_COUNT_PER_TABLE
        BY UsersFew DEF PageInv, Booked
      <4> QED BY <4>1 DEF Page!PagesAssumption
    <3> QED BY <3>1 DEF PageInv, Booked
  <2>2. s5 \in [tables : SUBSET Page!Tables, pages : SUBSET AllPages]
    BY DEF PageInv, KernelOf, Made, Page!PagesAssumption, Page!Tables
  <2>3. s6 \in Nat
    <3>1. Cardinality(Framed(s3)) \in Nat /\ Cardinality(Made(s1)) \in Nat
      BY PageSets DEF Framed, Made
    <3>2. Cardinality(Waiting(s4)) \in Nat
      BY WaitingSize DEF PageInv, Stacked
    <3> QED BY <3>1, <3>2 DEF PageInv, ObjectsOf
  <2> QED BY <2>1, <2>2, <2>3 DEF PageInv, Booked, Stacked, PageCookie, PageCall, Page!TypeOK
<1> QED BY <1>2, <1>3, <1>4, <1>5 DEF PageInv, Page!AssertionsHold

(* However calls of the page allocator nest and fail, a table's count is    *)
(* the number of its users and it is there exactly as long as it has one,   *)
(* the pages with a valid cookie are those mapped, no object is lost and no *)
(* assertion fails (mem_page.c), for any number of tables and pages.        *)
THEOREM PageTablesCorrect == Spec => []PageTablesFollow
<1> DEFINE Inv == part = "mem_page" => PageInv
<1>1. Init => Inv
  BY PageBegun, PageAssumption DEF Init
<1>2. Inv /\ [Next]_vars => Inv'
  <2>1. ASSUME Inv, [Next]_vars, part' = "mem_page" PROVE PageInv'
    <3>1. CASE UNCHANGED vars
      BY <2>1, <3>1 DEF vars, PageInv
    <3>2. CASE Next
      <4>1. part = "mem_page" /\ Page!Next
        BY <2>1, <3>2 DEF Next
      <4> QED BY <2>1, <4>1, PageStays, PageAssumption
    <3> QED BY <2>1, <3>1, <3>2
  <2> QED BY <2>1
<1>3. Inv => PageTablesFollow
  BY PageFollows, PageAssumption DEF PageTablesFollow
<1> QED BY <1>1, <1>2, <1>3, PTL DEF Spec

-----------------------------------------------------------------------------
(* SmallTable: ring is s1, total_free s2, held s3, cnode s4, phase s5 and   *)
(* ret s6.                                                                  *)

SmallTab == [chunk_base : Bases, free : 0 .. SMALL_TABLE_SIZE,
             bitmap_free_index : 0 .. Small!BitmapLen - 1, bits : SUBSET Small!Offsets]

(* A table's count and index agree with its bits, and those with the        *)
(* objects in use.                                                          *)
TabRight(table, used) ==
    /\ table.free = Cardinality(table.bits)
    /\ \A o \in table.bits : table.bitmap_free_index <= o \div WordBits
    /\ \A o \in Small!Offsets : o \in table.bits <=> table.chunk_base + o \notin used

SlabsApart(t, u) ==
    \A o, p \in Small!Offsets : t.chunk_base + o # u.chunk_base + p

RingRight(r, used) ==
    /\ r \in Seq(SmallTab)
    /\ \A k \in 1 .. Len(r) : TabRight(r[k], used)
    /\ \A k, n \in 1 .. Len(r) : k # n => SlabsApart(r[k], r[n])

(* The slots of the objects that are free, and of all objects. *)
FreeOf(r) == {s \in Nat : \E k \in 1 .. Len(r), o \in Small!Offsets :
                             o \in r[k].bits /\ s = r[k].chunk_base + o}
AllOf(r) == {s \in Nat : \E k \in 1 .. Len(r), o \in Small!Offsets : s = r[k].chunk_base + o}

TotalRight(r, total) == IsFiniteSet(FreeOf(r)) /\ total = Cardinality(FreeOf(r))

SmallInv ==
    /\ RingRight(s1, s3) /\ TotalRight(s1, s2)
    /\ s3 \subseteq AllOf(s1) /\ s4 = s3 /\ s5 = "up" /\ s6 \in Nat \cup {NULL}

LEMMA SmallFacts ==
  ASSUME Small!TableAssumption
  PROVE  /\ SMALL_TABLE_SIZE \in Nat /\ SMALL_TABLE_SIZE > 0 /\ Small!BitmapLen \in Nat
         /\ Small!BitmapLen > 0 /\ WordBits \in Nat /\ Bases \subseteq Nat
         /\ Small!Offsets \subseteq Nat
         /\ \A o \in Small!Offsets : o \div WordBits \in 0 .. Small!BitmapLen - 1
<1> DEFINE n == WordBits
           m == Small!BitmapLen
<1>1. SMALL_TABLE_SIZE \in Nat /\ SMALL_TABLE_SIZE > 0 /\ n \in Nat /\ n > 0
      /\ SMALL_TABLE_SIZE % n = 0 /\ Bases \subseteq Nat
  BY DEF Small!TableAssumption
<1>2. m \in Int /\ SMALL_TABLE_SIZE = n * m
  BY <1>1 DEF Small!BitmapLen
<1>3. Small!Offsets \subseteq Nat /\ \A o \in Small!Offsets : o \in Nat /\ o < SMALL_TABLE_SIZE
  BY <1>1 DEF Small!Offsets
<1> HIDE DEF n, m
<1>4. m > 0
  <2>1. SUFFICES ASSUME m <= 0 PROVE FALSE
    BY <1>2
  <2>2. n * m <= 0
    BY <1>1, <1>2, <2>1
  <2> QED BY <1>1, <1>2, <2>2
<1>5. ASSUME NEW o \in Small!Offsets PROVE o \div n \in 0 .. m - 1
  <2> DEFINE q == o \div n
             e == o % n
  <2>1. o \in Nat /\ o < n * m
    BY <1>2, <1>3
  <2>2. q \in Int /\ e \in 0 .. n - 1 /\ o = n * q + e
    BY <1>1, <2>1
  <2> HIDE DEF q, e
  <2>3. q >= 0
    <3>1. SUFFICES ASSUME q <= -1 PROVE FALSE
      BY <2>2
    <3>2. n * q <= n * (-1)
      BY <1>1, <2>2, <3>1
    <3> QED BY <1>1, <2>1, <2>2, <3>2
  <2>4. q < m
    <3>1. SUFFICES ASSUME m <= q PROVE FALSE
      BY <1>2, <2>2
    <3>2. n * m <= n * q
      BY <1>1, <1>2, <2>2, <3>1
    <3> QED BY <1>1, <1>2, <2>1, <2>2, <3>2
  <2>5. q \in 0 .. m - 1
    BY <1>2, <2>2, <2>3, <2>4
  <2> QED BY <2>5 DEF q
<1> QED BY <1>1, <1>2, <1>3, <1>4, <1>5 DEF n, m

(* cached_free moves to the k-th table: the same tables. *)
(* The n-th of them was the Turned(len, k)[n]-th. *)
Turned(len, k) == [n \in 1 .. len |-> IF n <= len - k + 1 THEN n + k - 1 ELSE n - (len - k + 1)]

LEMMA FromFacts ==
  ASSUME NEW S, NEW r \in Seq(S), NEW k \in 1 .. Len(r)
  PROVE  LET q == Small!From(r, k)
             at == Turned(Len(r), k)
         IN  /\ q \in Seq(S) /\ Len(q) = Len(r)
             /\ \A n \in 1 .. Len(r) : at[n] \in 1 .. Len(r) /\ q[n] = r[at[n]]
             /\ \A m, n \in 1 .. Len(r) : at[m] = at[n] => m = n
             /\ \A j \in 1 .. Len(r) : \E n \in 1 .. Len(r) : at[n] = j
             /\ at[1] = k
<1> DEFINE q == Small!From(r, k)
           L == Len(r)
           a == SubSeq(r, k, L)
           b == SubSeq(r, 1, k - 1)
           at == [n \in 1 .. L |-> IF n <= L - k + 1 THEN n + k - 1
                                   ELSE n - (L - k + 1)]
<1>1. L \in Nat /\ k \in Nat /\ 1 <= k /\ k <= L
  OBVIOUS
<1>2. a \in Seq(S) /\ Len(a) = L - k + 1 /\ \A n \in 1 .. L - k + 1 : a[n] = r[n + k - 1]
  BY <1>1
<1>3. b \in Seq(S) /\ Len(b) = k - 1 /\ \A n \in 1 .. k - 1 : b[n] = r[n]
  BY <1>1
<1>4. q = a \o b
  BY DEF Small!From
<1> HIDE DEF a, b, q, L
<1>5. q \in Seq(S) /\ Len(q) = L
  <2>1. a \o b \in Seq(S) /\ Len(a \o b) = Len(a) + Len(b)
    BY <1>2, <1>3, ConcatProperties
  <2>2. Len(a) + Len(b) = L
    BY <1>1, <1>2, <1>3
  <2> QED BY <1>4, <2>1, <2>2
<1>6. \A n \in 1 .. L : q[n] = IF n <= L - k + 1 THEN a[n] ELSE b[n - (L - k + 1)]
  <2>1. \A n \in 1 .. Len(a) + Len(b) : (a \o b)[n] = IF n <= Len(a) THEN a[n] ELSE b[n - Len(a)]
    BY <1>2, <1>3, ConcatProperties
  <2> QED BY <1>1, <1>2, <1>3, <1>4, <2>1
<1>7. ASSUME NEW n \in 1 .. L PROVE at[n] \in 1 .. L /\ q[n] = r[at[n]]
  <2>1. CASE n <= L - k + 1
    <3>1. at[n] = n + k - 1 /\ n \in 1 .. L - k + 1 /\ n + k - 1 \in 1 .. L
      BY <1>1, <2>1
    <3> QED BY <1>2, <1>6, <2>1, <3>1
  <2>2. CASE n > L - k + 1
    <3>1. /\ at[n] = n - (L - k + 1) /\ n - (L - k + 1) \in 1 .. k - 1
          /\ n - (L - k + 1) \in 1 .. L
      BY <1>1, <2>2
    <3>2. q[n] = b[n - (L - k + 1)]
      BY <1>1, <1>6, <2>2
    <3> QED BY <1>3, <3>1, <3>2
  <2> QED BY <1>1, <2>1, <2>2
<1>8. \A m, n \in 1 .. L : at[m] = at[n] => m = n
  BY <1>1
<1>9. ASSUME NEW j \in 1 .. L PROVE \E n \in 1 .. L : at[n] = j
  <2>1. CASE j >= k
    <3>1. j - k + 1 \in 1 .. L /\ at[j - k + 1] = j
      BY <1>1, <2>1
    <3> QED BY <3>1
  <2>2. CASE j < k
    <3>1. j + (L - k + 1) \in 1 .. L /\ at[j + (L - k + 1)] = j
      BY <1>1, <2>2
    <3> QED BY <3>1
  <2> QED BY <1>1, <2>1, <2>2
<1>10. at[1] = k
  BY <1>1
<1>11. Turned(Len(r), k) = at /\ Len(r) = L /\ Small!From(r, k) = q
  BY DEF Turned, L, q
<1> HIDE DEF at
<1>12. /\ q \in Seq(S) /\ Len(q) = L
       /\ \A n \in 1 .. L : at[n] \in 1 .. L /\ q[n] = r[at[n]]
       /\ \A m, n \in 1 .. L : at[m] = at[n] => m = n
       /\ \A j \in 1 .. L : \E n \in 1 .. L : at[n] = j
       /\ at[1] = k
  BY <1>5, <1>7, <1>8, <1>9, <1>10
<1> QED BY <1>11, <1>12, Zenon

LEMMA SlotFacts ==
  ASSUME Small!TableAssumption, NEW t \in SmallTab, NEW o \in Small!Offsets
  PROVE  t.chunk_base + o \in Nat /\ t.chunk_base \in Nat /\ o \in Nat
<1>1. t.chunk_base \in Bases
  BY DEF SmallTab
<1> QED BY <1>1, SmallFacts

(* A free object is in one table only. *)
LEMMA FreeIn ==
  ASSUME Small!TableAssumption, NEW r, NEW used, RingRight(r, used),
         NEW k \in 1 .. Len(r), NEW o \in Small!Offsets
  PROVE  /\ r[k].chunk_base + o \in AllOf(r)
         /\ r[k].chunk_base + o \in FreeOf(r) <=> o \in r[k].bits
<1>1. r[k] \in SmallTab /\ r[k].chunk_base + o \in Nat
  BY SlotFacts DEF RingRight
<1>2. ASSUME NEW n \in 1 .. Len(r), NEW p \in Small!Offsets,
             r[k].chunk_base + o = r[n].chunk_base + p
      PROVE  n = k /\ p = o
  <2>1. n = k
    BY <1>2 DEF RingRight, SlabsApart
  <2>2. r[k].chunk_base \in Nat /\ p \in Nat /\ o \in Nat
    BY <1>1, SlotFacts
  <2> QED BY <1>2, <2>1, <2>2
<1>3. r[k].chunk_base + o \in AllOf(r)
  BY <1>1 DEF AllOf
<1>4. ASSUME r[k].chunk_base + o \in FreeOf(r) PROVE o \in r[k].bits
  BY <1>2, <1>4 DEF FreeOf
<1>5. ASSUME o \in r[k].bits PROVE r[k].chunk_base + o \in FreeOf(r)
  BY <1>1, <1>5 DEF FreeOf
<1> QED BY <1>3, <1>4, <1>5

LEMMA RingMoved ==
  ASSUME NEW r, NEW used, RingRight(r, used), NEW k \in 1 .. Len(r)
  PROVE  LET q == Small!From(r, k)
         IN  /\ RingRight(q, used) /\ FreeOf(q) = FreeOf(r) /\ AllOf(q) = AllOf(r)
             /\ Len(q) = Len(r) /\ q[1] = r[k]
<1> DEFINE q == Small!From(r, k)
           at == Turned(Len(r), k)
<1>1. r \in Seq(SmallTab) /\ Len(r) \in Nat /\ 1 \in 1 .. Len(r)
  BY DEF RingRight
<1>2. /\ q \in Seq(SmallTab) /\ Len(q) = Len(r)
      /\ \A n \in 1 .. Len(r) : at[n] \in 1 .. Len(r) /\ q[n] = r[at[n]]
      /\ \A m, n \in 1 .. Len(r) : at[m] = at[n] => m = n
      /\ \A j \in 1 .. Len(r) : \E n \in 1 .. Len(r) : at[n] = j
      /\ at[1] = k
  BY <1>1, FromFacts
<1> HIDE DEF q, at
<1>3. \A n \in 1 .. Len(q) : \E j \in 1 .. Len(r) : q[n] = r[j]
  <2>1. ASSUME NEW n \in 1 .. Len(q) PROVE \E j \in 1 .. Len(r) : q[n] = r[j]
    <3>1. n \in 1 .. Len(r)
      BY <1>2
    <3> QED BY <3>1, <1>2
  <2> QED BY <2>1
<1>4. \A j \in 1 .. Len(r) : \E n \in 1 .. Len(q) : q[n] = r[j]
  <2>1. ASSUME NEW j \in 1 .. Len(r) PROVE \E n \in 1 .. Len(q) : q[n] = r[j]
    <3>1. PICK n \in 1 .. Len(r) : at[n] = j
      BY <1>2
    <3>2. n \in 1 .. Len(q) /\ q[n] = r[at[n]]
      BY <1>2
    <3> QED BY <3>1, <3>2
  <2> QED BY <2>1
<1>5. RingRight(q, used)
  <2>1. ASSUME NEW n \in 1 .. Len(q) PROVE TabRight(q[n], used)
    <3>1. PICK j \in 1 .. Len(r) : q[n] = r[j]
      BY <1>3
    <3> QED BY <3>1 DEF RingRight
  <2>2. ASSUME NEW m \in 1 .. Len(q), NEW n \in 1 .. Len(q), m # n
        PROVE  SlabsApart(q[m], q[n])
    <3>1. m \in 1 .. Len(r) /\ n \in 1 .. Len(r)
      BY <1>2
    <3>2. /\ at[m] \in 1 .. Len(r) /\ at[n] \in 1 .. Len(r) /\ at[m] # at[n]
          /\ q[m] = r[at[m]] /\ q[n] = r[at[n]]
      BY <1>2, <2>2, <3>1
    <3> QED BY <3>2 DEF RingRight
  <2> QED BY <1>2, <2>1, <2>2 DEF RingRight
<1>6. FreeOf(q) = FreeOf(r)
  <2>1. ASSUME NEW s \in FreeOf(r) PROVE s \in FreeOf(q)
    <3>1. PICK j \in 1 .. Len(r), o \in Small!Offsets :
             s \in Nat /\ o \in r[j].bits /\ s = r[j].chunk_base + o
      BY DEF FreeOf
    <3>2. PICK n \in 1 .. Len(q) : q[n] = r[j]
      BY <1>4
    <3> QED BY <3>1, <3>2 DEF FreeOf
  <2>2. ASSUME NEW s \in FreeOf(q) PROVE s \in FreeOf(r)
    <3>1. PICK n \in 1 .. Len(q), o \in Small!Offsets :
             s \in Nat /\ o \in q[n].bits /\ s = q[n].chunk_base + o
      BY DEF FreeOf
    <3>2. PICK j \in 1 .. Len(r) : q[n] = r[j]
      BY <1>3
    <3> QED BY <3>1, <3>2 DEF FreeOf
  <2> QED BY <2>1, <2>2
<1>7. AllOf(q) = AllOf(r)
  <2>1. ASSUME NEW s \in AllOf(r) PROVE s \in AllOf(q)
    <3>1. PICK j \in 1 .. Len(r), o \in Small!Offsets : s \in Nat /\ s = r[j].chunk_base + o
      BY DEF AllOf
    <3>2. PICK n \in 1 .. Len(q) : q[n] = r[j]
      BY <1>4
    <3> QED BY <3>1, <3>2 DEF AllOf
  <2>2. ASSUME NEW s \in AllOf(q) PROVE s \in AllOf(r)
    <3>1. PICK n \in 1 .. Len(q), o \in Small!Offsets : s \in Nat /\ s = q[n].chunk_base + o
      BY DEF AllOf
    <3>2. PICK j \in 1 .. Len(r) : q[n] = r[j]
      BY <1>3
    <3> QED BY <3>1, <3>2 DEF AllOf
  <2> QED BY <2>1, <2>2
<1>8. Len(q) = Len(r) /\ q[1] = r[k]
  BY <1>1, <1>2
<1> QED BY <1>5, <1>6, <1>7, <1>8 DEF q

(* One object of one table is taken or given back. *)
OneChanged(r, used, k, o, q, now) ==
    /\ RingRight(r, used) /\ k \in 1 .. Len(r) /\ o \in Small!Offsets
    /\ \A s : s # r[k].chunk_base + o => (s \in now <=> s \in used)
    /\ q \in Seq(SmallTab) /\ Len(q) = Len(r) /\ \A j \in 1 .. Len(r) : j # k => q[j] = r[j]
    /\ q[k].chunk_base = r[k].chunk_base /\ TabRight(q[k], now)

LEMMA RingChanged ==
  ASSUME Small!TableAssumption, NEW r, NEW used, NEW k, NEW o, NEW q, NEW now,
         OneChanged(r, used, k, o, q, now)
  PROVE  /\ RingRight(q, now) /\ AllOf(q) = AllOf(r)
         /\ \A s : s # r[k].chunk_base + o => (s \in FreeOf(r) <=> s \in FreeOf(q))
         /\ r[k].chunk_base + o \in FreeOf(q) <=> o \in q[k].bits
<1> DEFINE x == r[k].chunk_base + o
<1>0. /\ RingRight(r, used) /\ k \in 1 .. Len(r) /\ o \in Small!Offsets
      /\ \A s : s # x => (s \in now <=> s \in used)
      /\ q \in Seq(SmallTab) /\ Len(q) = Len(r) /\ \A j \in 1 .. Len(r) : j # k => q[j] = r[j]
      /\ q[k].chunk_base = r[k].chunk_base /\ TabRight(q[k], now)
  BY DEF OneChanged
<1>1. /\ r \in Seq(SmallTab) /\ \A j \in 1 .. Len(r) : r[j] \in SmallTab /\ q[j] \in SmallTab
      /\ \A j \in 1 .. Len(r) : q[j].chunk_base = r[j].chunk_base
  BY <1>0 DEF RingRight
<1>2. \A j \in 1 .. Len(r), p \in Small!Offsets : j # k => r[j].chunk_base + p # x
  BY <1>0 DEF RingRight, SlabsApart
<1>3. ASSUME NEW j \in 1 .. Len(r) PROVE TabRight(q[j], now)
  <2>1. CASE j = k
    BY <1>0, <2>1
  <2>2. CASE j # k
    <3>1. TabRight(r[j], used) /\ q[j] = r[j]
      BY <1>0, <2>2 DEF RingRight
    <3>2. \A p \in Small!Offsets : r[j].chunk_base + p \in now <=> r[j].chunk_base + p \in used
      BY <1>0, <1>2, <2>2
    <3> QED BY <1>0, <3>1, <3>2 DEF TabRight
  <2> QED BY <1>0, <2>1, <2>2
<1>4. RingRight(q, now)
  <2>1. \A m, n \in 1 .. Len(r) : m # n => SlabsApart(q[m], q[n])
    BY <1>0, <1>1 DEF RingRight, SlabsApart
  <2> QED BY <1>0, <1>3, <2>1 DEF RingRight
<1>5. AllOf(q) = AllOf(r)
  BY <1>0, <1>1 DEF AllOf
<1>6. \A j \in 1 .. Len(r), p \in Small!Offsets :
        r[j].chunk_base + p # x => (p \in q[j].bits <=> p \in r[j].bits)
  <2>1. SUFFICES ASSUME NEW j \in 1 .. Len(r), NEW p \in Small!Offsets, r[j].chunk_base + p # x
                 PROVE  p \in q[j].bits <=> p \in r[j].bits
    OBVIOUS
  <2>2. p \in q[j].bits <=> q[j].chunk_base + p \notin now
    BY <1>0, <1>3 DEF TabRight
  <2>3. p \in r[j].bits <=> r[j].chunk_base + p \notin used
    BY <1>0 DEF RingRight, TabRight
  <2> QED BY <1>0, <1>1, <2>1, <2>2, <2>3
<1>7. x \in FreeOf(q) <=> o \in q[k].bits
  <2>1. q[k].chunk_base + o \in FreeOf(q) <=> o \in q[k].bits
    BY <1>0, <1>4, FreeIn
  <2> QED BY <1>0, <1>1, <2>1
<1>8. \A s : s # x => (s \in FreeOf(r) <=> s \in FreeOf(q))
  <2> HIDE DEF x
  <2> QED BY <1>0, <1>1, <1>6 DEF FreeOf
<1> QED BY <1>0, <1>4, <1>5, <1>7, <1>8

LEMMA RingNew ==
  ASSUME Small!TableAssumption, NEW r, NEW used, RingRight(r, used), used \subseteq AllOf(r),
         NEW base \in Bases, \A k \in 1 .. Len(r) :
           Span(base, SMALL_TABLE_SIZE) \cap Span(r[k].chunk_base, SMALL_TABLE_SIZE) = {},
         NEW total, TotalRight(r, total)
  PROVE  LET q == <<Small!NewTable(base)>> \o r
         IN  /\ RingRight(q, used) /\ used \subseteq AllOf(q)
             /\ TotalRight(q, total + SMALL_TABLE_SIZE)
<1> DEFINE t == Small!NewTable(base)
           q == <<t>> \o r
<1>1. r \in Seq(SmallTab) /\ Len(r) \in Nat
  BY DEF RingRight
<1>2. base \in Nat /\ SMALL_TABLE_SIZE \in Nat
  BY SmallFacts
<1>3. t \in SmallTab /\ t.chunk_base = base /\ t.bits = Small!Offsets
      /\ t.free = SMALL_TABLE_SIZE /\ t.bitmap_free_index = 0
  BY SmallFacts DEF Small!NewTable, SmallTab
<1> HIDE DEF t
<1>4. /\ q \in Seq(SmallTab) /\ Len(q) = Len(r) + 1 /\ q[1] = t
      /\ \A n \in 1 .. Len(r) : q[n + 1] = r[n]
  BY <1>1, <1>3
<1> HIDE DEF q
<1>5. ASSUME NEW n \in 1 .. Len(q), n # 1
      PROVE  n - 1 \in 1 .. Len(r) /\ q[n] = r[n - 1]
  <2>1. n - 1 \in 1 .. Len(r) /\ (n - 1) + 1 = n
    BY <1>1, <1>4, <1>5
  <2> QED BY <1>4, <2>1
<1>6. ASSUME NEW n \in 1 .. Len(r) PROVE SlabsApart(t, r[n]) /\ SlabsApart(r[n], t)
  <2>1. r[n] \in SmallTab
    BY <1>1
  <2>2. ASSUME NEW o \in Small!Offsets, NEW p \in Small!Offsets, base + o = r[n].chunk_base + p
        PROVE  FALSE
    <3>1. r[n].chunk_base \in Nat /\ p \in Nat /\ o \in Nat
      BY <2>1, SlotFacts, SmallFacts
    <3>2. p <= SMALL_TABLE_SIZE - 1 /\ o <= SMALL_TABLE_SIZE - 1
      BY <1>2, <3>1 DEF Small!Offsets
    <3>3. base + o \in Span(base, SMALL_TABLE_SIZE)
      BY <1>2, <3>1, <3>2 DEF Span
    <3>4. r[n].chunk_base + p \in Span(r[n].chunk_base, SMALL_TABLE_SIZE)
      BY <1>2, <3>1, <3>2 DEF Span
    <3> QED BY <2>2, <3>3, <3>4
  <2> QED BY <1>3, <2>2 DEF SlabsApart
<1>7. ASSUME NEW o \in Small!Offsets PROVE base + o \notin AllOf(r)
  BY <1>3, <1>6 DEF AllOf, SlabsApart
<1>8. Small!Offsets = Span(0, SMALL_TABLE_SIZE)
  BY <1>2 DEF Small!Offsets, Span
<1>9. TabRight(t, used)
  <2>1. Cardinality(Small!Offsets) = SMALL_TABLE_SIZE
    BY <1>2, <1>8, SpanSize
  <2>2. \A o \in Small!Offsets : 0 <= o \div WordBits
    BY SmallFacts
  <2>3. \A o \in Small!Offsets : base + o \notin used
    BY <1>7
  <2> QED BY <1>3, <2>1, <2>2, <2>3 DEF TabRight
<1>10. RingRight(q, used)
  <2>1. ASSUME NEW n \in 1 .. Len(q) PROVE TabRight(q[n], used)
    BY <1>4, <1>5, <1>9 DEF RingRight
  <2>2. ASSUME NEW m \in 1 .. Len(q), NEW n \in 1 .. Len(q), m # n
        PROVE  SlabsApart(q[m], q[n])
    <3>1. CASE m = 1 \/ n = 1
      BY <1>4, <1>5, <1>6, <2>2, <3>1
    <3>2. CASE m # 1 /\ n # 1
      <4>1. m - 1 # n - 1 /\ m - 1 \in 1 .. Len(r) /\ n - 1 \in 1 .. Len(r)
        BY <1>5, <2>2, <3>2
      <4> QED BY <1>5, <3>2, <4>1 DEF RingRight
    <3> QED BY <3>1, <3>2
  <2> QED BY <1>4, <2>1, <2>2 DEF RingRight
<1>11. AllOf(r) \subseteq AllOf(q)
  <2>1. ASSUME NEW s \in AllOf(r) PROVE s \in AllOf(q)
    <3>1. PICK k \in 1 .. Len(r), o \in Small!Offsets : s \in Nat /\ s = r[k].chunk_base + o
      BY DEF AllOf
    <3>2. k + 1 \in 1 .. Len(q) /\ q[k + 1] = r[k]
      BY <1>1, <1>4
    <3> QED BY <3>1, <3>2 DEF AllOf
  <2> QED BY <2>1
<1>12. FreeOf(q) = FreeOf(r) \cup Span(base, SMALL_TABLE_SIZE)
  <2>1. ASSUME NEW s \in FreeOf(r) PROVE s \in FreeOf(q)
    <3>1. PICK k \in 1 .. Len(r), o \in Small!Offsets :
             s \in Nat /\ o \in r[k].bits /\ s = r[k].chunk_base + o
      BY DEF FreeOf
    <3>2. k + 1 \in 1 .. Len(q) /\ q[k + 1] = r[k]
      BY <1>1, <1>4
    <3> QED BY <3>1, <3>2 DEF FreeOf
  <2>2. ASSUME NEW s \in Span(base, SMALL_TABLE_SIZE) PROVE s \in FreeOf(q)
    <3>1. s \in Nat /\ s - base \in Small!Offsets /\ s = base + (s - base)
      BY <1>2 DEF Span, Small!Offsets
    <3>2. 1 \in 1 .. Len(q)
      BY <1>1, <1>4
    <3> QED BY <1>3, <1>4, <3>1, <3>2 DEF FreeOf
  <2>3. ASSUME NEW s \in FreeOf(q) PROVE s \in FreeOf(r) \cup Span(base, SMALL_TABLE_SIZE)
    <3>1. PICK k \in 1 .. Len(q), o \in Small!Offsets :
             s \in Nat /\ o \in q[k].bits /\ s = q[k].chunk_base + o
      BY DEF FreeOf
    <3>2. CASE k = 1
      <4>1. s = base + o /\ o \in 0 .. SMALL_TABLE_SIZE - 1
        BY <1>3, <1>4, <3>1, <3>2 DEF Small!Offsets
      <4> QED BY <1>2, <4>1 DEF Span
    <3>3. CASE k # 1
      BY <1>5, <3>1, <3>3 DEF FreeOf
    <3> QED BY <3>2, <3>3
  <2> QED BY <2>1, <2>2, <2>3
<1>13. FreeOf(r) \cap Span(base, SMALL_TABLE_SIZE) = {}
  <2>1. ASSUME NEW s \in FreeOf(r), s \in Span(base, SMALL_TABLE_SIZE) PROVE FALSE
    <3>1. s - base \in Small!Offsets /\ s = base + (s - base)
      BY <1>2, <2>1 DEF Span, Small!Offsets
    <3>2. s \in AllOf(r)
      BY DEF FreeOf, AllOf
    <3> QED BY <1>7, <3>1, <3>2
  <2> QED BY <2>1
<1>14. TotalRight(q, total + SMALL_TABLE_SIZE)
  <2>1. IsFiniteSet(FreeOf(r)) /\ total = Cardinality(FreeOf(r)) /\ total \in Nat
    BY FS_CardinalityType DEF TotalRight
  <2> DEFINE W == Span(base, SMALL_TABLE_SIZE)
  <2>2. IsFiniteSet(W) /\ Cardinality(W) = SMALL_TABLE_SIZE
    BY <1>2, SpanSize
  <2>3. /\ IsFiniteSet(FreeOf(r) \cup W)
        /\ Cardinality(FreeOf(r) \cup W) =
             Cardinality(FreeOf(r)) + Cardinality(W) - Cardinality(FreeOf(r) \cap W)
    BY <2>1, <2>2, FS_Union
  <2>4. Cardinality(FreeOf(r) \cap W) = 0
    BY <1>13, FS_EmptySet
  <2>5. Cardinality(FreeOf(r) \cup W) = total + SMALL_TABLE_SIZE
    BY <1>2, <2>1, <2>2, <2>3, <2>4
  <2> QED BY <1>12, <2>3, <2>5 DEF TotalRight
<1>15. used \subseteq AllOf(q)
  BY <1>11
<1> QED BY <1>10, <1>14, <1>15 DEF q, t

LEMMA HeadChanged ==
  ASSUME NEW S, NEW t \in Seq(S), Len(t) > 0, NEW z \in S
  PROVE  LET q == <<z>> \o Tail(t)
         IN  /\ q \in Seq(S) /\ Len(q) = Len(t) /\ q[1] = z
             /\ \A j \in 1 .. Len(t) : j # 1 => q[j] = t[j]
<1> DEFINE u == Tail(t)
           q == <<z>> \o u
<1>1. u \in Seq(S) /\ Len(u) = Len(t) - 1 /\ \A n \in 1 .. Len(t) - 1 : u[n] = t[n + 1]
  OBVIOUS
<1> HIDE DEF u
<1>2. q \in Seq(S) /\ Len(q) = Len(u) + 1 /\ q[1] = z /\ \A n \in 1 .. Len(u) : q[n + 1] = u[n]
  BY <1>1
<1> HIDE DEF q
<1>3. Len(t) \in Nat
  OBVIOUS
<1>4. ASSUME NEW j \in 1 .. Len(t), j # 1 PROVE q[j] = t[j]
  <2>1. j - 1 \in 1 .. Len(u) /\ j - 1 \in 1 .. Len(t) - 1 /\ (j - 1) + 1 = j
    BY <1>1, <1>3, <1>4
  <2>2. q[(j - 1) + 1] = u[j - 1] /\ u[j - 1] = t[(j - 1) + 1]
    BY <1>1, <1>2, <2>1
  <2> QED BY <2>1, <2>2
<1>5. Len(q) = Len(t)
  BY <1>1, <1>2, <1>3
<1> QED BY <1>2, <1>4, <1>5 DEF q, u

LEMMA TabFacts ==
  ASSUME Small!TableAssumption, NEW t \in SmallTab
  PROVE  /\ t.bits \subseteq Small!Offsets /\ IsFiniteSet(t.bits) /\ Cardinality(t.bits) \in Nat
         /\ t.free \in Nat /\ t.free <= SMALL_TABLE_SIZE
         /\ t.bitmap_free_index \in Nat /\ t.bitmap_free_index <= Small!BitmapLen - 1
         /\ Cardinality(t.bits) <= SMALL_TABLE_SIZE
         /\ t.chunk_base \in Nat
<1>1. SMALL_TABLE_SIZE \in Nat /\ Small!BitmapLen \in Nat
  BY SmallFacts
<1>2. IsFiniteSet(Small!Offsets) /\ Cardinality(Small!Offsets) = SMALL_TABLE_SIZE
  <2>1. Small!Offsets = Span(0, SMALL_TABLE_SIZE)
    BY <1>1 DEF Small!Offsets, Span
  <2> QED BY <1>1, <2>1, SpanSize
<1>3. /\ t.bits \in SUBSET Small!Offsets /\ t.free \in 0 .. SMALL_TABLE_SIZE
      /\ t.bitmap_free_index \in 0 .. Small!BitmapLen - 1 /\ t.chunk_base \in Bases
  BY DEF SmallTab
<1>4. IsFiniteSet(t.bits) /\ Cardinality(t.bits) <= SMALL_TABLE_SIZE
  BY <1>2, <1>3, FS_Subset
<1>5. Cardinality(t.bits) \in Nat
  BY <1>4, FS_CardinalityType
<1> QED BY <1>1, <1>3, <1>4, <1>5, SmallFacts

(* A table that counts a free object has a word for the search to find. *)
LEMMA WordFound ==
  ASSUME Small!TableAssumption, NEW t \in SmallTab, NEW used, TabRight(t, used), t.free # 0
  PROVE  \E i \in 0 .. Small!BitmapLen - 1 : Small!FirstWordIs(t, i)
<1> DEFINE W == {o \div WordBits : o \in t.bits}
<1>1. \A o \in t.bits : o \in Small!Offsets /\ o \div WordBits \in 0 .. Small!BitmapLen - 1
  BY TabFacts, SmallFacts
<1>2. Small!BitmapLen \in Nat
  BY SmallFacts
<1>3. W \in SUBSET Nat
  BY <1>1, <1>2
<1>4. W # {}
  <2>1. t.bits # {}
    BY FS_EmptySet DEF TabRight
  <2> QED BY <2>1
<1>5. PICK i \in W : \A j \in W : i <= j
  <2> HIDE DEF W
  <2> QED BY <1>3, <1>4, Least
<1>6. PICK o \in t.bits : i = o \div WordBits
  BY <1>5
<1>7. i \in 0 .. Small!BitmapLen - 1 /\ t.bitmap_free_index <= i /\ t.bitmap_free_index \in Nat
  BY <1>1, <1>6, TabFacts DEF TabRight
<1>8. Small!Word(t, i) # {}
  BY <1>6 DEF Small!Word
<1>9. ASSUME NEW j \in t.bitmap_free_index .. i - 1 PROVE Small!Word(t, j) = {}
  <2>1. j < i /\ j \in Int /\ i \in Int
    BY <1>7
  <2>2. \A p \in t.bits : i <= p \div WordBits
    BY <1>5
  <2> QED BY <1>1, <2>1, <2>2 DEF Small!Word
<1>10. i \in t.bitmap_free_index .. Small!BitmapLen - 1
  BY <1>2, <1>7
<1> QED BY <1>7, <1>8, <1>9, <1>10 DEF Small!FirstWordIs

(* The word found is not before any free object's. *)
LEMMA WordFirst ==
  ASSUME Small!TableAssumption, NEW t \in SmallTab, NEW used, TabRight(t, used),
         NEW i \in 0 .. Small!BitmapLen - 1, Small!FirstWordIs(t, i)
  PROVE  /\ \A o \in t.bits : i <= o \div WordBits
         /\ Small!FirstOffset(t, i) \in t.bits
         /\ Small!FirstOffset(t, i) \in Small!Offsets
<1>1. /\ t.bits \subseteq Small!Offsets /\ Small!Offsets \subseteq Nat
      /\ t.bitmap_free_index \in Nat /\ Small!BitmapLen \in Nat
      /\ \A o \in Small!Offsets : o \div WordBits \in 0 .. Small!BitmapLen - 1
  BY TabFacts, SmallFacts
<1>2. ASSUME NEW o \in t.bits PROVE i <= o \div WordBits
  <2> DEFINE w == o \div WordBits
  <2>a. o \in Small!Offsets
    BY <1>1
  <2>b. w \in 0 .. Small!BitmapLen - 1
    BY <1>1, <2>a
  <2>c. t.bitmap_free_index <= w
    BY DEF TabRight
  <2>1. w \in Nat /\ t.bitmap_free_index <= w
    <3> HIDE DEF w
    <3> QED BY <1>1, <2>b, <2>c
  <2>2. o \in Small!Word(t, w)
    BY DEF Small!Word
  <2> HIDE DEF w
  <2>3. w < i => w \in t.bitmap_free_index .. i - 1
    BY <1>1, <2>1
  <2>4. ~(w < i)
    BY <2>2, <2>3 DEF Small!FirstWordIs
  <2>5. i <= w
    BY <2>1, <2>4, <1>1
  <2> QED BY <2>5 DEF w
<1>3. Small!Word(t, i) \in SUBSET Nat /\ Small!Word(t, i) # {}
  BY <1>1 DEF Small!Word, Small!FirstWordIs
<1>4. \E o \in Small!Word(t, i) : \A p \in Small!Word(t, i) : o <= p
  BY <1>3, Least
<1>5. Small!FirstOffset(t, i) \in Small!Word(t, i)
  BY <1>4 DEF Small!FirstOffset
<1> QED BY <1>1, <1>2, <1>5 DEF Small!Word

LEMMA AllocFromStays ==
  ASSUME Small!TableAssumption, NEW tables, NEW total, RingRight(tables, s3),
         s3 \subseteq AllOf(tables), TotalRight(tables, total), s4 = s3, s5 = "up",
         Len(tables) > 0, tables[1].free # 0, Small!AllocFrom(tables, total)
  PROVE  SmallInv'
<1> DEFINE t == tables[1]
<1>1. tables \in Seq(SmallTab) /\ Len(tables) \in Nat /\ 1 \in 1 .. Len(tables)
  BY DEF RingRight
<1>2. t \in SmallTab /\ Head(tables) = t /\ TabRight(t, s3)
  BY <1>1 DEF RingRight
<1> HIDE DEF t
<1>3. t.free # 0 /\ \E i \in 0 .. Small!BitmapLen - 1 : Small!FirstWordIs(t, i)
  <2>1. t.free # 0
    BY DEF t
  <2> QED BY <1>2, <2>1, WordFound
<1>4. PICK i \in 0 .. Small!BitmapLen - 1 :
        /\ Small!FirstWordIs(t, i)
        /\ LET offset == Small!FirstOffset(t, i)
               ptr == t.chunk_base + offset
           IN \/ /\ s1' = <<[t EXCEPT !.bitmap_free_index = i, !.bits = @ \ {offset},
                                      !.free = Small!FreeTaken(t)]>> \o Tail(tables)
                 /\ s2' = Small!TotalTaken(total)
                 /\ s3' = s3 \cup {ptr} /\ s4' = s4 \cup {ptr} /\ s6' = ptr /\ s5' = s5
              \/ /\ s1' = <<Small!Refused(t, i)>> \o Tail(tables)
                 /\ s2' = total /\ s6' = NULL
                 /\ UNCHANGED <<s3, s4, s5>>
  BY <1>2, <1>3 DEF Small!AllocFrom
<1> DEFINE o == Small!FirstOffset(t, i)
           x == t.chunk_base + o
<1>5. (\A p \in t.bits : i <= p \div WordBits) /\ o \in t.bits /\ o \in Small!Offsets
  BY <1>2, <1>4, WordFirst
<1>6. x \in AllOf(tables) /\ x \in FreeOf(tables)
  <2>1. /\ tables[1].chunk_base + o \in AllOf(tables)
        /\ tables[1].chunk_base + o \in FreeOf(tables) <=> o \in tables[1].bits
    BY <1>1, <1>5, FreeIn
  <2> QED BY <1>5, <2>1 DEF t
<1>7. /\ t.bits \subseteq Small!Offsets /\ IsFiniteSet(t.bits) /\ Cardinality(t.bits) \in Nat
      /\ t.free \in Nat /\ t.free <= SMALL_TABLE_SIZE /\ SMALL_TABLE_SIZE \in Nat
      /\ t.free = Cardinality(t.bits) /\ x \in Nat
  BY <1>2, <1>5, TabFacts, SmallFacts, SlotFacts DEF TabRight
<1> HIDE DEF o
<1>8. CASE /\ s1' = <<[t EXCEPT !.bitmap_free_index = i, !.bits = @ \ {o},
                                !.free = Small!FreeTaken(t)]>> \o Tail(tables)
           /\ s2' = Small!TotalTaken(total)
           /\ s3' = s3 \cup {x} /\ s4' = s4 \cup {x} /\ s6' = x /\ s5' = s5
  <2> DEFINE z == [t EXCEPT !.bitmap_free_index = i, !.bits = @ \ {o}, !.free = Small!FreeTaken(t)]
             q == <<z>> \o Tail(tables)
             now == s3 \cup {x}
  <2>1. /\ z.bitmap_free_index = i /\ z.bits = t.bits \ {o} /\ z.free = t.free - 1
        /\ z.chunk_base = t.chunk_base
    BY <1>2 DEF SmallTab, Small!FreeTaken
  <2>2. Cardinality(t.bits \ {o}) = t.free - 1
    BY <1>5, <1>7, FS_RemoveElement
  <2>3. t.free - 1 \in 0 .. SMALL_TABLE_SIZE
    BY <1>3, <1>7
  <2>4. z \in SmallTab
    BY <1>2, <2>3 DEF SmallTab, Small!FreeTaken
  <2> HIDE DEF z
  <2>5. TabRight(z, now)
    <3>1. \A p \in Small!Offsets : p \in z.bits <=> z.chunk_base + p \notin now
      <4>1. SUFFICES ASSUME NEW p \in Small!Offsets
                     PROVE  p \in z.bits <=> z.chunk_base + p \notin now
        OBVIOUS
      <4>2. p \in t.bits <=> t.chunk_base + p \notin s3
        BY <1>2 DEF TabRight
      <4>3. t.chunk_base + p = x <=> p = o
        <5>1. t.chunk_base \in Nat /\ p \in Nat /\ o \in Nat
          BY <1>2, <1>5, SlotFacts
        <5> QED BY <5>1
      <4> QED BY <2>1, <4>2, <4>3
    <3> QED BY <1>5, <2>1, <2>2, <3>1 DEF TabRight
  <2>6. /\ q \in Seq(SmallTab) /\ Len(q) = Len(tables) /\ q[1] = z
        /\ \A j \in 1 .. Len(tables) : j # 1 => q[j] = tables[j]
    BY <1>1, <2>4, HeadChanged
  <2> HIDE DEF q
  <2>7. /\ RingRight(q, now) /\ AllOf(q) = AllOf(tables)
        /\ \A s : s # x => (s \in FreeOf(tables) <=> s \in FreeOf(q))
        /\ x \in FreeOf(q) <=> o \in q[1].bits
    <3>1. tables[1].chunk_base + o = x
      BY DEF t
    <3>2. q[1].chunk_base = tables[1].chunk_base /\ TabRight(q[1], now)
      BY <2>1, <2>5, <2>6 DEF t
    <3>3. \A s : s # tables[1].chunk_base + o => (s \in now <=> s \in s3)
      BY <3>1
    <3> HIDE DEF now, x
    <3>4. o \in Small!Offsets /\ 1 \in 1 .. Len(tables)
      BY <1>1, <1>5
    <3>5. /\ RingRight(q, now) /\ AllOf(q) = AllOf(tables)
          /\ \A s : s # tables[1].chunk_base + o => (s \in FreeOf(tables) <=> s \in FreeOf(q))
          /\ tables[1].chunk_base + o \in FreeOf(q) <=> o \in q[1].bits
      <4>1. /\ RingRight(tables, s3) /\ 1 \in 1 .. Len(tables) /\ o \in Small!Offsets
            /\ q \in Seq(SmallTab) /\ Len(q) = Len(tables)
            /\ \A j \in 1 .. Len(tables) : j # 1 => q[j] = tables[j]
            /\ q[1].chunk_base = tables[1].chunk_base /\ TabRight(q[1], now)
        BY <2>6, <3>2, <3>4
      <4>2. OneChanged(tables, s3, 1, o, q, now)
        BY <3>3, <4>1 DEF OneChanged
      <4> QED BY <4>2, RingChanged
    <3> QED BY <3>1, <3>5
  <2>8. TotalRight(q, total - 1)
    <3>1. x \notin FreeOf(q)
      BY <2>1, <2>6, <2>7
    <3>2. IsFiniteSet(FreeOf(tables)) /\ total = Cardinality(FreeOf(tables))
      BY DEF TotalRight
    <3> HIDE DEF x
    <3>3. IsFiniteSet(FreeOf(q)) /\ Cardinality(FreeOf(q)) = Cardinality(FreeOf(tables)) - 1
      BY <1>6, <2>7, <3>1, <3>2, OneMore
    <3> QED BY <3>2, <3>3 DEF TotalRight
  <2>9. now \subseteq AllOf(q)
    BY <1>6, <2>7
  <2>10. s1' = q /\ s2' = total - 1 /\ s3' = now /\ s4' = now /\ s6' = x /\ s5' = "up"
    BY <1>8 DEF q, z, Small!TotalTaken
  <2> HIDE DEF now, x
  <2> QED BY <1>7, <2>7, <2>8, <2>9, <2>10 DEF SmallInv
<1>9. CASE /\ s1' = <<Small!Refused(t, i)>> \o Tail(tables)
           /\ s2' = total /\ s6' = NULL /\ UNCHANGED <<s3, s4, s5>>
  <2> DEFINE z == Small!Refused(t, i)
             q == <<z>> \o Tail(tables)
  <2>1. /\ z.bitmap_free_index = i /\ z.bits = t.bits /\ z.free = t.free
        /\ z.chunk_base = t.chunk_base
    BY <1>2 DEF SmallTab, Small!Refused
  <2>2. z \in SmallTab
    BY <1>2 DEF SmallTab, Small!Refused
  <2> HIDE DEF z
  <2>3. TabRight(z, s3)
    BY <1>2, <1>5, <2>1 DEF TabRight
  <2>4. /\ q \in Seq(SmallTab) /\ Len(q) = Len(tables) /\ q[1] = z
        /\ \A j \in 1 .. Len(tables) : j # 1 => q[j] = tables[j]
    BY <1>1, <2>2, HeadChanged
  <2> HIDE DEF q
  <2>5. /\ RingRight(q, s3) /\ AllOf(q) = AllOf(tables)
        /\ \A s : s # x => (s \in FreeOf(tables) <=> s \in FreeOf(q))
        /\ x \in FreeOf(q) <=> o \in q[1].bits
    <3>1. tables[1].chunk_base + o = x
      BY DEF t
    <3>2. q[1].chunk_base = tables[1].chunk_base /\ TabRight(q[1], s3)
      BY <2>1, <2>3, <2>4 DEF t
    <3> HIDE DEF x
    <3> DEFINE now == s3
    <3>3. TabRight(q[1], now) /\ \A s : s # tables[1].chunk_base + o => (s \in now <=> s \in s3)
      BY <3>2
    <3> HIDE DEF now
    <3>4. o \in Small!Offsets /\ 1 \in 1 .. Len(tables)
      BY <1>1, <1>5
    <3>5. /\ RingRight(q, now) /\ AllOf(q) = AllOf(tables)
          /\ \A s : s # tables[1].chunk_base + o => (s \in FreeOf(tables) <=> s \in FreeOf(q))
          /\ tables[1].chunk_base + o \in FreeOf(q) <=> o \in q[1].bits
      <4>1. /\ RingRight(tables, s3) /\ 1 \in 1 .. Len(tables) /\ o \in Small!Offsets
            /\ q \in Seq(SmallTab) /\ Len(q) = Len(tables)
            /\ \A j \in 1 .. Len(tables) : j # 1 => q[j] = tables[j]
            /\ q[1].chunk_base = tables[1].chunk_base
        BY <2>4, <3>2, <3>4
      <4>2. OneChanged(tables, s3, 1, o, q, now)
        BY <3>3, <4>1 DEF OneChanged
      <4> QED BY <4>2, RingChanged
    <3>6. RingRight(q, s3)
      BY <3>5 DEF now
    <3> QED BY <3>1, <3>5, <3>6
  <2>6. FreeOf(q) = FreeOf(tables)
    <3>1. x \in FreeOf(q)
      BY <1>5, <2>1, <2>4, <2>5
    <3> HIDE DEF x
    <3>2. \A s : s \in FreeOf(q) <=> s \in FreeOf(tables)
      BY <1>6, <2>5, <3>1
    <3> QED BY <3>2
  <2>7. s1' = q
    BY <1>9 DEF q, z
  <2> QED BY <1>9, <2>5, <2>6, <2>7 DEF SmallInv, TotalRight
<1> QED BY <1>4, <1>8, <1>9 DEF o

(* SmallTable's Cardinality and ToSet are those of the library. *)
LEMMA SmallSize == ASSUME NEW S PROVE Small!Cardinality(S) = Cardinality(S)
  BY DEF Small!Cardinality, Cardinality, Small!IsFiniteSet, IsFiniteSet

LEMMA SmallAllocStays ==
  ASSUME Small!TableAssumption, SmallInv, Small!object_alloc
  PROVE  SmallInv'
<1> USE DEF SmallInv
<1>1. CASE s6' = NULL /\ Small!Unchanged
  BY <1>1 DEF Small!Unchanged
<1>2. CASE /\ s2 = 0
           /\ \E base \in Bases :
                /\ Small!SlabIsFree(base)
                /\ Small!AllocFrom(<<Small!NewTable(base)>> \o s1, s2 + SMALL_TABLE_SIZE)
  <2>1. PICK base \in Bases :
          /\ Small!SlabIsFree(base)
          /\ Small!AllocFrom(<<Small!NewTable(base)>> \o s1, s2 + SMALL_TABLE_SIZE)
    BY <1>2
  <2> DEFINE q == <<Small!NewTable(base)>> \o s1
  <2>2. s1 \in Seq(SmallTab)
    BY DEF RingRight
  <2>3. \A k \in 1 .. Len(s1) :
          Span(base, SMALL_TABLE_SIZE) \cap Span(s1[k].chunk_base, SMALL_TABLE_SIZE) = {}
    <3>1. \A k \in 1 .. Len(s1) : s1[k] \in Small!ToSet(s1)
      BY <2>2 DEF Small!ToSet
    <3> QED BY <2>1, <3>1 DEF Small!SlabIsFree, Span
  <2>4. RingRight(q, s3) /\ s3 \subseteq AllOf(q) /\ TotalRight(q, s2 + SMALL_TABLE_SIZE)
    BY <2>3, RingNew
  <2>5. Len(q) > 0 /\ q[1].free # 0
    <3>1. q[1] = Small!NewTable(base) /\ Len(q) = 1 + Len(s1)
      BY <2>2
    <3>2. Small!NewTable(base).free = SMALL_TABLE_SIZE
      BY DEF Small!NewTable
    <3> QED BY <2>2, <3>1, <3>2, SmallFacts
  <2> HIDE DEF q
  <2>6. Small!AllocFrom(q, s2 + SMALL_TABLE_SIZE)
    BY <2>1 DEF q
  <2>7. s4 = s3 /\ s5 = "up"
    OBVIOUS
  <2> QED BY <2>4, <2>5, <2>6, <2>7, AllocFromStays
<1>3. CASE /\ s2 # 0
           /\ IF \E k \in 1 .. Len(s1) : s1[k].free # 0
                THEN \E k \in 1 .. Len(s1) :
                       /\ s1[k].free # 0
                       /\ \A j \in 1 .. k - 1 : s1[j].free = 0
                       /\ Small!AllocFrom(Small!From(s1, k), s2)
                ELSE Small!Assertion
  <2>1. \E k \in 1 .. Len(s1) : s1[k].free # 0
    <3>1. FreeOf(s1) # {}
      BY <1>3, FS_EmptySet DEF TotalRight
    <3>2. PICK k \in 1 .. Len(s1) : s1[k].bits # {}
      BY <3>1 DEF FreeOf
    <3>3. s1[k] \in SmallTab /\ s1[k].free = Cardinality(s1[k].bits)
      BY DEF RingRight, TabRight
    <3>4. IsFiniteSet(s1[k].bits)
      BY <3>3, TabFacts
    <3>5. Cardinality(s1[k].bits) # 0
      BY <3>2, <3>4, FS_EmptySet
    <3> QED BY <3>3, <3>5
  <2>2. PICK k \in 1 .. Len(s1) : s1[k].free # 0 /\ Small!AllocFrom(Small!From(s1, k), s2)
    BY <1>3, <2>1
  <2> DEFINE q == Small!From(s1, k)
  <2>3. /\ RingRight(q, s3) /\ FreeOf(q) = FreeOf(s1) /\ AllOf(q) = AllOf(s1)
        /\ Len(q) = Len(s1) /\ q[1] = s1[k]
    BY RingMoved
  <2>4. Small!AllocFrom(q, s2)
    BY <2>2
  <2> HIDE DEF q
  <2>5. TotalRight(q, s2) /\ s3 \subseteq AllOf(q)
    BY <2>3 DEF TotalRight
  <2>6. Len(q) > 0 /\ q[1].free # 0
    <3>1. Len(s1) \in Nat
      BY DEF RingRight
    <3> QED BY <2>2, <2>3, <3>1
  <2>7. s4 = s3 /\ s5 = "up"
    OBVIOUS
  <2> QED BY <2>3, <2>4, <2>5, <2>6, <2>7, AllocFromStays
<1> QED BY <1>1, <1>2, <1>3 DEF Small!object_alloc

LEMMA SmallFreeStays ==
  ASSUME Small!TableAssumption, SmallInv, NEW x \in s3, Small!object_free_token(x)
  PROVE  SmallInv'
<1> USE DEF SmallInv
<1>1. PICK k \in 1 .. Len(s1) :
        LET table == s1[k]
            offset == x - table.chunk_base
            freed == [table EXCEPT !.bits = @ \cup {offset}, !.free = @ + 1,
                        !.bitmap_free_index = Small!IndexFreed(table, offset \div WordBits)]
            tables == [s1 EXCEPT ![k] = freed]
        IN /\ x \in Small!SlotsOf(table)
           /\ s4' = s4 \ {x}
           /\ IF offset \in table.bits
                THEN /\ s5' = "assertion"
                     /\ UNCHANGED <<s1, s2, s3>>
                ELSE /\ s1' = IF tables[1].free < freed.free THEN Small!From(tables, k) ELSE tables
                     /\ s2' = Small!TotalFreed(s2)
                     /\ s3' = s3 \ {x}
                     /\ UNCHANGED s5
  BY DEF Small!object_free_token
<1> DEFINE t == s1[k]
           o == x - t.chunk_base
           z == [t EXCEPT !.bits = @ \cup {o}, !.free = @ + 1,
                          !.bitmap_free_index = Small!IndexFreed(t, o \div WordBits)]
           q == [s1 EXCEPT ![k] = z]
           now == s3 \ {x}
<1>2. t \in SmallTab /\ TabRight(t, s3) /\ s1 \in Seq(SmallTab) /\ k \in 1 .. Len(s1)
  BY DEF RingRight
<1>3. o \in Small!Offsets /\ t.chunk_base + o = x
  <2>1. PICK p \in Small!Offsets : x = t.chunk_base + p
    BY <1>1 DEF Small!SlotsOf
  <2>2. t.chunk_base \in Nat /\ p \in Nat
    BY <1>2, SlotFacts
  <2>3. x - t.chunk_base = p
    BY <2>1, <2>2
  <2> QED BY <2>1, <2>3
<1> HIDE DEF t, o
<1>4. o \notin t.bits
  BY <1>2, <1>3 DEF TabRight
<1>5. /\ s1' = IF q[1].free < z.free THEN Small!From(q, k) ELSE q
      /\ s2' = s2 + 1 /\ s3' = now /\ s4' = now /\ s5' = "up" /\ s6' = NULL
  <2>1. s6' = NULL
    BY DEF Small!object_free_token
  <2> QED BY <1>1, <1>4, <2>1 DEF t, o, Small!TotalFreed
<1>6. /\ t.bits \subseteq Small!Offsets /\ IsFiniteSet(t.bits) /\ Cardinality(t.bits) \in Nat
      /\ t.free \in Nat /\ SMALL_TABLE_SIZE \in Nat /\ t.free = Cardinality(t.bits)
      /\ t.bitmap_free_index \in Nat /\ t.bitmap_free_index <= Small!BitmapLen - 1
      /\ Small!BitmapLen \in Nat
  BY <1>2, TabFacts, SmallFacts DEF TabRight
<1>7. o \div WordBits \in 0 .. Small!BitmapLen - 1
  BY <1>3, SmallFacts
<1> DEFINE w == o \div WordBits
           index == Small!IndexFreed(t, w)
<1>8. z = [t EXCEPT !.bits = @ \cup {o}, !.free = @ + 1, !.bitmap_free_index = index]
  OBVIOUS
<1>9. index \in 0 .. Small!BitmapLen - 1 /\ index <= w /\ index <= t.bitmap_free_index
  <2> HIDE DEF w
  <2>1. w \in 0 .. Small!BitmapLen - 1
    BY <1>7 DEF w
  <2> QED BY <1>6, <2>1 DEF Small!IndexFreed
<1> HIDE DEF index
<1>10. /\ z.bitmap_free_index = index /\ z.bits = t.bits \cup {o} /\ z.free = t.free + 1
       /\ z.chunk_base = t.chunk_base
  BY <1>2, <1>8 DEF SmallTab
<1>11. IsFiniteSet(t.bits \cup {o}) /\ Cardinality(t.bits \cup {o}) = t.free + 1
  BY <1>4, <1>6, FS_AddElement
<1>12. z \in SmallTab
  <2>1. t.bits \cup {o} \in SUBSET Small!Offsets
    BY <1>3, <1>6
  <2>2. t.free + 1 \in 0 .. SMALL_TABLE_SIZE
    <3>1. IsFiniteSet(Small!Offsets) /\ Cardinality(Small!Offsets) = SMALL_TABLE_SIZE
      <4>1. Small!Offsets = Span(0, SMALL_TABLE_SIZE)
        BY <1>6 DEF Small!Offsets, Span
      <4> QED BY <1>6, <4>1, SpanSize
    <3>2. Cardinality(t.bits \cup {o}) <= SMALL_TABLE_SIZE
      BY <2>1, <3>1, FS_Subset
    <3> QED BY <1>6, <1>11, <3>2
  <2> QED BY <1>2, <1>8, <1>9, <2>1, <2>2 DEF SmallTab
<1> HIDE DEF z
<1>13. TabRight(z, now)
  <2>1. \A p \in Small!Offsets : p \in z.bits <=> z.chunk_base + p \notin now
    <3>1. SUFFICES ASSUME NEW p \in Small!Offsets
                   PROVE  p \in z.bits <=> z.chunk_base + p \notin now
      OBVIOUS
    <3>2. p \in t.bits <=> t.chunk_base + p \notin s3
      BY <1>2 DEF TabRight
    <3>3. t.chunk_base + p = x <=> p = o
      <4>1. t.chunk_base \in Nat /\ p \in Nat /\ o \in Nat
        BY <1>2, <1>3, SlotFacts
      <4> QED BY <1>3, <4>1
    <3> QED BY <1>10, <3>2, <3>3
  <2>2. \A p \in z.bits : index <= p \div WordBits
    <3>1. SUFFICES ASSUME NEW p \in z.bits PROVE index <= p \div WordBits
      OBVIOUS
    <3>2. CASE p = o
      BY <1>9, <3>2
    <3>3. CASE p \in t.bits
      <4>1. t.bitmap_free_index <= p \div WordBits
        BY <1>2, <3>3 DEF TabRight
      <4>2. p \div WordBits \in 0 .. Small!BitmapLen - 1
        BY <1>6, <3>3, SmallFacts
      <4> DEFINE u == p \div WordBits
      <4> HIDE DEF u
      <4>3. t.bitmap_free_index <= u /\ u \in Nat
        BY <1>6, <4>1, <4>2 DEF u
      <4>4. index <= u
        BY <1>6, <1>9, <4>3
      <4> QED BY <4>4 DEF u
    <3> QED BY <1>10, <3>2, <3>3
  <2> QED BY <1>10, <1>11, <2>1, <2>2 DEF TabRight
<1>14. /\ q \in Seq(SmallTab) /\ Len(q) = Len(s1) /\ q[k] = z
       /\ \A j \in 1 .. Len(s1) : j # k => q[j] = s1[j]
  BY <1>2, <1>12, SeqChanged
<1> HIDE DEF q
<1>15. /\ RingRight(q, now) /\ AllOf(q) = AllOf(s1)
       /\ \A s : s # x => (s \in FreeOf(s1) <=> s \in FreeOf(q))
       /\ x \in FreeOf(q) <=> o \in q[k].bits
  <2>1. s1[k].chunk_base + o = x
    BY <1>3 DEF t
  <2>2. q[k].chunk_base = s1[k].chunk_base /\ TabRight(q[k], now)
    BY <1>10, <1>13, <1>14 DEF t
  <2>3. \A s : s # s1[k].chunk_base + o => (s \in now <=> s \in s3)
    BY <2>1
  <2>4. o \in Small!Offsets /\ RingRight(s1, s3)
    BY <1>3
  <2> HIDE DEF now, SmallInv
  <2>5. /\ RingRight(q, now) /\ AllOf(q) = AllOf(s1)
        /\ \A s : s # s1[k].chunk_base + o => (s \in FreeOf(s1) <=> s \in FreeOf(q))
        /\ s1[k].chunk_base + o \in FreeOf(q) <=> o \in q[k].bits
    <3>1. OneChanged(s1, s3, k, o, q, now)
      BY <1>14, <2>2, <2>3, <2>4 DEF OneChanged
    <3> QED BY <3>1, RingChanged
  <2> QED BY <2>1, <2>5
<1>16. TotalRight(q, s2 + 1)
  <2>1. x \in FreeOf(q)
    BY <1>10, <1>14, <1>15
  <2>2. x \notin FreeOf(s1)
    <3>1. s1[k].chunk_base + o \in FreeOf(s1) <=> o \in s1[k].bits
      BY <1>3, FreeIn
    <3> QED BY <1>3, <1>4, <3>1 DEF t
  <2>3. IsFiniteSet(FreeOf(s1)) /\ s2 = Cardinality(FreeOf(s1))
    BY DEF TotalRight
  <2>4. IsFiniteSet(FreeOf(q)) /\ Cardinality(FreeOf(q)) = Cardinality(FreeOf(s1)) + 1
    BY <1>15, <2>1, <2>2, <2>3, OneMore
  <2> QED BY <2>3, <2>4 DEF TotalRight
<1>17. now \subseteq AllOf(q)
  BY <1>15
<1> HIDE DEF now
<1>18. CASE s1' = q
  BY <1>5, <1>15, <1>16, <1>17, <1>18
<1>19. CASE s1' = Small!From(q, k)
  <2>1. k \in 1 .. Len(q)
    BY <1>14
  <2>2. /\ RingRight(Small!From(q, k), now) /\ FreeOf(Small!From(q, k)) = FreeOf(q)
        /\ AllOf(Small!From(q, k)) = AllOf(q)
    BY <1>15, <2>1, RingMoved
  <2>3. RingRight(s1', now) /\ FreeOf(s1') = FreeOf(q) /\ AllOf(s1') = AllOf(q)
    BY <1>19, <2>2
  <2>4. TotalRight(s1', s2')
    BY <1>5, <1>16, <2>3 DEF TotalRight
  <2> QED BY <1>5, <1>17, <2>3, <2>4
<1> QED BY <1>5, <1>18, <1>19

LEMMA SmallBegun == ASSUME Small!TableAssumption, Small!Init PROVE SmallInv
<1>1. s1 = << >> /\ s2 = 0 /\ s3 = {} /\ s4 = {} /\ s5 = "up" /\ s6 = NULL
  BY DEF Small!Init
<1>2. RingRight(s1, s3)
  BY <1>1 DEF RingRight
<1>3. FreeOf(s1) = {}
  BY <1>1 DEF FreeOf
<1>4. TotalRight(s1, s2)
  BY <1>1, <1>3, FS_EmptySet DEF TotalRight
<1> QED BY <1>1, <1>2, <1>4 DEF SmallInv

LEMMA SmallStays == ASSUME Small!TableAssumption, SmallInv, Small!Next PROVE SmallInv'
  BY SmallAllocStays, SmallFreeStays DEF Small!Next

LEMMA SmallFollows ==
  ASSUME Small!TableAssumption, SmallInv
  PROVE  /\ Small!TypeOK /\ Small!CountersAgree /\ Small!IndexBelowBits
         /\ Small!BitsAreOwnership /\ Small!AssertionsHold
<1>1. s1 \in Seq(SmallTab) /\ \A k \in 1 .. Len(s1) : s1[k] \in SmallTab /\ TabRight(s1[k], s3)
  BY DEF SmallInv, RingRight
<1>2. AllOf(s1) \subseteq Nat
  BY DEF AllOf
<1>3. s2 \in Nat
  BY FS_CardinalityType DEF SmallInv, TotalRight
<1>4. Small!TypeOK
  BY <1>1, <1>2, <1>3 DEF SmallInv, SmallTab, Small!TypeOK
<1>5. Small!FreeSlots = FreeOf(s1)
  <2>1. ASSUME NEW s \in Small!FreeSlots PROVE s \in FreeOf(s1)
    <3>1. PICK k \in 1 .. Len(s1) : s \in {s1[k].chunk_base + o : o \in s1[k].bits}
      BY <1>1 DEF Small!FreeSlots, Small!ToSet
    <3>2. PICK o \in s1[k].bits : s = s1[k].chunk_base + o
      BY <3>1
    <3>3. o \in Small!Offsets
      BY <1>1, TabFacts
    <3>4. s \in Nat
      BY <1>1, <3>2, <3>3, SlotFacts
    <3> QED BY <3>2, <3>3, <3>4 DEF FreeOf
  <2>2. ASSUME NEW s \in FreeOf(s1) PROVE s \in Small!FreeSlots
    <3>1. PICK k \in 1 .. Len(s1), o \in Small!Offsets :
             o \in s1[k].bits /\ s = s1[k].chunk_base + o
      BY DEF FreeOf
    <3>2. s1[k] \in Small!ToSet(s1)
      BY <1>1 DEF Small!ToSet
    <3> QED BY <3>1, <3>2 DEF Small!FreeSlots
  <2> QED BY <2>1, <2>2
<1>6. Small!CountersAgree
  <2>1. s2 = Small!Cardinality(Small!FreeSlots)
    BY <1>5, SmallSize DEF SmallInv, TotalRight
  <2>2. \A k \in 1 .. Len(s1) : s1[k].free = Small!Cardinality(s1[k].bits)
    BY <1>1, SmallSize DEF TabRight
  <2> QED BY <2>1, <2>2 DEF Small!CountersAgree, Small!Tables
<1>7. Small!IndexBelowBits
  BY <1>1 DEF TabRight, Small!IndexBelowBits, Small!Tables
<1>8. Small!BitsAreOwnership
  BY <1>1 DEF SmallInv, TabRight, Small!BitsAreOwnership, Small!Tables
<1>9. Small!AssertionsHold
  BY DEF SmallInv, Small!AssertionsHold
<1> QED BY <1>4, <1>6, <1>7, <1>8, <1>9

(* The counters of the tables of small objects, their bits and the word at  *)
(* which a search begins agree with the objects in use, whichever objects   *)
(* the kernel refuses to make, and no assertion of small.c fails, for every *)
(* size of a table.                                                         *)
THEOREM SmallTablesCorrect == Spec => []SmallTablesAgree
<1> DEFINE Inv == part = "small" => SmallInv
<1>1. Init => Inv
  BY SmallBegun, SmallAssumption DEF Init
<1>2. Inv /\ [Next]_vars => Inv'
  <2>1. ASSUME Inv, [Next]_vars, part' = "small" PROVE SmallInv'
    <3>1. CASE UNCHANGED vars
      BY <2>1, <3>1 DEF vars, SmallInv
    <3>2. CASE Next
      <4>1. part = "small" /\ Small!Next
        BY <2>1, <3>2 DEF Next
      <4> QED BY <2>1, <4>1, SmallStays, SmallAssumption
    <3> QED BY <2>1, <3>1, <3>2
  <2> QED BY <2>1
<1>3. Inv => SmallTablesAgree
  BY SmallFollows, SmallAssumption DEF SmallTablesAgree
<1> QED BY <1>1, <1>2, <1>3, PTL DEF Spec

-----------------------------------------------------------------------------
(* HashMap: buckets is s1, entry_count s2, blocks s3, given s4, ret s5,    *)
(* cursor s6 and seen s7.                                                  *)

Bucket == [key : Keys, place : Pointers, value : Values]
Given == [value : Values, place : Pointers] \cup {Map!None}

ChainRight(c, b) ==
    /\ c \in Seq(Bucket)
    /\ \A n \in 1 .. Len(c) : Hash[c[n].key] = b
    /\ \A m, n \in 1 .. Len(c) : m # n => c[m].key # c[n].key

(* A chain holds for one of its keys what the client set, or nothing. *)
Holds(c, key, g) ==
    IF g = Map!None THEN \A n \in 1 .. Len(c) : c[n].key # key
    ELSE \E n \in 1 .. Len(c) : c[n] = [key |-> key, place |-> g.place, value |-> g.value]

MapRight(f, given) ==
    /\ f \in [Map!Numbers -> Seq(Bucket)] /\ \A b \in Map!Numbers : ChainRight(f[b], b)
    /\ given \in [Keys -> Given]
    /\ \A key \in Keys : Holds(f[Hash[key]], key, given[key])

BlocksRight(f, blocks) ==
    IsFiniteSet(Map!Entries(f)) /\ blocks = 2 + Cardinality(Map!Entries(f))

In(f, key) == \E n \in 1 .. Len(f[Hash[key]]) : f[Hash[key]][n].key = key

Ordered(s) == \A m, n \in 1 .. Len(s) : m < n => Hash[s[m]] < Hash[s[n]]
NoRepeat(s) == \A m, n \in 1 .. Len(s) : m # n => s[m] # s[n]
Visited(s) == {s[n] : n \in 1 .. Len(s)}

(* An iteration stays in the first chain of two buckets or more that it    *)
(* comes to; before that it has visited all keys up to its last one.       *)
Iteration(f, c, s) ==
    /\ c \in Keys /\ In(f, c)
    /\ \A b \in Map!Numbers : b < Hash[c] => Len(f[b]) <= 1
    /\ Len(f[Hash[c]]) <= 1 =>
         Ordered(s) /\ Visited(s) = {key \in Keys : In(f, key) /\ Hash[key] <= Hash[c]}

MapInv ==
    /\ s1 = NULL => s3 = 0 /\ s4 = [k \in Keys |-> Map!None]
    /\ s1 # NULL => MapRight(s1, s4) /\ BlocksRight(s1, s3)
    /\ s7 \in Seq(Keys)
    /\ s6 = NULL => NoRepeat(s7)
    /\ s6 # NULL => s1 # NULL /\ Iteration(s1, s6, s7)

LEMMA MapFacts ==
  ASSUME Map!KeysAssumption
  PROVE  /\ HASHMAP_BUCKETS \in Nat /\ HASHMAP_BUCKETS > 0 /\ Map!Numbers \subseteq Nat
         /\ \A b : b \in Map!Numbers <=> b \in Nat /\ b < HASHMAP_BUCKETS
         /\ \A key \in Keys : Hash[key] \in Map!Numbers /\ Hash[key] \in Nat
                              /\ Hash[key] < HASHMAP_BUCKETS
         /\ NULL \notin Keys /\ NULL \notin Pointers /\ NULL \notin Values
         /\ \A f \in [Map!Numbers -> Seq(Bucket)] : f # NULL
         /\ \A v \in Values, p \in Pointers : [value |-> v, place |-> p] # Map!None
         /\ Map!None \in Given
<1>1. HASHMAP_BUCKETS \in Nat /\ HASHMAP_BUCKETS > 0
  BY DEF Map!KeysAssumption
<1>2. \A b : b \in Map!Numbers <=> b \in Nat /\ b < HASHMAP_BUCKETS
  BY <1>1 DEF Map!Numbers
<1>3. \A key \in Keys : Hash[key] \in Map!Numbers
  BY DEF Map!KeysAssumption
<1>4. NULL \notin Keys /\ NULL \notin Pointers /\ NULL \notin Values
  BY DEF Map!KeysAssumption
<1>5. \A f \in [Map!Numbers -> Seq(Bucket)] : f # NULL
  BY DEF Map!KeysAssumption, Bucket
<1>6. \A v \in Values, p \in Pointers : [value |-> v, place |-> p] # Map!None
  <2>1. SUFFICES ASSUME NEW v \in Values, NEW p \in Pointers, [value |-> v, place |-> p] = Map!None
                 PROVE  FALSE
    OBVIOUS
  <2>2. [value |-> v, place |-> p].value = v /\ Map!None.value = NULL
    BY DEF Map!None
  <2>3. v = NULL
    BY <2>1, <2>2
  <2> QED BY <1>4, <2>3
<1> QED BY <1>1, <1>2, <1>3, <1>4, <1>5, <1>6 DEF Given

(* What a key's entry looks like, and that a map has one of it at most. *)
LEMMA EntryFacts ==
  ASSUME Map!KeysAssumption, NEW f, NEW given, MapRight(f, given), NEW key \in Keys
  PROVE  /\ f[Hash[key]] \in Seq(Bucket) /\ Len(f[Hash[key]]) \in Nat
         /\ DOMAIN f[Hash[key]] = 1 .. Len(f[Hash[key]])
         /\ ChainRight(f[Hash[key]], Hash[key])
         /\ In(f, key) <=> given[key] # Map!None
<1> DEFINE c == f[Hash[key]]
<1>1. c \in Seq(Bucket) /\ ChainRight(c, Hash[key]) /\ Holds(c, key, given[key])
  BY MapFacts DEF MapRight
<1>2. Len(c) \in Nat /\ DOMAIN c = 1 .. Len(c)
  BY <1>1
<1> HIDE DEF c
<1>3. (\E n \in 1 .. Len(c) : c[n].key = key) <=> given[key] # Map!None
  BY <1>1 DEF Holds
<1> QED BY <1>1, <1>2, <1>3 DEF In, c

LEMMA IsEntry ==
  ASSUME Map!KeysAssumption, NEW f \in [Map!Numbers -> Seq(Bucket)], NEW p
  PROVE  p \in Map!Entries(f) <=> \E b \in Map!Numbers, n \in Nat : p = <<b, n>> /\ 1 <= n /\ n <= Len(f[b])
<1>1. \A b \in Map!Numbers : DOMAIN f[b] = 1 .. Len(f[b]) /\ Len(f[b]) \in Nat
  OBVIOUS
<1>2. ASSUME p \in Map!Entries(f)
      PROVE  \E b \in Map!Numbers, n \in Nat : p = <<b, n>> /\ 1 <= n /\ n <= Len(f[b])
  <2>1. PICK b \in Map!Numbers : p \in {b} \X DOMAIN f[b]
    BY <1>2 DEF Map!Entries
  <2>2. PICK n \in DOMAIN f[b] : p = <<b, n>>
    BY <2>1
  <2>3. n \in Nat /\ 1 <= n /\ n <= Len(f[b])
    BY <1>1, <2>2
  <2> QED BY <2>2, <2>3
<1>3. ASSUME NEW b \in Map!Numbers, NEW n \in Nat, p = <<b, n>>, 1 <= n, n <= Len(f[b])
      PROVE  p \in Map!Entries(f)
  <2>1. n \in DOMAIN f[b]
    BY <1>1, <1>3
  <2>2. p \in {b} \X DOMAIN f[b]
    BY <1>3, <2>1
  <2> QED BY <2>2 DEF Map!Entries
<1> QED BY <1>2, <1>3

(* One chain changes, and what is given for one of its keys. *)
LEMMA ChainChanged ==
  ASSUME Map!KeysAssumption, NEW f, NEW given, MapRight(f, given), NEW key \in Keys,
         NEW q \in [Map!Numbers -> Seq(Bucket)], NEW now \in [Keys -> Given],
         \A b \in Map!Numbers : b # Hash[key] => q[b] = f[b],
         \A k \in Keys : k # key => now[k] = given[k],
         ChainRight(q[Hash[key]], Hash[key]), Holds(q[Hash[key]], key, now[key]),
         \A k \in Keys : k # key /\ Holds(f[Hash[key]], k, given[k]) => Holds(q[Hash[key]], k, given[k])
  PROVE  MapRight(q, now)
<1>1. \A b \in Map!Numbers : ChainRight(q[b], b)
  BY DEF MapRight
<1>2. ASSUME NEW k \in Keys PROVE Holds(q[Hash[k]], k, now[k])
  <2>1. CASE k = key
    BY <2>1
  <2>2. CASE k # key
    <3>1. Holds(f[Hash[k]], k, given[k]) /\ now[k] = given[k] /\ Hash[k] \in Map!Numbers
      BY <2>2, MapFacts DEF MapRight
    <3>2. CASE Hash[k] = Hash[key]
      BY <2>2, <3>1, <3>2
    <3>3. CASE Hash[k] # Hash[key]
      BY <3>1, <3>3
    <3> QED BY <3>2, <3>3
  <2> QED BY <2>1, <2>2
<1> QED BY <1>1, <1>2 DEF MapRight

(* The chain grows or shrinks by a bucket, or stays as long. *)
LEMMA BlocksChanged ==
  ASSUME Map!KeysAssumption, NEW f \in [Map!Numbers -> Seq(Bucket)], NEW b \in Map!Numbers,
         NEW q \in [Map!Numbers -> Seq(Bucket)],
         \A a \in Map!Numbers : a # b => q[a] = f[a], NEW blocks, BlocksRight(f, blocks)
  PROVE  /\ Len(q[b]) = Len(f[b]) => BlocksRight(q, blocks)
         /\ Len(q[b]) = Len(f[b]) + 1 => BlocksRight(q, blocks + 1)
         /\ Len(q[b]) = Len(f[b]) - 1 => BlocksRight(q, blocks - 1)
<1> DEFINE E == Map!Entries(f)
           F == Map!Entries(q)
<1>1. \A a \in Map!Numbers : Len(f[a]) \in Nat /\ Len(q[a]) \in Nat
  OBVIOUS
<1>2. \A p : p \in E <=> \E a \in Map!Numbers, n \in Nat : p = <<a, n>> /\ 1 <= n /\ n <= Len(f[a])
  BY IsEntry
<1>3. \A p : p \in F <=> \E a \in Map!Numbers, n \in Nat : p = <<a, n>> /\ 1 <= n /\ n <= Len(q[a])
  BY IsEntry
<1>4. IsFiniteSet(E) /\ blocks = 2 + Cardinality(E) /\ Cardinality(E) \in Nat
  BY FS_CardinalityType DEF BlocksRight
<1> HIDE DEF E, F
<1>5. CASE Len(q[b]) = Len(f[b])
  <2>1. \A a \in Map!Numbers : Len(q[a]) = Len(f[a])
    BY <1>5
  <2>2. E = F
    BY <1>2, <1>3, <2>1
  <2> QED BY <1>1, <1>4, <1>5, <2>2 DEF BlocksRight, E, F
<1>6. CASE Len(q[b]) = Len(f[b]) + 1
  <2> DEFINE x == <<b, Len(q[b])>>
  <2>1. ASSUME NEW p, p # x PROVE p \in E <=> p \in F
    <3>1. \A a \in Map!Numbers, n \in Nat :
            p = <<a, n>> => (1 <= n /\ n <= Len(f[a]) <=> 1 <= n /\ n <= Len(q[a]))
      BY <1>1, <1>6, <2>1
    <3> HIDE DEF x
    <3> QED BY <1>2, <1>3, <3>1
  <2>2. x \notin E
    BY <1>1, <1>2, <1>6
  <2>3. x \in F
    BY <1>1, <1>3, <1>6
  <2> HIDE DEF x
  <2>4. IsFiniteSet(F) /\ Cardinality(F) = Cardinality(E) + 1
    BY <1>4, <2>1, <2>2, <2>3, OneMore
  <2>5. BlocksRight(q, blocks + 1)
    BY <1>4, <2>4 DEF BlocksRight, F
  <2> QED BY <1>1, <1>6, <2>5
<1>7. CASE Len(q[b]) = Len(f[b]) - 1
  <2> DEFINE x == <<b, Len(f[b])>>
  <2>1. ASSUME NEW p, p # x PROVE p \in E <=> p \in F
    <3>1. \A a \in Map!Numbers, n \in Nat :
            p = <<a, n>> => (1 <= n /\ n <= Len(f[a]) <=> 1 <= n /\ n <= Len(q[a]))
      BY <1>1, <1>7, <2>1
    <3> HIDE DEF x
    <3> QED BY <1>2, <1>3, <3>1
  <2>2. x \in E
    BY <1>1, <1>2, <1>7
  <2>3. x \notin F
    BY <1>1, <1>3, <1>7
  <2> HIDE DEF x
  <2>4. IsFiniteSet(F) /\ Cardinality(F) = Cardinality(E) - 1
    BY <1>4, <2>1, <2>2, <2>3, OneMore
  <2>5. BlocksRight(q, blocks - 1)
    BY <1>4, <2>4 DEF BlocksRight, F
  <2> QED BY <1>1, <1>7, <2>5
<1> QED BY <1>5, <1>6, <1>7

(* The three ways in which a chain changes. *)
Rewritten(c, key, place, value) ==
    [n \in 1 .. Len(c) |-> IF c[n].key = key THEN Map!Updated(c[n], place, value) ELSE c[n]]

LEMMA ChainRewritten ==
  ASSUME NEW b, NEW c, ChainRight(c, b), NEW key \in Keys, NEW place \in Pointers, NEW value \in Values
  PROVE  LET d == Rewritten(c, key, place, value)
         IN  /\ ChainRight(d, b) /\ Len(d) = Len(c)
             /\ \A n \in 1 .. Len(c) : /\ d[n].key = c[n].key
                                       /\ c[n].key # key => d[n] = c[n]
                                       /\ c[n].key = key =>
                                            d[n] = [key |-> key, place |-> place, value |-> value]
<1> DEFINE d == Rewritten(c, key, place, value)
<1>1. c \in Seq(Bucket) /\ Len(c) \in Nat
  BY DEF ChainRight
<1>2. ASSUME NEW n \in 1 .. Len(c)
      PROVE  /\ d[n] \in Bucket /\ d[n].key = c[n].key
             /\ c[n].key # key => d[n] = c[n]
             /\ c[n].key = key => d[n] = [key |-> key, place |-> place, value |-> value]
  <2>1. c[n] \in Bucket
    BY <1>1
  <2>2. CASE c[n].key # key
    BY <2>1, <2>2 DEF Rewritten
  <2>3. CASE c[n].key = key
    <3>a. ASSUME NEW e \in Bucket
          PROVE  Map!Updated(e, place, value) = [key |-> e.key, place |-> place, value |-> value]
      <4> DEFINE u == Map!Updated(e, place, value)
      <4>1. u \in Bucket /\ u.key = e.key /\ u.place = place /\ u.value = value
        BY DEF Map!Updated, Bucket
      <4> HIDE DEF u
      <4>2. PICK k \in Keys, p \in Pointers, v \in Values : u = [key |-> k, place |-> p, value |-> v]
        BY <4>1 DEF Bucket
      <4>3. k = e.key /\ p = place /\ v = value
        BY <4>1, <4>2
      <4> QED BY <4>2, <4>3 DEF u
    <3>1. Map!Updated(c[n], place, value) = [key |-> key, place |-> place, value |-> value]
      BY <2>1, <2>3, <3>a
    <3>2. d[n] = [key |-> key, place |-> place, value |-> value]
      BY <2>3, <3>1 DEF Rewritten
    <3> QED BY <2>3, <3>2 DEF Bucket
  <2> QED BY <2>2, <2>3
<1>3. d = [n \in 1 .. Len(c) |-> d[n]]
  BY DEF Rewritten
<1> HIDE DEF d
<1>4. d \in Seq(Bucket) /\ Len(d) = Len(c)
  BY <1>1, <1>2, <1>3
<1>5. ChainRight(d, b)
  <2>1. ASSUME NEW n \in 1 .. Len(d) PROVE Hash[d[n].key] = b
    <3>1. n \in 1 .. Len(c) /\ d[n].key = c[n].key
      BY <1>2, <1>4
    <3> QED BY <3>1 DEF ChainRight
  <2>2. ASSUME NEW m \in 1 .. Len(d), NEW n \in 1 .. Len(d), m # n PROVE d[m].key # d[n].key
    <3>1. /\ m \in 1 .. Len(c) /\ d[m].key = c[m].key
          /\ n \in 1 .. Len(c) /\ d[n].key = c[n].key
      BY <1>2, <1>4
    <3> QED BY <2>2, <3>1 DEF ChainRight
  <2> QED BY <1>4, <2>1, <2>2 DEF ChainRight
<1> QED BY <1>2, <1>4, <1>5 DEF d

LEMMA ChainGrown ==
  ASSUME NEW b, NEW c, ChainRight(c, b), NEW e \in Bucket, Hash[e.key] = b,
         \A n \in 1 .. Len(c) : c[n].key # e.key
  PROVE  LET d == <<e>> \o c
         IN  /\ ChainRight(d, b) /\ Len(d) = Len(c) + 1 /\ d[1] = e
             /\ \A n \in 1 .. Len(c) : d[n + 1] = c[n]
<1> DEFINE d == <<e>> \o c
<1>1. c \in Seq(Bucket) /\ Len(c) \in Nat
  BY DEF ChainRight
<1>2. /\ d \in Seq(Bucket) /\ Len(d) = Len(c) + 1 /\ d[1] = e
      /\ \A n \in 1 .. Len(c) : d[n + 1] = c[n]
  BY <1>1
<1> HIDE DEF d
<1>3. ASSUME NEW n \in 1 .. Len(d), n # 1 PROVE n - 1 \in 1 .. Len(c) /\ d[n] = c[n - 1]
  <2>1. n - 1 \in 1 .. Len(c) /\ (n - 1) + 1 = n
    BY <1>1, <1>2, <1>3
  <2> QED BY <1>2, <2>1
<1>4. ChainRight(d, b)
  <2>1. ASSUME NEW n \in 1 .. Len(d) PROVE Hash[d[n].key] = b
    <3>1. CASE n = 1
      BY <1>2, <3>1
    <3>2. CASE n # 1
      BY <1>3, <3>2 DEF ChainRight
    <3> QED BY <3>1, <3>2
  <2>2. ASSUME NEW m \in 1 .. Len(d), NEW n \in 1 .. Len(d), m # n PROVE d[m].key # d[n].key
    <3>1. CASE m = 1
      BY <1>2, <1>3, <2>2, <3>1
    <3>2. CASE n = 1
      BY <1>2, <1>3, <2>2, <3>2
    <3>3. CASE m # 1 /\ n # 1
      <4>1. /\ m - 1 \in 1 .. Len(c) /\ d[m] = c[m - 1] /\ n - 1 \in 1 .. Len(c) /\ d[n] = c[n - 1]
            /\ m - 1 # n - 1
        BY <1>3, <2>2, <3>3
      <4> QED BY <4>1 DEF ChainRight
    <3> QED BY <3>1, <3>2, <3>3
  <2> QED BY <1>2, <2>1, <2>2 DEF ChainRight
<1> QED BY <1>2, <1>4 DEF d

LEMMA ChainShrunk ==
  ASSUME NEW b, NEW c, ChainRight(c, b), NEW n \in 1 .. Len(c)
  PROVE  LET d == Map!Without(c, n)
         IN  /\ ChainRight(d, b) /\ Len(d) = Len(c) - 1
             /\ \A m \in 1 .. Len(d) : d[m].key # c[n].key /\ \E j \in 1 .. Len(c) : d[m] = c[j]
             /\ \A j \in 1 .. Len(c) : j # n => \E m \in 1 .. Len(d) : d[m] = c[j]
<1> DEFINE d == Map!Without(c, n)
           u == SubSeq(c, 1, n - 1)
           v == SubSeq(c, n + 1, Len(c))
           L == Len(c)
           from(m) == IF m <= n - 1 THEN m ELSE m + 1
<1>1. c \in Seq(Bucket) /\ L \in Nat /\ n \in Nat /\ 1 <= n /\ n <= L
  BY DEF ChainRight
<1>2. u \in Seq(Bucket) /\ Len(u) = n - 1 /\ \A m \in 1 .. n - 1 : u[m] = c[m]
  BY <1>1
<1>3. v \in Seq(Bucket) /\ Len(v) = L - n /\ \A m \in 1 .. L - n : v[m] = c[m + n]
  <2>1. n + 1 \in Int /\ L \in Int /\ \A m \in n + 1 .. L : c[m] \in Bucket
    BY <1>1
  <2>2. /\ v \in Seq(Bucket) /\ Len(v) = IF n + 1 <= L THEN L - (n + 1) + 1 ELSE 0
        /\ \A m \in 1 .. L - (n + 1) + 1 : v[m] = c[n + 1 + m - 1]
    BY <2>1, SubSeqProperties
  <2>3. \A m \in 1 .. L - n : m \in 1 .. L - (n + 1) + 1 /\ n + 1 + m - 1 = m + n
    BY <1>1
  <2> QED BY <1>1, <2>2, <2>3
<1>4. d = u \o v
  BY DEF Map!Without
<1> HIDE DEF d, u, v, L
<1>5. d \in Seq(Bucket) /\ Len(d) = L - 1
      /\ \A m \in 1 .. L - 1 : d[m] = IF m <= n - 1 THEN u[m] ELSE v[m - (n - 1)]
  <2>1. /\ u \o v \in Seq(Bucket) /\ Len(u \o v) = Len(u) + Len(v)
        /\ \A m \in 1 .. Len(u) + Len(v) : (u \o v)[m] = IF m <= Len(u) THEN u[m] ELSE v[m - Len(u)]
    BY <1>2, <1>3, ConcatProperties
  <2>2. Len(u) + Len(v) = L - 1
    BY <1>1, <1>2, <1>3
  <2> QED BY <1>2, <1>4, <2>1, <2>2
<1>6. ASSUME NEW m \in 1 .. L - 1
      PROVE  d[m] = c[from(m)] /\ from(m) \in 1 .. L /\ from(m) # n
  <2>1. CASE m <= n - 1
    <3>1. m \in 1 .. n - 1 /\ from(m) = m /\ m \in 1 .. L /\ m # n
      BY <1>1, <2>1
    <3> QED BY <1>2, <1>5, <2>1, <3>1
  <2>2. CASE ~(m <= n - 1)
    <3>1. m - (n - 1) \in 1 .. L - n /\ m - (n - 1) + n = m + 1 /\ from(m) = m + 1
          /\ m + 1 \in 1 .. L /\ m + 1 # n
      BY <1>1, <2>2
    <3>2. d[m] = v[m - (n - 1)]
      BY <1>5, <2>2
    <3>3. v[m - (n - 1)] = c[m + 1]
      BY <1>3, <3>1
    <3> QED BY <3>1, <3>2, <3>3
  <2> QED BY <2>1, <2>2
<1>7. \A m, j \in 1 .. L - 1 : m # j => from(m) # from(j)
  BY <1>1
<1>8. ASSUME NEW j \in 1 .. L, j # n PROVE \E m \in 1 .. L - 1 : from(m) = j
  <2>1. CASE j < n
    <3>1. j \in 1 .. L - 1 /\ from(j) = j
      BY <1>1, <2>1
    <3> QED BY <3>1
  <2>2. CASE j > n
    <3>1. j - 1 \in 1 .. L - 1 /\ from(j - 1) = j
      BY <1>1, <2>2
    <3> QED BY <3>1
  <2> QED BY <1>1, <1>8, <2>1, <2>2
<1> HIDE DEF from
<1>9. ChainRight(d, b)
  <2>1. ASSUME NEW m \in 1 .. Len(d) PROVE Hash[d[m].key] = b
    BY <1>5, <1>6 DEF ChainRight, L
  <2>2. ASSUME NEW m \in 1 .. Len(d), NEW j \in 1 .. Len(d), m # j PROVE d[m].key # d[j].key
    <3>1. m \in 1 .. L - 1 /\ j \in 1 .. L - 1
      BY <1>5
    <3>2. /\ d[m] = c[from(m)] /\ from(m) \in 1 .. L /\ d[j] = c[from(j)] /\ from(j) \in 1 .. L
          /\ from(m) # from(j)
      BY <1>6, <1>7, <2>2, <3>1
    <3> QED BY <3>2 DEF ChainRight, L
  <2> QED BY <1>5, <2>1, <2>2 DEF ChainRight
<1>10. ASSUME NEW m \in 1 .. Len(d)
       PROVE  d[m].key # c[n].key /\ \E j \in 1 .. L : d[m] = c[j]
  <2>1. m \in 1 .. L - 1
    BY <1>5
  <2>2. d[m] = c[from(m)] /\ from(m) \in 1 .. L /\ from(m) # n
    BY <1>6, <2>1
  <2> QED BY <2>2 DEF ChainRight, L
<1>11. ASSUME NEW j \in 1 .. L, j # n PROVE \E m \in 1 .. Len(d) : d[m] = c[j]
  <2>1. PICK m \in 1 .. L - 1 : from(m) = j
    BY <1>8, <1>11
  <2>2. d[m] = c[j] /\ m \in 1 .. Len(d)
    BY <1>5, <1>6, <2>1
  <2> QED BY <2>2
<1> QED BY <1>5, <1>9, <1>10, <1>11 DEF d, L

(* The bucket of a key that is in the map is the one that was set. *)
LEMMA FoundFacts ==
  ASSUME Map!KeysAssumption, MapRight(s1, s4), NEW key \in Keys
  PROVE  /\ Map!Chain(key) = s1[Hash[key]]
         /\ Map!Found(key) = {n \in 1 .. Len(s1[Hash[key]]) : s1[Hash[key]][n].key = key}
         /\ Map!Found(key) = {} <=> s4[key] = Map!None
<1>1. DOMAIN s1[Hash[key]] = 1 .. Len(s1[Hash[key]]) /\ (In(s1, key) <=> s4[key] # Map!None)
  BY EntryFacts
<1>2. Map!Found(key) = {n \in 1 .. Len(s1[Hash[key]]) : s1[Hash[key]][n].key = key}
  BY <1>1 DEF Map!Found, Map!Chain
<1>3. Map!Found(key) = {} <=> ~In(s1, key)
  BY <1>2 DEF In
<1> QED BY <1>1, <1>2, <1>3 DEF Map!Chain

LEMMA MapSetStays ==
  ASSUME Map!KeysAssumption, MapInv, NEW key \in Keys, NEW place \in Pointers, NEW value \in Values,
         Map!hashmap_set(key, place, value)
  PROVE  MapInv'
<1> DEFINE b == Hash[key]
           c == s1[b]
           g == [value |-> value, place |-> place]
           now == [s4 EXCEPT ![key] = g]
<1>1. s1 # NULL /\ s6 = NULL /\ s6' = s6 /\ s7' = s7
  BY DEF Map!hashmap_set, Map!Idle
<1>2. /\ MapRight(s1, s4) /\ BlocksRight(s1, s3) /\ s7 \in Seq(Keys) /\ NoRepeat(s7)
      /\ s1 \in [Map!Numbers -> Seq(Bucket)] /\ s4 \in [Keys -> Given]
  BY <1>1 DEF MapInv, MapRight
<1>3. b \in Map!Numbers /\ c \in Seq(Bucket) /\ ChainRight(c, b) /\ Len(c) \in Nat
  BY <1>2, EntryFacts, MapFacts
<1>4. g \in Given /\ g # Map!None /\ g.value = value /\ g.place = place
  BY MapFacts DEF Given
<1> HIDE DEF g
<1>5. now \in [Keys -> Given] /\ now[key] = g /\ \A k \in Keys : k # key => now[k] = s4[k]
  BY <1>2, <1>4
<1> HIDE DEF now
<1>6. /\ Map!Chain(key) = c /\ Map!Found(key) = {n \in 1 .. Len(c) : c[n].key = key}
  BY <1>2, FoundFacts
<1>7. SUFFICES /\ \/ s1' = s1 /\ s4' = s4
                  \/ s4' = now /\ s1' \in [Map!Numbers -> Seq(Bucket)] /\ MapRight(s1', now)
               /\ BlocksRight(s1', s3')
  <2>1. s1' # NULL
    BY <1>1, <1>7, MapFacts
  <2>2. MapRight(s1', s4')
    BY <1>2, <1>7
  <2> QED BY <1>1, <1>2, <1>7, <2>1, <2>2 DEF MapInv
<1>8. CASE /\ Map!Found(key) # {} /\ s4' = now /\ s3' = s3
           /\ s1' = [s1 EXCEPT ![b] = Rewritten(c, key, place, value)]
  <2> DEFINE d == Rewritten(c, key, place, value)
             q == [s1 EXCEPT ![b] = d]
  <2>1. /\ ChainRight(d, b) /\ Len(d) = Len(c)
        /\ \A n \in 1 .. Len(c) : /\ d[n].key = c[n].key
                                  /\ c[n].key # key => d[n] = c[n]
                                  /\ c[n].key = key =>
                                       d[n] = [key |-> key, place |-> place, value |-> value]
    BY <1>3, ChainRewritten
  <2> HIDE DEF d
  <2>2. /\ q \in [Map!Numbers -> Seq(Bucket)] /\ q[b] = d
        /\ \A a \in Map!Numbers : a # b => q[a] = s1[a]
    BY <1>2, <1>3, <2>1 DEF ChainRight
  <2> HIDE DEF q
  <2>3. Holds(d, key, g)
    <3>1. PICK n \in 1 .. Len(c) : c[n].key = key
      BY <1>6, <1>8
    <3>2. d[n] = [key |-> key, place |-> g.place, value |-> g.value] /\ n \in 1 .. Len(d)
      BY <1>4, <2>1, <3>1
    <3> QED BY <1>4, <3>2 DEF Holds
  <2>4. ASSUME NEW k \in Keys, k # key, Holds(c, k, s4[k]) PROVE Holds(d, k, s4[k])
    <3>1. CASE s4[k] = Map!None
      BY <2>1, <2>4, <3>1 DEF Holds
    <3>2. CASE s4[k] # Map!None
      <4>1. PICK n \in 1 .. Len(c) : c[n] = [key |-> k, place |-> s4[k].place, value |-> s4[k].value]
        BY <2>4, <3>2 DEF Holds
      <4>2. d[n] = c[n] /\ n \in 1 .. Len(d)
        BY <2>1, <2>4, <4>1
      <4> QED BY <3>2, <4>1, <4>2 DEF Holds
    <3> QED BY <3>1, <3>2
  <2>5. MapRight(q, now)
    <3>1. /\ \A a \in Map!Numbers : a # Hash[key] => q[a] = s1[a]
          /\ ChainRight(q[Hash[key]], Hash[key]) /\ Holds(q[Hash[key]], key, now[key])
          /\ \A k \in Keys : k # key /\ Holds(s1[Hash[key]], k, s4[k]) =>
                               Holds(q[Hash[key]], k, s4[k])
      BY <1>5, <2>1, <2>2, <2>3, <2>4
    <3>2. \A k \in Keys : k # key => now[k] = s4[k]
      BY <1>5
    <3>3. q \in [Map!Numbers -> Seq(Bucket)] /\ now \in [Keys -> Given] /\ MapRight(s1, s4)
      BY <1>2, <1>5, <2>1, <2>2, <2>3, <2>4
    <3> QED BY <3>1, <3>2, <3>3, ChainChanged
  <2>6. BlocksRight(q, s3)
    <3>1. Len(q[b]) = Len(s1[b]) /\ BlocksRight(s1, s3) /\ s1 \in [Map!Numbers -> Seq(Bucket)]
      BY <1>2, <2>1, <2>2
    <3> HIDE DEF b, c
    <3> QED BY <1>3, <2>2, <3>1, BlocksChanged
  <2>7. s1' = q
    BY <1>8 DEF q, d
  <2> QED BY <1>8, <2>2, <2>5, <2>6, <2>7
<1>9. CASE /\ Map!Found(key) = {} /\ s4' = now /\ s3' = s3 + 1
           /\ s1' = [s1 EXCEPT ![b] = <<[key |-> key, place |-> place, value |-> value]>> \o c]
  <2> DEFINE e == [key |-> key, place |-> place, value |-> value]
             d == <<e>> \o c
             q == [s1 EXCEPT ![b] = d]
  <2>1. e \in Bucket /\ e.key = key
    BY DEF Bucket
  <2>2. \A n \in 1 .. Len(c) : c[n].key # key
    BY <1>6, <1>9
  <2> HIDE DEF e
  <2>3. /\ ChainRight(d, b) /\ Len(d) = Len(c) + 1 /\ d[1] = e
        /\ \A n \in 1 .. Len(c) : d[n + 1] = c[n]
    BY <1>3, <2>1, <2>2, ChainGrown
  <2> HIDE DEF d
  <2>4. /\ q \in [Map!Numbers -> Seq(Bucket)] /\ q[b] = d
        /\ \A a \in Map!Numbers : a # b => q[a] = s1[a]
    BY <1>2, <1>3, <2>3 DEF ChainRight
  <2> HIDE DEF q
  <2>5. Holds(d, key, g)
    <3>1. d[1] = [key |-> key, place |-> g.place, value |-> g.value] /\ 1 \in 1 .. Len(d)
      BY <1>3, <1>4, <2>3 DEF e
    <3> QED BY <1>4, <3>1 DEF Holds
  <2>6. ASSUME NEW k \in Keys, k # key, Holds(c, k, s4[k]) PROVE Holds(d, k, s4[k])
    <3>1. CASE s4[k] = Map!None
      <4>1. ASSUME NEW n \in 1 .. Len(d) PROVE d[n].key # k
        <5>1. CASE n = 1
          BY <2>1, <2>3, <2>6, <5>1
        <5>2. CASE n # 1
          <6>1. n - 1 \in 1 .. Len(c) /\ (n - 1) + 1 = n
            BY <1>3, <2>3, <5>2
          <6>2. d[n] = c[n - 1]
            BY <2>3, <6>1
          <6> QED BY <2>6, <3>1, <6>1, <6>2 DEF Holds
        <5> QED BY <5>1, <5>2
      <4> QED BY <3>1, <4>1 DEF Holds
    <3>2. CASE s4[k] # Map!None
      <4>1. PICK n \in 1 .. Len(c) : c[n] = [key |-> k, place |-> s4[k].place, value |-> s4[k].value]
        BY <2>6, <3>2 DEF Holds
      <4>2. d[n + 1] = c[n] /\ n + 1 \in 1 .. Len(d)
        BY <1>3, <2>3
      <4> QED BY <3>2, <4>1, <4>2 DEF Holds
    <3> QED BY <3>1, <3>2
  <2>7. MapRight(q, now)
    <3>1. /\ \A a \in Map!Numbers : a # Hash[key] => q[a] = s1[a]
          /\ ChainRight(q[Hash[key]], Hash[key]) /\ Holds(q[Hash[key]], key, now[key])
          /\ \A k \in Keys : k # key /\ Holds(s1[Hash[key]], k, s4[k]) =>
                               Holds(q[Hash[key]], k, s4[k])
      BY <1>5, <2>3, <2>4, <2>5, <2>6
    <3>2. \A k \in Keys : k # key => now[k] = s4[k]
      BY <1>5
    <3>3. q \in [Map!Numbers -> Seq(Bucket)] /\ now \in [Keys -> Given] /\ MapRight(s1, s4)
      BY <1>2, <1>5, <2>3, <2>4, <2>5, <2>6
    <3> QED BY <3>1, <3>2, <3>3, ChainChanged
  <2>8. BlocksRight(q, s3 + 1)
    BY <1>2, <1>3, <2>3, <2>4, BlocksChanged
  <2>9. s1' = q
    BY <1>9 DEF q, d, e
  <2> QED BY <1>9, <2>4, <2>7, <2>8, <2>9
<1>10. CASE s1' = s1 /\ s3' = s3 /\ s4' = s4
  BY <1>2, <1>10
<1>11. [n \in DOMAIN c |-> IF n \in Map!Found(key) THEN Map!Updated(c[n], place, value) ELSE c[n]]
         = Rewritten(c, key, place, value)
  <2>1. DOMAIN c = 1 .. Len(c)
    BY <1>3
  <2>2. \A n \in 1 .. Len(c) : n \in Map!Found(key) <=> c[n].key = key
    BY <1>6
  <2> QED BY <2>1, <2>2 DEF Rewritten
<1> QED BY <1>6, <1>8, <1>9, <1>10, <1>11 DEF Map!hashmap_set, now, g

LEMMA MapRemoveStays ==
  ASSUME Map!KeysAssumption, MapInv, NEW key \in Keys, Map!hashmap_remove(key)
  PROVE  MapInv'
<1> DEFINE b == Hash[key]
           c == s1[b]
           now == [s4 EXCEPT ![key] = Map!None]
<1>1. s1 # NULL /\ s6 = NULL /\ s6' = s6 /\ s7' = s7 /\ s4' = now
  BY DEF Map!hashmap_remove, Map!Idle
<1>2. /\ MapRight(s1, s4) /\ BlocksRight(s1, s3) /\ s7 \in Seq(Keys) /\ NoRepeat(s7)
      /\ s1 \in [Map!Numbers -> Seq(Bucket)] /\ s4 \in [Keys -> Given]
  BY <1>1 DEF MapInv, MapRight
<1>3. b \in Map!Numbers /\ c \in Seq(Bucket) /\ ChainRight(c, b) /\ Len(c) \in Nat
  BY <1>2, EntryFacts, MapFacts
<1>4. now \in [Keys -> Given] /\ now[key] = Map!None /\ \A k \in Keys : k # key => now[k] = s4[k]
  BY <1>2, MapFacts
<1> HIDE DEF now
<1>5. /\ Map!Chain(key) = c /\ Map!Found(key) = {n \in 1 .. Len(c) : c[n].key = key}
      /\ Map!Found(key) = {} <=> s4[key] = Map!None
  BY <1>2, FoundFacts
<1>6. SUFFICES /\ s1' \in [Map!Numbers -> Seq(Bucket)] /\ MapRight(s1', now)
               /\ BlocksRight(s1', s3')
  <2>1. s1' # NULL
    BY <1>6, MapFacts
  <2> QED BY <1>1, <1>2, <1>6, <2>1 DEF MapInv
<1>7. CASE Map!Found(key) = {} /\ s1' = s1 /\ s3' = s3
  <2>1. \A k \in Keys : now[k] = s4[k]
    BY <1>4, <1>5, <1>7
  <2>2. now = s4
    BY <1>2, <1>4, <2>1
  <2> QED BY <1>2, <1>7, <2>2
<1>8. ASSUME NEW n \in Map!Found(key), s1' = [s1 EXCEPT ![b] = Map!Without(c, n)], s3' = s3 - 1
      PROVE  MapRight(s1', now) /\ BlocksRight(s1', s3') /\ s1' \in [Map!Numbers -> Seq(Bucket)]
  <2> DEFINE d == Map!Without(c, n)
             q == [s1 EXCEPT ![b] = d]
  <2>1. n \in 1 .. Len(c) /\ c[n].key = key
    BY <1>5
  <2>2. /\ ChainRight(d, b) /\ Len(d) = Len(c) - 1
        /\ \A m \in 1 .. Len(d) : d[m].key # c[n].key /\ \E j \in 1 .. Len(c) : d[m] = c[j]
        /\ \A j \in 1 .. Len(c) : j # n => \E m \in 1 .. Len(d) : d[m] = c[j]
    <3> HIDE DEF b, c
    <3>1. ChainRight(c, b) /\ n \in 1 .. Len(c)
      BY <1>3, <2>1
    <3> QED BY <3>1, ChainShrunk
  <2> HIDE DEF d
  <2>3. /\ q \in [Map!Numbers -> Seq(Bucket)] /\ q[b] = d
        /\ \A a \in Map!Numbers : a # b => q[a] = s1[a]
    BY <1>2, <1>3, <2>2 DEF ChainRight
  <2> HIDE DEF q
  <2>4. Holds(d, key, Map!None)
    BY <2>1, <2>2 DEF Holds
  <2>5. ASSUME NEW k \in Keys, k # key, Holds(c, k, s4[k]) PROVE Holds(d, k, s4[k])
    <3>1. CASE s4[k] = Map!None
      BY <2>2, <2>5, <3>1 DEF Holds
    <3>2. CASE s4[k] # Map!None
      <4>1. PICK j \in 1 .. Len(c) : c[j] = [key |-> k, place |-> s4[k].place, value |-> s4[k].value]
        BY <2>5, <3>2 DEF Holds
      <4>2. j # n
        BY <2>1, <2>5, <4>1
      <4>3. PICK m \in 1 .. Len(d) : d[m] = c[j]
        BY <2>2, <4>2
      <4> QED BY <3>2, <4>1, <4>3 DEF Holds
    <3> QED BY <3>1, <3>2
  <2>6. MapRight(q, now)
    <3>1. /\ \A a \in Map!Numbers : a # Hash[key] => q[a] = s1[a]
          /\ ChainRight(q[Hash[key]], Hash[key]) /\ Holds(q[Hash[key]], key, now[key])
          /\ \A k \in Keys : k # key /\ Holds(s1[Hash[key]], k, s4[k]) =>
                               Holds(q[Hash[key]], k, s4[k])
      BY <1>4, <2>2, <2>3, <2>4, <2>5
    <3>2. \A k \in Keys : k # key => now[k] = s4[k]
      BY <1>4
    <3>3. q \in [Map!Numbers -> Seq(Bucket)] /\ now \in [Keys -> Given] /\ MapRight(s1, s4)
      BY <1>2, <1>4, <2>3
    <3> QED BY <3>1, <3>2, <3>3, ChainChanged
  <2>7. BlocksRight(q, s3 - 1)
    BY <1>2, <1>3, <2>2, <2>3, BlocksChanged
  <2>8. s1' = q
    BY <1>8 DEF q, d
  <2> QED BY <1>8, <2>3, <2>6, <2>7, <2>8
<1> QED BY <1>5, <1>7, <1>8 DEF Map!hashmap_remove

(* HashMap's Cardinality is that of the library. *)
LEMMA MapSize == ASSUME NEW S PROVE Map!Cardinality(S) = Cardinality(S)
  BY DEF Map!Cardinality, Cardinality, Map!IsFiniteSet, IsFiniteSet

LEMMA MapNewStays == ASSUME Map!KeysAssumption, MapInv, Map!hashmap_new PROVE MapInv'
<1>1. /\ s1 = NULL /\ s6 = NULL /\ s3 = 0 /\ s4 = [k \in Keys |-> Map!None] /\ s7 \in Seq(Keys)
      /\ s4' = s4 /\ s6' = s6 /\ s7' = s7 /\ NoRepeat(s7)
  BY DEF MapInv, Map!hashmap_new
<1>2. CASE s1' = s1 /\ s3' = s3
  BY <1>1, <1>2 DEF MapInv
<1>3. CASE s1' = [b \in Map!Numbers |-> << >>] /\ s3' = 2
  <2>1. s1' \in [Map!Numbers -> Seq(Bucket)]
    BY <1>3
  <2>2. \A b \in Map!Numbers : s1'[b] = << >> /\ Len(s1'[b]) = 0 /\ ChainRight(s1'[b], b)
    BY <1>3 DEF ChainRight
  <2>3. s4' \in [Keys -> Given]
    BY <1>1, MapFacts
  <2>4. \A key \in Keys : Holds(s1'[Hash[key]], key, s4'[key])
    BY <1>1, <2>2, MapFacts DEF Holds
  <2>5. Map!Entries(s1') = {}
    <3>1. \A p : p \notin Map!Entries(s1')
      <4>1. SUFFICES ASSUME NEW p, p \in Map!Entries(s1') PROVE FALSE
        OBVIOUS
      <4>2. \E b \in Map!Numbers, n \in Nat : p = <<b, n>> /\ 1 <= n /\ n <= Len(s1'[b])
        BY <2>1, <4>1, IsEntry
      <4> QED BY <2>2, <4>2
    <3> QED BY <3>1
  <2>6. BlocksRight(s1', s3')
    BY <1>3, <2>5, FS_EmptySet DEF BlocksRight
  <2>7. s1' # NULL
    BY <2>1, MapFacts
  <2>8. MapRight(s1', s4')
    BY <2>1, <2>2, <2>3, <2>4 DEF MapRight
  <2> QED BY <1>1, <2>6, <2>7, <2>8 DEF MapInv
<1> QED BY <1>2, <1>3 DEF Map!hashmap_new

LEMMA MapFreeStays == ASSUME Map!KeysAssumption, MapInv, Map!hashmap_free PROVE MapInv'
<1>1. /\ s1 # NULL /\ s6 = NULL /\ s6' = s6 /\ s7' = s7
      /\ s1' = NULL /\ s4' = [k \in Keys |-> Map!None]
      /\ s3' = s3 - Map!Sum(s1) - 2
  BY DEF Map!hashmap_free, Map!Idle
<1>2. s3 = 2 + Cardinality(Map!Entries(s1)) /\ Cardinality(Map!Entries(s1)) \in Nat
  BY <1>1, FS_CardinalityType DEF MapInv, BlocksRight
<1>3. Map!Sum(s1) = Cardinality(Map!Entries(s1))
  BY MapSize DEF Map!Sum
<1>4. s3' = 0
  BY <1>1, <1>2, <1>3
<1> QED BY <1>1, <1>4 DEF MapInv

LEMMA MapGetStays ==
  ASSUME Map!KeysAssumption, MapInv, NEW key \in Keys, Map!hashmap_get(key)
  PROVE  MapInv'
<1>1. UNCHANGED <<s1, s3, s4, s6, s7>>
  BY DEF Map!hashmap_get
<1> QED BY <1>1 DEF MapInv

LEMMA MapStopStays == ASSUME Map!KeysAssumption, MapInv, Map!Stop PROVE MapInv'
<1>1. UNCHANGED <<s1, s3, s4>> /\ s6' = NULL /\ s7' = << >>
  BY DEF Map!Stop
<1>2. NoRepeat(<< >>) /\ << >> \in Seq(Keys)
  BY DEF NoRepeat
<1> QED BY <1>1, <1>2 DEF MapInv

(* The head of the first chain from a number on that has one. *)
LEMMA HeadFacts ==
  ASSUME Map!KeysAssumption, MapRight(s1, s4), NEW a \in Nat
  PROVE  /\ Map!HeadFrom(a) = NULL => \A m \in Map!Numbers : a <= m => Len(s1[m]) = 0
         /\ Map!HeadFrom(a) # NULL =>
              \E b \in Map!Numbers :
                /\ a <= b /\ Len(s1[b]) > 0 /\ Map!HeadFrom(a) = s1[b][1].key
                /\ s1[b][1].key \in Keys /\ Hash[s1[b][1].key] = b
                /\ \A m \in Map!Numbers : a <= m /\ m < b => Len(s1[m]) = 0
<1> DEFINE full == {m \in a .. HASHMAP_BUCKETS - 1 : s1[m] # << >>}
           P(b) == \A k \in full : b <= k
<1>1. HASHMAP_BUCKETS \in Nat /\ \A m : m \in Map!Numbers <=> m \in Nat /\ m < HASHMAP_BUCKETS
  BY MapFacts
<1>2. \A m \in Map!Numbers : s1[m] \in Seq(Bucket) /\ Len(s1[m]) \in Nat /\ ChainRight(s1[m], m)
  BY DEF MapRight
<1>3. \A m : m \in full <=> m \in Map!Numbers /\ a <= m /\ s1[m] # << >>
  BY <1>1
<1>4. \A m \in Map!Numbers : s1[m] # << >> <=> Len(s1[m]) > 0
  BY <1>2
<1>5. Map!HeadFrom(a) = IF full = {} THEN NULL ELSE s1[CHOOSE m \in full : P(m)][1].key
  BY DEF Map!HeadFrom
<1> HIDE DEF full
<1>6. CASE full = {}
  <2>1. \A m \in Map!Numbers : a <= m => Len(s1[m]) = 0
    BY <1>2, <1>3, <1>4, <1>6
  <2>2. Map!HeadFrom(a) = NULL
    BY <1>5, <1>6
  <2> QED BY <2>1, <2>2
<1>7. CASE full # {}
  <2>1. full \in SUBSET Nat
    BY <1>1, <1>3
  <2>2. \E m \in full : P(m)
    BY <1>7, <2>1, Least
  <2> DEFINE b == CHOOSE m \in full : P(m)
  <2>3. b \in full /\ P(b)
    <3> HIDE DEF P
    <3> QED BY <2>2
  <2>4. Map!HeadFrom(a) = s1[b][1].key
    BY <1>5, <1>7
  <2> HIDE DEF b
  <2>5. b \in Map!Numbers /\ a <= b /\ Len(s1[b]) > 0 /\ b \in Nat
    BY <1>1, <1>3, <1>4, <2>3
  <2>6. 1 \in 1 .. Len(s1[b]) /\ s1[b][1] \in Bucket
    BY <1>2, <2>5
  <2>7. s1[b][1].key \in Keys /\ Hash[s1[b][1].key] = b
    BY <1>2, <2>5, <2>6 DEF ChainRight, Bucket
  <2>8. ASSUME NEW m \in Map!Numbers, a <= m, m < b PROVE Len(s1[m]) = 0
    <3>1. m \notin full
      BY <1>1, <2>3, <2>5, <2>8
    <3> QED BY <1>2, <1>3, <1>4, <2>8, <3>1
  <2>9. Map!HeadFrom(a) # NULL
    BY <2>4, <2>7, MapFacts
  <2> QED BY <2>4, <2>5, <2>7, <2>8, <2>9
<1> QED BY <1>6, <1>7

(* An iteration gets to the head of a chain, and the chains between the     *)
(* keys visited so far and this one are empty.                              *)
LEMMA HeadVisited ==
  ASSUME Map!KeysAssumption, NEW f, NEW given, MapRight(f, given),
         NEW a \in Nat, NEW b \in Map!Numbers, a <= b, Len(f[b]) > 0,
         f[b][1].key \in Keys, Hash[f[b][1].key] = b,
         \A m \in Map!Numbers : a <= m /\ m < b => Len(f[m]) = 0,
         \A m \in Map!Numbers : m < a => Len(f[m]) <= 1,
         NEW s \in Seq(Keys), Ordered(s), Visited(s) = {key \in Keys : In(f, key) /\ Hash[key] < a}
  PROVE  Iteration(f, f[b][1].key, Append(s, f[b][1].key))
<1> DEFINE c == f[b][1].key
           t == Append(s, c)
<1>1. b \in Nat /\ \A m \in Map!Numbers : Len(f[m]) \in Nat /\ m \in Nat
  BY MapFacts DEF MapRight
<1>2. In(f, c)
  <2>1. 1 \in 1 .. Len(f[b])
    BY <1>1
  <2> QED BY <2>1 DEF In
<1>3. ASSUME NEW m \in Map!Numbers, m < Hash[c] PROVE Len(f[m]) <= 1
  <2>1. m < b /\ m \in Nat
    BY <1>1, <1>3
  <2>2. CASE m < a
    BY <2>2
  <2>3. CASE a <= m
    <3>1. Len(f[m]) = 0
      BY <2>1, <2>3
    <3> QED BY <3>1
  <2> QED BY <2>1, <2>2, <2>3
<1> HIDE DEF c
<1>4. c \in Keys /\ Hash[c] = b
  BY DEF c
<1>5. /\ t \in Seq(Keys) /\ Len(t) = Len(s) + 1 /\ t[Len(s) + 1] = c
      /\ \A n \in 1 .. Len(s) : t[n] = s[n]
  BY <1>4, AppendProperties
<1>6. Len(s) \in Nat /\ \A n \in 1 .. Len(s) : s[n] \in Keys /\ Hash[s[n]] < a /\ Hash[s[n]] \in Nat
  <2>1. \A n \in 1 .. Len(s) : s[n] \in Visited(s)
    BY DEF Visited
  <2> QED BY <2>1, MapFacts
<1> HIDE DEF t
<1>7. \A n \in 1 .. Len(t) : n \in 1 .. Len(s) \/ n = Len(s) + 1
  BY <1>5, <1>6
<1>8. Ordered(t)
  <2>1. SUFFICES ASSUME NEW m \in 1 .. Len(t), NEW n \in 1 .. Len(t), m < n
                 PROVE  Hash[t[m]] < Hash[t[n]]
    BY DEF Ordered
  <2>2. m \in 1 .. Len(s)
    BY <1>5, <1>6, <2>1
  <2>3. CASE n \in 1 .. Len(s)
    BY <1>5, <2>1, <2>2, <2>3 DEF Ordered
  <2>4. CASE n = Len(s) + 1
    <3>1. t[m] = s[m] /\ t[n] = c
      BY <1>5, <2>2, <2>4
    <3>2. Hash[s[m]] < a /\ Hash[s[m]] \in Nat
      BY <1>6, <2>2
    <3>3. Hash[s[m]] < Hash[c]
      BY <1>1, <1>4, <3>2
    <3> QED BY <3>1, <3>3
  <2> QED BY <1>7, <2>3, <2>4
<1>9. ASSUME Len(f[b]) <= 1
      PROVE  Visited(t) = {key \in Keys : In(f, key) /\ Hash[key] <= Hash[c]}
  <2>1. ASSUME NEW x \in Visited(t) PROVE x \in Keys /\ In(f, x) /\ Hash[x] <= Hash[c]
    <3>1. PICK n \in 1 .. Len(t) : x = t[n]
      BY DEF Visited
    <3>2. CASE n = Len(s) + 1
      BY <1>1, <1>2, <1>4, <1>5, <3>1, <3>2 DEF c
    <3>3. CASE n \in 1 .. Len(s)
      <4>1. x = s[n] /\ x \in Visited(s)
        BY <1>5, <3>1, <3>3 DEF Visited
      <4>2. Hash[x] < a /\ Hash[x] \in Nat /\ In(f, x)
        BY <1>6, <3>3, <4>1
      <4>3. Hash[x] <= Hash[c]
        BY <1>1, <1>4, <4>2
      <4> QED BY <1>6, <3>3, <4>1, <4>2, <4>3
    <3> QED BY <1>7, <3>2, <3>3
  <2>2. ASSUME NEW x \in Keys, In(f, x), Hash[x] <= Hash[c] PROVE x \in Visited(t)
    <3>1. Hash[x] \in Map!Numbers /\ Hash[x] \in Nat
      BY MapFacts
    <3>2. PICK n \in 1 .. Len(f[Hash[x]]) : f[Hash[x]][n].key = x
      BY <2>2 DEF In
    <3>3. Len(f[Hash[x]]) > 0 /\ n \in Nat /\ n >= 1
      BY <1>1, <3>1, <3>2
    <3>4. CASE Hash[x] < a
      <4>1. x \in Visited(s)
        BY <2>2, <3>4
      <4>2. PICK m \in 1 .. Len(s) : x = s[m]
        BY <4>1 DEF Visited
      <4>3. m \in 1 .. Len(t) /\ t[m] = x
        BY <1>5, <1>6, <4>2
      <4> QED BY <4>3 DEF Visited
    <3>5. CASE a <= Hash[x]
      <4>1. ~(Hash[x] < b)
        BY <3>1, <3>3, <3>5
      <4>2. Hash[x] = b
        BY <1>1, <1>4, <2>2, <3>1, <4>1
      <4>3. n = 1
        BY <1>1, <1>9, <3>2, <4>2
      <4>4. x = c
        BY <3>2, <4>2, <4>3 DEF c
      <4>5. Len(s) + 1 \in 1 .. Len(t)
        BY <1>5, <1>6
      <4> QED BY <1>5, <4>4, <4>5 DEF Visited
    <3> QED BY <3>1, <3>4, <3>5
  <2> QED BY <2>1, <2>2
<1>10. Iteration(f, c, t)
  BY <1>2, <1>3, <1>4, <1>8, <1>9 DEF Iteration
<1> QED BY <1>10 DEF c, t

LEMMA MapFirstStays == ASSUME Map!KeysAssumption, MapInv, Map!hashmap_iter_first PROVE MapInv'
<1>1. /\ s1 # NULL /\ UNCHANGED <<s1, s3, s4>> /\ s6' = Map!HeadFrom(0)
      /\ s7' = IF Map!HeadFrom(0) = NULL THEN << >> ELSE <<Map!HeadFrom(0)>>
  BY DEF Map!hashmap_iter_first, Map!Idle
<1>2. MapRight(s1, s4) /\ BlocksRight(s1, s3)
  BY <1>1 DEF MapInv
<1>3. NoRepeat(<< >>) /\ << >> \in Seq(Keys) /\ Ordered(<< >>) /\ Visited(<< >>) = {}
  BY DEF NoRepeat, Ordered, Visited
<1>4. CASE Map!HeadFrom(0) = NULL
  BY <1>1, <1>2, <1>3, <1>4 DEF MapInv
<1>5. CASE Map!HeadFrom(0) # NULL
  <2>1. PICK b \in Map!Numbers :
          /\ 0 <= b /\ Len(s1[b]) > 0 /\ Map!HeadFrom(0) = s1[b][1].key
          /\ s1[b][1].key \in Keys /\ Hash[s1[b][1].key] = b
          /\ \A m \in Map!Numbers : 0 <= m /\ m < b => Len(s1[m]) = 0
    BY <1>2, <1>5, HeadFacts
  <2>2. \A m \in Map!Numbers : m < 0 => Len(s1[m]) <= 1
    BY MapFacts
  <2>3. {key \in Keys : In(s1, key) /\ Hash[key] < 0} = {}
    BY MapFacts
  <2> DEFINE x == s1[b][1].key
             e == << >>
  <2>4. e \in Seq(Keys) /\ Ordered(e) /\ Visited(e) = {key \in Keys : In(s1, key) /\ Hash[key] < 0}
    BY <1>3, <2>3
  <2>5. Append(e, x) = <<x>>
    OBVIOUS
  <2> HIDE DEF e
  <2>6. Iteration(s1, s1[b][1].key, Append(e, s1[b][1].key))
    BY <1>2, <2>1, <2>2, <2>4, HeadVisited
  <2> HIDE DEF x
  <2>7. s6' = x /\ s7' = <<x>> /\ x \in Keys
    BY <1>1, <1>5, <2>1 DEF x
  <2>8. Iteration(s1, x, <<x>>)
    BY <2>5, <2>6 DEF x
  <2>9. <<x>> \in Seq(Keys) /\ x # NULL
    BY <2>7, MapFacts
  <2> QED BY <1>1, <1>2, <2>7, <2>8, <2>9 DEF MapInv
<1> QED BY <1>4, <1>5

LEMMA OrderedOnce ==
  ASSUME Map!KeysAssumption, NEW s \in Seq(Keys), Ordered(s)
  PROVE  NoRepeat(s)
<1>1. SUFFICES ASSUME NEW m \in 1 .. Len(s), NEW n \in 1 .. Len(s), m # n PROVE s[m] # s[n]
  BY DEF NoRepeat
<1>2. Hash[s[m]] \in Nat /\ Hash[s[n]] \in Nat
  BY MapFacts
<1>3. CASE m < n
  BY <1>2, <1>3 DEF Ordered
<1>4. CASE n < m
  BY <1>2, <1>4 DEF Ordered
<1> QED BY <1>1, <1>3, <1>4

LEMMA MapNextStays == ASSUME Map!KeysAssumption, MapInv, Map!hashmap_iter_next PROVE MapInv'
<1> DEFINE b == Hash[s6]
           x == IF Len(Map!Chain(s6)) > 1 THEN Map!Chain(s6)[2].key ELSE Map!HeadFrom(Map!After(s6))
<1>1. /\ s6 # NULL /\ UNCHANGED <<s1, s3, s4>> /\ s6' = x
      /\ s7' = IF x = NULL THEN s7 ELSE Append(s7, x)
  BY DEF Map!hashmap_iter_next, Map!Visit
<1> HIDE DEF x
<1>2. /\ s1 # NULL /\ MapRight(s1, s4) /\ BlocksRight(s1, s3) /\ s7 \in Seq(Keys)
      /\ Iteration(s1, s6, s7) /\ s6 \in Keys
  BY <1>1 DEF MapInv, Iteration
<1>3. b \in Map!Numbers /\ b \in Nat /\ ChainRight(s1[b], b) /\ Len(s1[b]) \in Nat
  BY <1>2, EntryFacts, MapFacts
<1>4. CASE Len(s1[b]) > 1
  <2>1. x = s1[b][2].key
    BY <1>4 DEF x, Map!Chain
  <2>2. 2 \in 1 .. Len(s1[b]) /\ s1[b][2] \in Bucket
    BY <1>3, <1>4 DEF ChainRight
  <2>3. x \in Keys /\ Hash[x] = b /\ In(s1, x)
    BY <1>3, <2>1, <2>2 DEF ChainRight, Bucket, In
  <2>4. ~(Len(s1[b]) <= 1)
    BY <1>3, <1>4
  <2> HIDE DEF b
  <2>5. Iteration(s1, x, Append(s7, x))
    BY <1>2, <2>3, <2>4 DEF Iteration, b
  <2>6. Append(s7, x) \in Seq(Keys) /\ x # NULL
    BY <1>2, <2>3, MapFacts
  <2> QED BY <1>1, <1>2, <2>5, <2>6 DEF MapInv
<1>5. CASE ~(Len(s1[b]) > 1)
  <2>1. x = Map!HeadFrom(b + 1) /\ Len(s1[b]) <= 1
    BY <1>3, <1>5 DEF x, Map!Chain, Map!After
  <2>2. Ordered(s7) /\ Visited(s7) = {key \in Keys : In(s1, key) /\ Hash[key] <= b}
    BY <1>2, <2>1 DEF Iteration
  <2>3. CASE x = NULL
    <3>1. NoRepeat(s7)
      BY <1>2, <2>2, OrderedOnce
    <3> QED BY <1>1, <1>2, <2>3, <3>1 DEF MapInv
  <2>4. CASE x # NULL
    <3> DEFINE a == b + 1
    <3>1. a \in Nat
      BY <1>3
    <3>2. PICK n \in Map!Numbers :
            /\ a <= n /\ Len(s1[n]) > 0 /\ Map!HeadFrom(a) = s1[n][1].key
            /\ s1[n][1].key \in Keys /\ Hash[s1[n][1].key] = n
            /\ \A m \in Map!Numbers : a <= m /\ m < n => Len(s1[m]) = 0
      BY <1>2, <2>1, <2>4, <3>1, HeadFacts
    <3>3. \A m \in Map!Numbers : m < a => Len(s1[m]) <= 1
      <4>1. SUFFICES ASSUME NEW m \in Map!Numbers, m < a PROVE Len(s1[m]) <= 1
        OBVIOUS
      <4>2. m < b \/ m = b
        BY <1>3, <4>1, MapFacts
      <4> QED BY <1>2, <2>1, <4>2 DEF Iteration
    <3>4. Visited(s7) = {key \in Keys : In(s1, key) /\ Hash[key] < a}
      <4>1. \A key \in Keys : Hash[key] <= b <=> Hash[key] < a
        BY <1>3, MapFacts
      <4> HIDE DEF a
      <4> QED BY <2>2, <4>1
    <3> HIDE DEF a
    <3>5. Iteration(s1, s1[n][1].key, Append(s7, s1[n][1].key))
      BY <1>2, <2>2, <3>1, <3>2, <3>3, <3>4, HeadVisited
    <3>6. x = s1[n][1].key
      BY <2>1, <3>2 DEF a
    <3>7. Iteration(s1, x, Append(s7, x)) /\ x \in Keys
      BY <3>2, <3>5, <3>6
    <3>8. Append(s7, x) \in Seq(Keys)
      BY <1>2, <3>7
    <3> QED BY <1>1, <1>2, <2>4, <3>7, <3>8 DEF MapInv
  <2> QED BY <2>3, <2>4
<1> QED BY <1>4, <1>5

LEMMA MapBegun == ASSUME Map!KeysAssumption, Map!Init PROVE MapInv
<1>1. /\ s1 = NULL /\ s3 = 0 /\ s4 = [k \in Keys |-> Map!None] /\ s6 = NULL /\ s7 = << >>
  BY DEF Map!Init
<1>2. NoRepeat(<< >>) /\ << >> \in Seq(Keys)
  BY DEF NoRepeat
<1> QED BY <1>1, <1>2 DEF MapInv

LEMMA MapStays == ASSUME Map!KeysAssumption, MapInv, Map!Next PROVE MapInv'
<1>1. ASSUME NEW key \in Keys, NEW place \in Pointers, NEW value \in Values,
             Map!hashmap_set(key, place, value)
      PROVE  MapInv'
  BY <1>1, MapSetStays
<1> QED BY <1>1, MapRemoveStays, MapNewStays, MapFreeStays, MapGetStays, MapStopStays,
           MapFirstStays, MapNextStays DEF Map!Next

LEMMA MapFollows ==
  ASSUME Map!KeysAssumption, MapInv
  PROVE  Map!HoldsWhatWasSet /\ Map!BlocksAccounted /\ Map!IterationVisitsAll
<1>1. Map!HoldsWhatWasSet
  <2>1. CASE s1 = NULL
    BY <2>1 DEF MapInv, Map!HoldsWhatWasSet
  <2>2. CASE s1 # NULL
    <3>1. MapRight(s1, s4)
      BY <2>2 DEF MapInv
    <3>2. ASSUME NEW key \in Keys
          PROVE  {[value |-> Map!Chain(key)[n].value, place |-> Map!Chain(key)[n].place] :
                    n \in Map!Found(key)} = {s4[key]} \ {Map!None}
      <4> DEFINE c == s1[Hash[key]]
                 T == {[value |-> Map!Chain(key)[n].value, place |-> Map!Chain(key)[n].place] :
                         n \in Map!Found(key)}
      <4>1. /\ Map!Chain(key) = c /\ Map!Found(key) = {n \in 1 .. Len(c) : c[n].key = key}
            /\ Map!Found(key) = {} <=> s4[key] = Map!None
        BY <3>1, FoundFacts
      <4>2. ChainRight(c, Hash[key]) /\ Holds(c, key, s4[key]) /\ s4[key] \in Given
        BY <3>1, EntryFacts DEF MapRight
      <4>3. CASE s4[key] = Map!None
        BY <4>1, <4>3
      <4>4. CASE s4[key] # Map!None
        <5>1. PICK v \in Values, p \in Pointers : s4[key] = [value |-> v, place |-> p]
          BY <4>2, <4>4 DEF Given
        <5>2. PICK n \in 1 .. Len(c) : c[n] = [key |-> key, place |-> s4[key].place,
                                                value |-> s4[key].value]
          BY <4>2, <4>4 DEF Holds
        <5>3. c[n].key = key /\ c[n].value = v /\ c[n].place = p
          BY <5>1, <5>2
        <5>4. n \in Map!Found(key) /\ \A m \in Map!Found(key) : m = n
          BY <4>1, <4>2, <5>3 DEF ChainRight
        <5>5. Map!Found(key) = {n}
          BY <5>4
        <5>6. T = {[value |-> v, place |-> p]}
          BY <4>1, <5>3, <5>5
        <5> QED BY <4>4, <5>1, <5>6
      <4> QED BY <4>3, <4>4
    <3> QED BY <2>2, <3>2 DEF Map!HoldsWhatWasSet
  <2> QED BY <2>1, <2>2
<1>2. Map!BlocksAccounted
  BY MapSize DEF MapInv, BlocksRight, Map!BlocksAccounted, Map!Sum
<1>3. Map!IterationVisitsAll
  <2>1. SUFFICES ASSUME s1 # NULL, \A b \in Map!Numbers : Len(s1[b]) <= 1
        PROVE  /\ Map!Cardinality({s7[n] : n \in DOMAIN s7}) = Len(s7)
               /\ s6 # NULL /\ Map!HeadFrom(Map!After(s6)) = NULL =>
                    {s7[n] : n \in DOMAIN s7} = {key \in Keys : s4[key] # Map!None}
    BY DEF Map!IterationVisitsAll
  <2>2. MapRight(s1, s4) /\ s7 \in Seq(Keys) /\ Len(s7) \in Nat /\ DOMAIN s7 = 1 .. Len(s7)
    BY <2>1 DEF MapInv
  <2>3. ASSUME s6 # NULL
        PROVE  /\ s6 \in Keys /\ Hash[s6] \in Map!Numbers /\ Hash[s6] \in Nat /\ Ordered(s7)
               /\ Visited(s7) = {key \in Keys : In(s1, key) /\ Hash[key] <= Hash[s6]}
    <3>1. s6 \in Keys /\ Iteration(s1, s6, s7)
      BY <2>3 DEF MapInv, Iteration
    <3>2. Hash[s6] \in Map!Numbers /\ Hash[s6] \in Nat
      BY <3>1, MapFacts
    <3> QED BY <2>1, <3>1, <3>2 DEF Iteration
  <2>4. NoRepeat(s7)
    BY <2>2, <2>3, OrderedOnce DEF MapInv
  <2>5. {s7[n] : n \in DOMAIN s7} = Visited(s7)
    BY <2>2 DEF Visited
  <2>6. Cardinality(Visited(s7)) = Len(s7)
    <3>1. IsFiniteSet(1 .. Len(s7)) /\ Cardinality(1 .. Len(s7)) = Len(s7)
      <4>1. Span(1, Len(s7)) = 1 .. Len(s7)
        BY <2>2 DEF Span
      <4> QED BY <2>2, <4>1, SpanSize
    <3>2. s7 \in [1 .. Len(s7) -> Visited(s7)]
      BY <2>2 DEF Visited
    <3>3. s7 \in Bijection(1 .. Len(s7), Visited(s7))
      BY <2>4, <3>2 DEF Bijection, Injection, Surjection, IsInjective, NoRepeat, Visited
    <3>4. ExistsBijection(1 .. Len(s7), Visited(s7))
      BY <3>3 DEF ExistsBijection
    <3> QED BY <3>1, <3>4, FS_Bijection
  <2>7. ASSUME s6 # NULL, Map!HeadFrom(Map!After(s6)) = NULL
        PROVE  Visited(s7) = {key \in Keys : s4[key] # Map!None}
    <3>1. Map!After(s6) = Hash[s6] + 1 /\ Hash[s6] + 1 \in Nat
      BY <2>3, <2>7 DEF Map!After
    <3>2. \A m \in Map!Numbers : Hash[s6] + 1 <= m => Len(s1[m]) = 0
      BY <2>2, <2>7, <3>1, HeadFacts
    <3>3. ASSUME NEW key \in Keys
          PROVE  (In(s1, key) /\ Hash[key] <= Hash[s6]) <=> s4[key] # Map!None
      <4>1. In(s1, key) <=> s4[key] # Map!None
        BY <2>2, EntryFacts
      <4>2. Hash[key] \in Map!Numbers /\ Hash[key] \in Nat
        BY MapFacts
      <4>3. In(s1, key) => Len(s1[Hash[key]]) # 0
        BY DEF In
      <4>4. In(s1, key) => Hash[key] <= Hash[s6]
        BY <2>3, <2>7, <3>2, <4>2, <4>3
      <4> QED BY <4>1, <4>4
    <3> QED BY <2>3, <2>7, <3>3
  <2> QED BY <2>5, <2>6, <2>7, MapSize
<1> QED BY <1>1, <1>2, <1>3

(* The registrar's map answers with what its client set last and did not    *)
(* remove, under the client's own pointers, all its memory is accounted     *)
(* for, and an iteration that meets no chain of two buckets visits each key *)
(* once (hashmap.c), for all keys, values and hashes.                       *)
THEOREM MapCorrect == Spec => []MapHoldsWhatWasSet
<1> DEFINE Inv == part = "hashmap" => MapInv
<1>1. Init => Inv
  BY MapBegun, MapAssumption DEF Init
<1>2. Inv /\ [Next]_vars => Inv'
  <2>1. ASSUME Inv, [Next]_vars, part' = "hashmap" PROVE MapInv'
    <3>1. CASE UNCHANGED vars
      <4>1. UNCHANGED <<s1, s3, s4, s6, s7>>
        BY <3>1 DEF vars
      <4>2. part = "hashmap"
        BY <2>1, <3>1 DEF vars
      <4> QED BY <2>1, <4>1, <4>2 DEF MapInv
    <3>2. CASE Next
      <4>1. part = "hashmap" /\ Map!Next
        BY <2>1, <3>2 DEF Next
      <4> QED BY <2>1, <4>1, MapStays, MapAssumption
    <3> QED BY <2>1, <3>1, <3>2
  <2> QED BY <2>1
<1>3. Inv => MapHoldsWhatWasSet
  BY MapFollows, MapAssumption DEF MapHoldsWhatWasSet
<1> QED BY <1>1, <1>2, <1>3, PTL DEF Spec

-----------------------------------------------------------------------------
(* FxPool: client is s1, current s2, pools s3, active s4, ready s5,        *)
(* heads s6, is_allocating s7, pc s8, job s9, records s10 and live s11.    *)

FxBlock == [pool : Nat, start : Nat, size : Nat]

(* A pool's pointers are in order and two of them at the end of a page. *)
PoolRight(p) ==
    /\ p \in [current : Nat, alloc : Nat, size : Nat]
    /\ p.current <= p.alloc /\ p.alloc <= p.size
    /\ p.alloc % PAGE_SIZE = 0 /\ p.size % PAGE_SIZE = 0

PoolsRight(pools) ==
    /\ pools \in Seq([current : Nat, alloc : Nat, size : Nat])
    /\ \A k \in 1 .. Len(pools) : PoolRight(pools[k])

(* A pool none of whose blocks was given out: its first page is there. *)
Fresh(p, used) == p.current = used /\ p.alloc = PAGE_SIZE

Limit(current, pools, k) == IF k = 0 THEN current ELSE pools[k].current

Placed(current, pools, blocks) ==
    /\ blocks \subseteq FxBlock
    /\ \A a \in blocks : /\ a.pool <= Len(pools)
                         /\ a.start + a.size <= Limit(current, pools, a.pool)
    /\ \A a, b \in blocks : a # b => \/ a.pool # b.pool
                                     \/ a.start + a.size <= b.start
                                     \/ b.start + b.size <= a.start

CacheRight(heads) ==
    /\ heads \in [1 .. Fx!FXCACHE_MAX -> Seq(FxBlock)]
    /\ \A s \in 1 .. Fx!FXCACHE_MAX : \A m, n \in 1 .. Len(heads[s]) :
         heads[s][m].size = s /\ (m # n => heads[s][m] # heads[s][n])

InCache(heads, block) ==
    \E s \in 1 .. Fx!FXCACHE_MAX : \E n \in 1 .. Len(heads[s]) : heads[s][n] = block

LiveRight(heads, live) ==
    \A a \in live : a.size \in 1 .. Fx!FXCACHE_MAX /\ ~InCache(heads, a)

FxCalls == {"expand", "serve", "page_map", "create", "create_map"}
FxEnds == {"stopped", "assertion", "reentered", "out_of_bounds"}

FxJob(job) ==
    /\ job \in [size : 0 .. Fx!FXCACHE_MAX, want : {"record", "first", "again"},
                then : {"first", "again"}, zone : 0 .. SpaceSize, tokens : 0 .. 2]
    /\ job.zone % PAGE_SIZE = 0

(* Where the allocator is in a call, and what it has found out by then. A   *)
(* pool that is about to become active is fresh, and stays so until it has  *)
(* served the next pool's record and the request that waits for it.         *)
FxControl ==
    /\ s8 \in {"boot", "init_map", "idle"} \cup FxCalls \cup FxEnds
    /\ s8 \in {"boot", "init_map", "idle"} => s7 = FALSE
    /\ s8 \in FxCalls => s7 = TRUE /\ s9.size > 0
    /\ s8 \in {"boot", "init_map"} => s3 = << >> /\ (s1 => s2 = s9.tokens * TOKEN)
    /\ s8 = "boot" => s9.tokens = 0
    /\ s8 \in {"idle"} \cup FxCalls => ~(s1 /\ s3 = << >>)
    /\ s8 \in FxCalls \ {"expand"} => s4 # NULL
    /\ s8 = "serve" /\ s9.want = "record" => Fresh(s3[s4], 0)
    /\ s8 = "serve" /\ s9.want = "again" => Fresh(s3[s4], HEADER)
    /\ s8 \in {"create", "create_map"} => Fresh(s3[s4], HEADER)
    /\ s8 \in {"expand", "page_map"} => s9.want = "first"
    /\ s8 = "page_map" => /\ s3[s4].alloc < s3[s4].current + s9.size
                          /\ s3[s4].current + s9.size <= s3[s4].size
    /\ s8 \in {"init_map", "create_map"} => s9.zone > 0

FxPools ==
    /\ s4 # NULL => s4 \in 1 .. Len(s3)
    /\ s5 # NULL => s5 \in 1 .. Len(s3) /\ Fresh(s3[s5], 0) /\ s5 # s4

(* The blocks, and what holds of them and of the cache. *)
BlocksOf(heads, records, live) == live \cup records \cup {b \in FxBlock : InCache(heads, b)}

FxBlocks(current, pools, heads, records, live) ==
    /\ Placed(current, pools, BlocksOf(heads, records, live))
    /\ CacheRight(heads) /\ LiveRight(heads, live)

FxInv ==
    /\ s1 \in BOOLEAN /\ s7 \in BOOLEAN /\ s2 \in Nat /\ s2 <= INITIAL_CHUNK
    /\ PoolsRight(s3) /\ FxJob(s9)
    /\ FxPools /\ FxControl /\ FxBlocks(s2, s3, s6, s10, s11)

LEMMA FxFacts ==
  ASSUME Fx!SizesAssumption
  PROVE  /\ PAGE_SIZE \in Nat /\ PAGE_SIZE > 0 /\ FXCACHE_UNIT \in Nat /\ FXCACHE_UNIT > 0
         /\ Fx!FXCACHE_MAX \in Nat /\ Fx!FXCACHE_MAX > 0 /\ Fx!FXCACHE_MAX < PAGE_SIZE
         /\ NODE \in Nat /\ NODE > 0 /\ NODE <= PAGE_SIZE /\ HEADER \in Nat /\ HEADER > 0
         /\ HEADER + Fx!FXCACHE_MAX <= PAGE_SIZE /\ SpaceSize \in Nat
         /\ INITIAL_CHUNK \in Nat /\ TOKEN \in Nat /\ TOKEN > 0 /\ 2 * TOKEN <= INITIAL_CHUNK
         /\ Sizes \subseteq 1 .. Fx!FXCACHE_MAX
<1> DEFINE m == Fx!FXCACHE_MAX
<1>1. /\ FXCACHE_UNIT \in Nat /\ FXCACHE_UNIT > 0 /\ FXCACHE_RANGE \in Nat /\ FXCACHE_RANGE > 0
      /\ NODE \in Nat /\ NODE > 0 /\ NODE <= PAGE_SIZE /\ HEADER \in Nat /\ HEADER > 0 /\ SpaceSize \in Nat
      /\ INITIAL_CHUNK \in Nat /\ TOKEN \in Nat /\ TOKEN > 0 /\ 2 * TOKEN <= INITIAL_CHUNK
  BY DEF Fx!SizesAssumption
<1>2. m \in Nat /\ m > 0
  <2> DEFINE a == FXCACHE_RANGE
             c == FXCACHE_UNIT
  <2>1. a \in Nat /\ c \in Nat /\ a >= 1 /\ c >= 1 /\ m = a * c
    BY <1>1 DEF Fx!FXCACHE_MAX
  <2> HIDE DEF a, c, m
  <2>2. a * c \in Nat /\ 1 * 1 <= a * c
    BY <2>1
  <2> QED BY <2>1, <2>2
<1>3. PAGE_SIZE = 2 * m /\ HEADER + m <= PAGE_SIZE /\ Sizes \subseteq 1 .. m
  BY DEF Fx!SizesAssumption
<1> HIDE DEF m
<1>4. PAGE_SIZE \in Nat /\ PAGE_SIZE > 0 /\ m < PAGE_SIZE
  BY <1>2, <1>3
<1> QED BY <1>1, <1>2, <1>3, <1>4 DEF m

(* round_size: up to the next unit, and no further than the largest size. *)
LEMMA RoundedFacts ==
  ASSUME Fx!SizesAssumption, NEW size \in 1 .. Fx!FXCACHE_MAX
  PROVE  Fx!Rounded(size) \in 1 .. Fx!FXCACHE_MAX
<1> DEFINE u == FXCACHE_UNIT
           n == FXCACHE_RANGE
           q == (size + u - 1) \div u
           e == (size + u - 1) % u
<1>1. u \in Nat /\ u >= 1 /\ n \in Nat /\ n >= 1
  BY DEF Fx!SizesAssumption
<1>2. size \in Nat /\ size >= 1 /\ size <= n * u /\ Fx!FXCACHE_MAX = n * u
  BY FxFacts DEF Fx!FXCACHE_MAX
<1>3. Fx!Rounded(size) = q * u
  BY DEF Fx!Rounded
<1>4. q \in Int /\ e \in 0 .. u - 1 /\ size + u - 1 = u * q + e
  <2> DEFINE v == size + u - 1
  <2>1. v \in Int
    BY <1>1, <1>2
  <2> HIDE DEF v
  <2>2. v \div u \in Int /\ (v % u) \in 0 .. u - 1 /\ v = u * (v \div u) + (v % u)
    BY <1>1, <2>1
  <2> QED BY <2>2 DEF v
<1> HIDE DEF u, n, q, e
<1>5. u * q = q * u /\ n * u \in Int /\ q * u \in Int
  BY <1>1, <1>4
<1>6. q >= 1
  <2>1. SUFFICES ASSUME q <= 0 PROVE FALSE
    BY <1>4
  <2>2. q * u <= 0
    BY <1>1, <1>4, <2>1
  <2> QED BY <1>1, <1>2, <1>4, <1>5, <2>2
<1>7. q <= n
  <2>1. SUFFICES ASSUME q >= n + 1 PROVE FALSE
    BY <1>1, <1>4
  <2>2. (n + 1) * u <= q * u
    BY <1>1, <1>4, <2>1
  <2>3. (n + 1) * u = n * u + u
    BY <1>1
  <2>4. q * u <= n * u + u - 1
    BY <1>1, <1>2, <1>4, <1>5
  <2> QED BY <1>1, <1>5, <2>2, <2>3, <2>4
<1>8. 1 <= q * u
  <2>1. 1 * 1 <= q * u
    BY <1>1, <1>4, <1>6
  <2> QED BY <2>1
<1>9. q * u <= n * u
  BY <1>1, <1>4, <1>7
<1> QED BY <1>2, <1>3, <1>5, <1>8, <1>9

(* Page arithmetic: before the end of a pool there is a whole page. *)
LEMMA PageMore ==
  ASSUME Fx!SizesAssumption, NEW a \in Nat, NEW b \in Nat, a % PAGE_SIZE = 0, b % PAGE_SIZE = 0, a < b
  PROVE  a + PAGE_SIZE <= b /\ (a + PAGE_SIZE) % PAGE_SIZE = 0
<1> DEFINE p == PAGE_SIZE
           j == a \div p
           k == b \div p
<1>1. p \in Nat /\ p > 0
  BY FxFacts
<1>2. j \in Int /\ k \in Int /\ a = p * j /\ b = p * k
  BY <1>1
<1>3. (a + p) % p = 0
  BY <1>1
<1> HIDE DEF j, k, p
<1>4. j < k
  <2>1. SUFFICES ASSUME k <= j PROVE FALSE
    BY <1>2
  <2>2. p * k <= p * j
    BY <1>1, <1>2, <2>1
  <2>3. p * k \in Int /\ p * j \in Int
    BY <1>1, <1>2
  <2> QED BY <1>2, <2>2, <2>3
<1>5. p * (j + 1) <= p * k
  BY <1>1, <1>2, <1>4
<1>6. p * (j + 1) = p * j + p
  BY <1>1, <1>2
<1>7. a + p <= b
  BY <1>1, <1>2, <1>5, <1>6
<1> QED BY <1>3, <1>7 DEF p

(* Pools and the fixed pool's pointer move up only. *)
Grown(current, pools, now, poolsNow) ==
    /\ current \in Nat /\ now \in Nat /\ current <= now
    /\ PoolsRight(pools) /\ PoolsRight(poolsNow) /\ Len(pools) <= Len(poolsNow)
    /\ \A k \in 1 .. Len(pools) : pools[k].current <= poolsNow[k].current

LEMMA PoolNumbers ==
  ASSUME NEW pools, PoolsRight(pools)
  PROVE  /\ Len(pools) \in Nat
         /\ \A k \in 1 .. Len(pools) :
              /\ pools[k] \in [current : Nat, alloc : Nat, size : Nat] /\ PoolRight(pools[k])
              /\ pools[k].current \in Nat /\ pools[k].alloc \in Nat /\ pools[k].size \in Nat
<1> DEFINE R == [current : Nat, alloc : Nat, size : Nat]
<1>1. pools \in Seq(R) /\ \A k \in 1 .. Len(pools) : PoolRight(pools[k])
  BY DEF PoolsRight
<1>2. \A p \in R : p.current \in Nat /\ p.alloc \in Nat /\ p.size \in Nat
  OBVIOUS
<1> HIDE DEF R
<1>3. Len(pools) \in Nat /\ \A k \in 1 .. Len(pools) : pools[k] \in R
  BY <1>1
<1> QED BY <1>1, <1>2, <1>3 DEF R

LEMMA LimitGrown ==
  ASSUME NEW current, NEW pools, NEW now, NEW poolsNow, Grown(current, pools, now, poolsNow),
         NEW k \in Nat, k <= Len(pools)
  PROVE  /\ k <= Len(poolsNow) /\ Limit(current, pools, k) <= Limit(now, poolsNow, k)
         /\ Limit(current, pools, k) \in Nat /\ Limit(now, poolsNow, k) \in Nat
<1>1. /\ Len(pools) \in Nat /\ Len(poolsNow) \in Nat /\ Len(pools) <= Len(poolsNow)
      /\ \A n \in 1 .. Len(pools) : pools[n].current \in Nat /\ pools[n].current <= poolsNow[n].current
      /\ \A n \in 1 .. Len(poolsNow) : poolsNow[n].current \in Nat
  <2>1. PoolsRight(pools) /\ PoolsRight(poolsNow)
    BY DEF Grown
  <2> QED BY <2>1, PoolNumbers DEF Grown
<1>2. CASE k = 0
  BY <1>1, <1>2 DEF Limit, Grown
<1>3. CASE k # 0
  <2>1. k \in 1 .. Len(pools) /\ k \in 1 .. Len(poolsNow)
    BY <1>1, <1>3
  <2> QED BY <1>1, <1>3, <2>1 DEF Limit
<1> QED BY <1>2, <1>3

(* Blocks stay where they are, and may be forgotten. *)
LEMMA BlocksKept ==
  ASSUME NEW current, NEW pools, NEW now, NEW poolsNow, Grown(current, pools, now, poolsNow),
         NEW blocks, Placed(current, pools, blocks), NEW kept \in SUBSET blocks
  PROVE  Placed(now, poolsNow, kept)
<1>1. ASSUME NEW a \in kept
      PROVE  a.pool <= Len(poolsNow) /\ a.start + a.size <= Limit(now, poolsNow, a.pool)
  <2>1. a \in FxBlock /\ a.pool <= Len(pools) /\ a.start + a.size <= Limit(current, pools, a.pool)
    BY DEF Placed
  <2>2. a.pool \in Nat /\ a.start \in Nat /\ a.size \in Nat
    BY <2>1 DEF FxBlock
  <2>3. /\ a.pool <= Len(poolsNow)
        /\ Limit(current, pools, a.pool) <= Limit(now, poolsNow, a.pool)
        /\ Limit(current, pools, a.pool) \in Nat /\ Limit(now, poolsNow, a.pool) \in Nat
    BY <2>1, <2>2, LimitGrown
  <2> QED BY <2>1, <2>2, <2>3
<1> QED BY <1>1 DEF Placed

(* A new block is cut off where the one before it ended. *)
NewBlock(x, current, pools, now, poolsNow) ==
    /\ x \in FxBlock /\ x.size > 0 /\ x.pool <= Len(pools)
    /\ Limit(current, pools, x.pool) <= x.start
    /\ x.start + x.size <= Limit(now, poolsNow, x.pool)

LEMMA BlockAdded ==
  ASSUME NEW current, NEW pools, NEW now, NEW poolsNow, Grown(current, pools, now, poolsNow),
         NEW blocks, Placed(current, pools, blocks), NEW x, NewBlock(x, current, pools, now, poolsNow)
  PROVE  Placed(now, poolsNow, blocks \cup {x}) /\ x \notin blocks
<1>1. Placed(now, poolsNow, blocks)
  BY BlocksKept
<1>2. /\ x \in FxBlock /\ x.pool \in Nat /\ x.start \in Nat /\ x.size \in Nat /\ x.size > 0
      /\ x.pool <= Len(pools) /\ Limit(current, pools, x.pool) <= x.start
      /\ x.start + x.size <= Limit(now, poolsNow, x.pool)
  BY DEF NewBlock, FxBlock
<1>3. x.pool <= Len(poolsNow) /\ Limit(current, pools, x.pool) \in Nat
  BY <1>2, LimitGrown
<1>4. ASSUME NEW a \in blocks PROVE a.pool # x.pool \/ a.start + a.size <= x.start
  <2>1. SUFFICES ASSUME a.pool = x.pool PROVE a.start + a.size <= x.start
    OBVIOUS
  <2>2. a \in FxBlock /\ a.start + a.size <= Limit(current, pools, x.pool)
    BY <2>1 DEF Placed
  <2>3. a.start \in Nat /\ a.size \in Nat
    BY <2>2 DEF FxBlock
  <2> QED BY <1>2, <1>3, <2>2, <2>3
<1>5. x \notin blocks
  BY <1>2, <1>4
<1>6. Placed(now, poolsNow, blocks \cup {x})
  <2>1. ASSUME NEW a \in blocks \cup {x}
        PROVE  a.pool <= Len(poolsNow) /\ a.start + a.size <= Limit(now, poolsNow, a.pool)
    BY <1>1, <1>2, <1>3 DEF Placed
  <2>2. ASSUME NEW a \in blocks \cup {x}, NEW b \in blocks \cup {x}, a # b
        PROVE  a.pool # b.pool \/ a.start + a.size <= b.start \/ b.start + b.size <= a.start
    <3>1. CASE a \in blocks /\ b \in blocks
      BY <1>1, <2>2, <3>1 DEF Placed
    <3>2. CASE a = x \/ b = x
      BY <1>4, <2>2, <3>2
    <3> QED BY <3>1, <3>2
  <2>3. blocks \cup {x} \subseteq FxBlock
    BY <1>1, <1>2 DEF Placed
  <2> QED BY <2>1, <2>2, <2>3 DEF Placed
<1> QED BY <1>5, <1>6

(* The steps of the blocks: none changes hands; a new one is given to a     *)
(* caller, or to the allocator itself; one comes from the cache, or goes    *)
(* back to it.                                                              *)
LEMMA BlocksIdle ==
  ASSUME NEW c, NEW p, NEW h, NEW r, NEW l, FxBlocks(c, p, h, r, l),
         NEW c2, NEW p2, Grown(c, p, c2, p2)
  PROVE  FxBlocks(c2, p2, h, r, l)
  BY BlocksKept DEF FxBlocks

LEMMA BlocksGiven ==
  ASSUME NEW c, NEW p, NEW h, NEW r, NEW l, FxBlocks(c, p, h, r, l),
         NEW c2, NEW p2, Grown(c, p, c2, p2), NEW x, NewBlock(x, c, p, c2, p2),
         x.size <= Fx!FXCACHE_MAX, Fx!FXCACHE_MAX \in Nat
  PROVE  FxBlocks(c2, p2, h, r, l \cup {x}) /\ FxBlocks(c2, p2, h, r, l)
<1> DEFINE B == BlocksOf(h, r, l)
<1>1. Placed(c, p, B) /\ CacheRight(h) /\ LiveRight(h, l)
  BY DEF FxBlocks
<1> HIDE DEF B
<1>2. Placed(c2, p2, B \cup {x}) /\ x \notin B
  BY <1>1, BlockAdded
<1>3. x \in FxBlock /\ x.size \in 1 .. Fx!FXCACHE_MAX
  BY DEF NewBlock, FxBlock
<1>4. ~InCache(h, x)
  BY <1>2, <1>3 DEF B, BlocksOf
<1>5. BlocksOf(h, r, l \cup {x}) = B \cup {x}
  BY DEF B, BlocksOf
<1>6. LiveRight(h, l \cup {x})
  BY <1>1, <1>3, <1>4 DEF LiveRight
<1> QED BY <1>1, <1>2, <1>5, <1>6, BlocksIdle DEF FxBlocks

LEMMA BlocksRecorded ==
  ASSUME NEW c, NEW p, NEW h, NEW r, NEW l, FxBlocks(c, p, h, r, l),
         NEW c2, NEW p2, Grown(c, p, c2, p2), NEW x, NewBlock(x, c, p, c2, p2)
  PROVE  FxBlocks(c2, p2, h, r \cup {x}, l)
<1> DEFINE B == BlocksOf(h, r, l)
<1>1. Placed(c, p, B) /\ CacheRight(h) /\ LiveRight(h, l)
  BY DEF FxBlocks
<1> HIDE DEF B
<1>2. Placed(c2, p2, B \cup {x})
  BY <1>1, BlockAdded
<1>3. BlocksOf(h, r \cup {x}, l) = B \cup {x}
  BY DEF B, BlocksOf
<1> QED BY <1>1, <1>2, <1>3 DEF FxBlocks

LEMMA CachePopped ==
  ASSUME NEW h, CacheRight(h), NEW s \in 1 .. Fx!FXCACHE_MAX, h[s] # << >>
  PROVE  LET q == [h EXCEPT ![s] = Tail(h[s])]
             x == Head(h[s])
         IN  /\ CacheRight(q) /\ x \in FxBlock /\ x.size = s /\ InCache(h, x)
             /\ \A b : InCache(q, b) <=> InCache(h, b) /\ b # x
<1> DEFINE c == h[s]
           t == Tail(c)
           x == Head(c)
           q == [h EXCEPT ![s] = t]
<1>1. h \in [1 .. Fx!FXCACHE_MAX -> Seq(FxBlock)] /\ c \in Seq(FxBlock) /\ c # << >>
  BY DEF CacheRight
<1>2. \A m, n \in 1 .. Len(c) : c[m].size = s /\ (m # n => c[m] # c[n])
  BY DEF CacheRight
<1> HIDE DEF c
<1>3. /\ Len(c) \in Nat /\ Len(c) >= 1 /\ x = c[1] /\ x \in FxBlock /\ 1 \in 1 .. Len(c)
      /\ t \in Seq(FxBlock) /\ Len(t) = Len(c) - 1
      /\ \A n \in 1 .. Len(c) - 1 : t[n] = c[n + 1] /\ n + 1 \in 1 .. Len(c) /\ n + 1 # 1
  BY <1>1
<1> HIDE DEF t, x
<1>4. /\ q \in [1 .. Fx!FXCACHE_MAX -> Seq(FxBlock)] /\ q[s] = t
      /\ \A k \in 1 .. Fx!FXCACHE_MAX : k # s => q[k] = h[k]
  BY <1>1, <1>3
<1> HIDE DEF q
<1>5. ASSUME NEW m \in 1 .. Len(t), NEW n \in 1 .. Len(t)
      PROVE  t[m].size = s /\ (m # n => t[m] # t[n])
  <2>1. /\ t[m] = c[m + 1] /\ m + 1 \in 1 .. Len(c) /\ t[n] = c[n + 1] /\ n + 1 \in 1 .. Len(c)
        /\ m # n => m + 1 # n + 1
    BY <1>3
  <2> QED BY <1>2, <2>1
<1>6. CacheRight(q)
  BY <1>4, <1>5 DEF CacheRight
<1>7. x.size = s
  BY <1>2, <1>3
<1>8. InCache(h, x)
  BY <1>3 DEF InCache, c
<1>9. ASSUME NEW b, InCache(q, b) PROVE InCache(h, b) /\ b # x
  <2>a. PICK k \in 1 .. Fx!FXCACHE_MAX : \E n \in 1 .. Len(q[k]) : q[k][n] = b
    BY <1>9 DEF InCache
  <2>1. PICK n \in 1 .. Len(q[k]) : q[k][n] = b
    BY <2>a
  <2>2. CASE k = s
    <3>1. n \in 1 .. Len(c) - 1 /\ t[n] = b
      BY <1>3, <1>4, <2>1, <2>2
    <3>2. b = c[n + 1] /\ n + 1 \in 1 .. Len(c) /\ n + 1 # 1
      BY <1>3, <3>1
    <3>3. c[n + 1] # c[1]
      BY <1>2, <1>3, <3>2
    <3>4. \E j \in 1 .. Len(h[s]) : h[s][j] = b
      BY <3>2 DEF c
    <3> QED BY <1>3, <3>2, <3>3, <3>4 DEF InCache
  <2>3. CASE k # s
    <3>1. q[k] = h[k]
      BY <1>4, <2>3
    <3>2. b.size = k
      BY <2>1, <3>1 DEF CacheRight
    <3> QED BY <1>7, <2>1, <2>3, <3>1, <3>2 DEF InCache
  <2> QED BY <2>2, <2>3
<1>10. ASSUME NEW b, InCache(h, b), b # x PROVE InCache(q, b)
  <2>a. PICK k \in 1 .. Fx!FXCACHE_MAX : \E n \in 1 .. Len(h[k]) : h[k][n] = b
    BY <1>10 DEF InCache
  <2>1. PICK n \in 1 .. Len(h[k]) : h[k][n] = b
    BY <2>a
  <2>2. CASE k = s
    <3>1. n \in 1 .. Len(c) /\ c[n] = b /\ n # 1
      BY <1>3, <1>10, <2>1, <2>2 DEF c
    <3>2. n - 1 \in 1 .. Len(c) - 1 /\ (n - 1) + 1 = n
      BY <1>3, <3>1
    <3>3. t[n - 1] = b /\ n - 1 \in 1 .. Len(t)
      BY <1>3, <3>1, <3>2
    <3> QED BY <1>4, <3>3 DEF InCache
  <2>3. CASE k # s
    <3>1. q[k] = h[k]
      BY <1>4, <2>3
    <3> QED BY <2>1, <3>1 DEF InCache
  <2> QED BY <2>2, <2>3
<1> QED BY <1>3, <1>6, <1>7, <1>8, <1>9, <1>10 DEF q, t, x, c

LEMMA CachePushed ==
  ASSUME NEW h, CacheRight(h), NEW x \in FxBlock, x.size \in 1 .. Fx!FXCACHE_MAX, ~InCache(h, x)
  PROVE  LET q == [h EXCEPT ![x.size] = <<x>> \o h[x.size]]
         IN  CacheRight(q) /\ \A b : InCache(q, b) <=> InCache(h, b) \/ b = x
<1> DEFINE s == x.size
           c == h[s]
           t == <<x>> \o c
           q == [h EXCEPT ![s] = t]
<1>1. h \in [1 .. Fx!FXCACHE_MAX -> Seq(FxBlock)] /\ c \in Seq(FxBlock) /\ s \in 1 .. Fx!FXCACHE_MAX
  BY DEF CacheRight
<1>2. \A m, n \in 1 .. Len(c) : c[m].size = s /\ (m # n => c[m] # c[n])
  BY DEF CacheRight
<1>3. \A n \in 1 .. Len(c) : c[n] # x
  BY <1>1 DEF InCache
<1> HIDE DEF s, c
<1>4. /\ Len(c) \in Nat /\ t \in Seq(FxBlock) /\ Len(t) = Len(c) + 1 /\ t[1] = x /\ 1 \in 1 .. Len(t)
      /\ \A n \in 1 .. Len(c) : t[n + 1] = c[n] /\ n + 1 \in 1 .. Len(t)
  BY <1>1
<1> HIDE DEF t
<1>5. ASSUME NEW n \in 1 .. Len(t), n # 1 PROVE n - 1 \in 1 .. Len(c) /\ t[n] = c[n - 1]
  <2>1. n - 1 \in 1 .. Len(c) /\ (n - 1) + 1 = n
    BY <1>4, <1>5
  <2> QED BY <1>4, <2>1
<1>6. /\ q \in [1 .. Fx!FXCACHE_MAX -> Seq(FxBlock)] /\ q[s] = t
      /\ \A k \in 1 .. Fx!FXCACHE_MAX : k # s => q[k] = h[k]
  BY <1>1, <1>4
<1> HIDE DEF q
<1>7. ASSUME NEW m \in 1 .. Len(t), NEW n \in 1 .. Len(t)
      PROVE  t[m].size = s /\ (m # n => t[m] # t[n])
  <2>1. CASE m = 1
    BY <1>3, <1>4, <1>5, <2>1 DEF s
  <2>2. CASE m # 1 /\ n = 1
    BY <1>2, <1>3, <1>4, <1>5, <2>2
  <2>3. CASE m # 1 /\ n # 1
    <3>1. /\ m - 1 \in 1 .. Len(c) /\ t[m] = c[m - 1] /\ n - 1 \in 1 .. Len(c) /\ t[n] = c[n - 1]
          /\ m # n => m - 1 # n - 1
      BY <1>5, <2>3
    <3> QED BY <1>2, <3>1
  <2> QED BY <2>1, <2>2, <2>3
<1>8. CacheRight(q)
  BY <1>6, <1>7 DEF CacheRight
<1>9. ASSUME NEW b, InCache(q, b) PROVE InCache(h, b) \/ b = x
  <2>a. PICK k \in 1 .. Fx!FXCACHE_MAX : \E n \in 1 .. Len(q[k]) : q[k][n] = b
    BY <1>9 DEF InCache
  <2>1. PICK n \in 1 .. Len(q[k]) : q[k][n] = b
    BY <2>a
  <2>2. CASE k = s
    <3>1. n \in 1 .. Len(t) /\ t[n] = b
      BY <1>6, <2>1, <2>2
    <3>2. CASE n = 1
      BY <1>4, <3>1, <3>2
    <3>3. CASE n # 1
      <4>1. n - 1 \in 1 .. Len(h[s]) /\ h[s][n - 1] = b
        BY <1>5, <3>1, <3>3 DEF c
      <4> QED BY <1>1, <4>1 DEF InCache
    <3> QED BY <3>2, <3>3
  <2>3. CASE k # s
    <3>1. q[k] = h[k]
      BY <1>6, <2>3
    <3> QED BY <2>1, <3>1 DEF InCache
  <2> QED BY <2>2, <2>3
<1>10. InCache(q, x)
  BY <1>1, <1>4, <1>6 DEF InCache
<1>11. ASSUME NEW b, InCache(h, b) PROVE InCache(q, b)
  <2>a. PICK k \in 1 .. Fx!FXCACHE_MAX : \E n \in 1 .. Len(h[k]) : h[k][n] = b
    BY <1>11 DEF InCache
  <2>1. PICK n \in 1 .. Len(h[k]) : h[k][n] = b
    BY <2>a
  <2>2. CASE k = s
    <3>1. n \in 1 .. Len(c) /\ c[n] = b
      BY <2>1, <2>2 DEF c
    <3>2. t[n + 1] = b /\ n + 1 \in 1 .. Len(t)
      BY <1>4, <3>1
    <3> QED BY <1>1, <1>6, <3>2 DEF InCache
  <2>3. CASE k # s
    <3>1. q[k] = h[k]
      BY <1>6, <2>3
    <3> QED BY <2>1, <3>1 DEF InCache
  <2> QED BY <2>2, <2>3
<1> QED BY <1>8, <1>9, <1>10, <1>11 DEF q, t, s, c

LEMMA BlocksFromCache ==
  ASSUME NEW c, NEW p, NEW h, NEW r, NEW l, FxBlocks(c, p, h, r, l), Grown(c, p, c, p),
         NEW s \in 1 .. Fx!FXCACHE_MAX, h[s] # << >>
  PROVE  LET q == [h EXCEPT ![s] = Tail(h[s])]
         IN  FxBlocks(c, p, q, r, l \cup {Head(h[s])}) /\ FxBlocks(c, p, q, r, l)
<1> DEFINE q == [h EXCEPT ![s] = Tail(h[s])]
           x == Head(h[s])
           B == BlocksOf(h, r, l)
<1>1. Placed(c, p, B) /\ CacheRight(h) /\ LiveRight(h, l)
  BY DEF FxBlocks
<1>2. /\ CacheRight(q) /\ x \in FxBlock /\ x.size = s /\ InCache(h, x)
      /\ \A b : InCache(q, b) <=> InCache(h, b) /\ b # x
  BY <1>1, CachePopped
<1> HIDE DEF q, x
<1>3. BlocksOf(q, r, l \cup {x}) \in SUBSET B /\ BlocksOf(q, r, l) \in SUBSET B
  BY <1>2 DEF BlocksOf
<1> HIDE DEF B
<1>4. Placed(c, p, BlocksOf(q, r, l \cup {x})) /\ Placed(c, p, BlocksOf(q, r, l))
  <2>1. Placed(c, p, B)
    BY <1>1
  <2>2. ASSUME NEW kept \in SUBSET B PROVE Placed(c, p, kept)
    BY <2>1, BlocksKept
  <2> QED BY <1>3, <2>2
<1>5. LiveRight(q, l \cup {x}) /\ LiveRight(q, l)
  BY <1>1, <1>2 DEF LiveRight
<1> QED BY <1>2, <1>4, <1>5 DEF FxBlocks, q, x

LEMMA BlocksFreed ==
  ASSUME NEW c, NEW p, NEW h, NEW r, NEW l, FxBlocks(c, p, h, r, l), Grown(c, p, c, p), NEW x \in l
  PROVE  FxBlocks(c, p, [h EXCEPT ![x.size] = <<x>> \o h[x.size]], r, l \ {x})
<1> DEFINE q == [h EXCEPT ![x.size] = <<x>> \o h[x.size]]
           B == BlocksOf(h, r, l)
<1>1. Placed(c, p, B) /\ CacheRight(h) /\ LiveRight(h, l)
  BY DEF FxBlocks
<1>2. x \in FxBlock /\ x.size \in 1 .. Fx!FXCACHE_MAX /\ ~InCache(h, x)
  BY <1>1 DEF Placed, LiveRight, BlocksOf
<1>3. CacheRight(q) /\ \A b : InCache(q, b) <=> InCache(h, b) \/ b = x
  BY <1>1, <1>2, CachePushed
<1> HIDE DEF q
<1>4. BlocksOf(q, r, l \ {x}) \in SUBSET B
  BY <1>2, <1>3 DEF BlocksOf
<1> HIDE DEF B
<1>5. Placed(c, p, BlocksOf(q, r, l \ {x}))
  BY <1>1, <1>4, BlocksKept
<1>6. LiveRight(q, l \ {x})
  BY <1>1, <1>3 DEF LiveRight
<1> QED BY <1>3, <1>5, <1>6 DEF FxBlocks, q

LEMMA GrownSame ==
  ASSUME NEW c \in Nat, NEW p, PoolsRight(p), NEW now \in Nat, c <= now
  PROVE  Grown(c, p, now, p)
<1>1. Len(p) \in Nat /\ \A k \in 1 .. Len(p) : p[k].current \in Nat
  BY PoolNumbers
<1> QED BY <1>1 DEF Grown

(* One pool's pointers move, or a pool is added. *)
LEMMA PoolChanged ==
  ASSUME NEW c \in Nat, NEW p, PoolsRight(p), NEW k \in 1 .. Len(p), NEW z, PoolRight(z),
         p[k].current <= z.current
  PROVE  LET q == [p EXCEPT ![k] = z]
         IN  /\ PoolsRight(q) /\ Grown(c, p, c, q) /\ Len(q) = Len(p) /\ q[k] = z
             /\ \A j \in 1 .. Len(p) : j # k => q[j] = p[j]
<1> DEFINE R == [current : Nat, alloc : Nat, size : Nat]
           q == [p EXCEPT ![k] = z]
<1>1. p \in Seq(R) /\ z \in R
  BY DEF PoolsRight, PoolRight
<1>2. Len(p) \in Nat /\ \A j \in 1 .. Len(p) : PoolRight(p[j]) /\ p[j].current \in Nat
  BY PoolNumbers
<1> HIDE DEF R
<1>3. /\ q \in Seq(R) /\ Len(q) = Len(p) /\ q[k] = z
      /\ \A j \in 1 .. Len(p) : j # k => q[j] = p[j]
  BY <1>1, SeqChanged
<1> HIDE DEF q
<1>4. \A j \in 1 .. Len(q) : PoolRight(q[j])
  BY <1>2, <1>3
<1>5. PoolsRight(q)
  BY <1>3, <1>4 DEF PoolsRight, R
<1>6. \A j \in 1 .. Len(p) : p[j].current <= q[j].current
  <2>1. SUFFICES ASSUME NEW j \in 1 .. Len(p) PROVE p[j].current <= q[j].current
    OBVIOUS
  <2>2. CASE j = k
    BY <1>3, <2>2
  <2>3. CASE j # k
    BY <1>2, <1>3, <2>3
  <2> QED BY <2>2, <2>3
<1>7. Grown(c, p, c, q)
  BY <1>2, <1>3, <1>5, <1>6 DEF Grown
<1> QED BY <1>3, <1>5, <1>7 DEF q

LEMMA PoolAdded ==
  ASSUME NEW c \in Nat, NEW p, PoolsRight(p), NEW z, PoolRight(z)
  PROVE  LET q == Append(p, z)
         IN  /\ PoolsRight(q) /\ Grown(c, p, c, q) /\ Len(q) = Len(p) + 1 /\ q[Len(p) + 1] = z
             /\ \A j \in 1 .. Len(p) : q[j] = p[j]
<1> DEFINE R == [current : Nat, alloc : Nat, size : Nat]
           q == Append(p, z)
<1>1. p \in Seq(R) /\ z \in R
  BY DEF PoolsRight, PoolRight
<1>2. Len(p) \in Nat /\ \A j \in 1 .. Len(p) : PoolRight(p[j]) /\ p[j].current \in Nat
  BY PoolNumbers
<1> HIDE DEF R
<1>3. /\ q \in Seq(R) /\ Len(q) = Len(p) + 1 /\ q[Len(p) + 1] = z
      /\ \A j \in 1 .. Len(p) : q[j] = p[j]
  BY <1>1, AppendProperties
<1> HIDE DEF q
<1>4. \A j \in 1 .. Len(q) : PoolRight(q[j])
  <2>1. SUFFICES ASSUME NEW j \in 1 .. Len(q) PROVE PoolRight(q[j])
    OBVIOUS
  <2>2. j \in 1 .. Len(p) \/ j = Len(p) + 1
    BY <1>2, <1>3
  <2> QED BY <1>2, <1>3, <2>2
<1>5. PoolsRight(q)
  BY <1>3, <1>4 DEF PoolsRight, R
<1>6. \A j \in 1 .. Len(p) : p[j].current <= q[j].current
  BY <1>2, <1>3
<1>7. Grown(c, p, c, q)
  BY <1>2, <1>3, <1>5, <1>6 DEF Grown
<1> QED BY <1>3, <1>5, <1>7 DEF q

(* The first page of a pool that was just made. *)
LEMMA NewPoolRight ==
  ASSUME Fx!SizesAssumption, s9.zone \in Nat, s9.zone > 0, s9.zone % PAGE_SIZE = 0
  PROVE  PoolRight(Fx!NewPool) /\ Fresh(Fx!NewPool, 0)
<1> DEFINE z == s9.zone
<1>1. PAGE_SIZE \in Nat /\ PAGE_SIZE > 0
  BY FxFacts
<1>2. 0 % PAGE_SIZE = 0 /\ PAGE_SIZE % PAGE_SIZE = 0
  BY <1>1
<1>3. 0 + PAGE_SIZE <= z
  <2> HIDE DEF z
  <2>1. z \in Nat /\ z > 0 /\ z % PAGE_SIZE = 0
    BY DEF z
  <2> QED BY <1>2, <2>1, PageMore
<1>4. PAGE_SIZE <= z
  BY <1>1, <1>3
<1>5. Fx!NewPool = [current |-> 0, alloc |-> PAGE_SIZE, size |-> z]
  BY DEF Fx!NewPool, Fx!MappedAtFirst
<1> HIDE DEF z
<1>6. z \in Nat /\ z % PAGE_SIZE = 0
  BY DEF z
<1> QED BY <1>1, <1>2, <1>4, <1>5, <1>6 DEF PoolRight, Fresh

LEMMA NoJobRight ==
  ASSUME Fx!SizesAssumption
  PROVE  /\ FxJob(Fx!NoJob) /\ Fx!NoJob.tokens = 0 /\ Fx!NoJob.want = "first"
         /\ \A s \in 1 .. Fx!FXCACHE_MAX :
              LET job == [Fx!NoJob EXCEPT !.size = s]
              IN  FxJob(job) /\ job.size = s /\ job.want = "first"
         /\ \A s \in 0 .. SpaceSize : s % PAGE_SIZE = 0 =>
              LET job == [Fx!NoJob EXCEPT !.zone = s]
              IN  FxJob(job) /\ job.zone = s /\ job.tokens = 0
<1>1. PAGE_SIZE \in Nat /\ PAGE_SIZE > 0 /\ Fx!FXCACHE_MAX \in Nat /\ SpaceSize \in Nat
  BY FxFacts
<1>2. 0 % PAGE_SIZE = 0
  BY <1>1
<1> QED BY <1>1, <1>2 DEF FxJob, Fx!NoJob

(* What a step has to show of FxControl, by the place that it goes to. *)
LEMMA ControlDone ==
  ASSUME Fx!SizesAssumption, Fx!Done, s3' = << >> <=> s3 = << >>, s3 = << >> => ~s1'
  PROVE  FxControl' /\ FxJob(s9') /\ s7' = FALSE
<1>1. s9' = Fx!NoJob /\ s7' = FALSE /\ s8' = IF s3 = << >> THEN "boot" ELSE "idle"
  BY DEF Fx!Done
<1>2. s9'.tokens = 0 /\ FxJob(s9')
  BY <1>1, NoJobRight
<1>3. CASE s3 = << >>
  BY <1>1, <1>2, <1>3, FxFacts DEF FxControl, FxCalls, FxEnds
<1>4. CASE s3 # << >>
  BY <1>1, <1>2, <1>4 DEF FxControl, FxCalls, FxEnds
<1> QED BY <1>1, <1>2, <1>3, <1>4

LEMMA ControlEnded ==
  ASSUME s8' \in FxEnds
  PROVE  FxControl'
BY DEF FxControl, FxCalls, FxEnds

LEMMA ControlServe ==
  ASSUME s8' = "serve", s7' = TRUE, s9'.size > 0, s4' # NULL, s3' # << >>,
         s9'.want = "record" => Fresh(s3'[s4'], 0),
         s9'.want = "again" => Fresh(s3'[s4'], HEADER)
  PROVE  FxControl'
BY DEF FxControl, FxCalls, FxEnds

LEMMA ControlExpand ==
  ASSUME s8' = "expand", s7' = TRUE, s9'.size > 0, ~(s1' /\ s3' = << >>), s9'.want = "first"
  PROVE  FxControl'
BY DEF FxControl, FxCalls, FxEnds

LEMMA ControlPageMap ==
  ASSUME s8' = "page_map", s7' = TRUE, s9'.size > 0, s4' # NULL, s3' # << >>, s9'.want = "first",
         s3'[s4'].alloc < s3'[s4'].current + s9'.size, s3'[s4'].current + s9'.size <= s3'[s4'].size
  PROVE  FxControl'
BY DEF FxControl, FxCalls, FxEnds

LEMMA ControlCreate ==
  ASSUME s8' \in {"create", "create_map"}, s7' = TRUE, s9'.size > 0, s4' # NULL, s3' # << >>,
         Fresh(s3'[s4'], HEADER), s8' = "create_map" => s9'.zone > 0
  PROVE  FxControl'
BY DEF FxControl, FxCalls, FxEnds

LEMMA ControlInitMap ==
  ASSUME s8' = "init_map", s7' = FALSE, s3' = << >>, s1' => s2' = s9'.tokens * TOKEN, s9'.zone > 0
  PROVE  FxControl'
BY DEF FxControl, FxCalls, FxEnds

(* What is known of a call in progress. *)
LEMMA InCall ==
  ASSUME Fx!SizesAssumption, FxInv, s8 \in FxCalls
  PROVE  /\ s7 = TRUE /\ s9.size \in 1 .. Fx!FXCACHE_MAX
         /\ s9.want \in {"record", "first", "again"} /\ s9.then \in {"first", "again"}
         /\ s9.zone \in Nat /\ FxJob(s9) /\ s9.zone % PAGE_SIZE = 0
         /\ PoolsRight(s3) /\ s2 \in Nat /\ (s3 = << >> => ~s1)
         /\ s8 # "expand" => s4 # NULL /\ s4 \in 1 .. Len(s3) /\ s3 # << >> /\ PoolRight(s3[s4])
<1>1. s7 = TRUE /\ s9.size > 0 /\ (s3 = << >> => ~s1) /\ (s8 # "expand" => s4 # NULL)
  BY DEF FxInv, FxControl
<1>2. FxJob(s9) /\ PoolsRight(s3) /\ s2 \in Nat /\ FxPools /\ s1 \in BOOLEAN
  BY DEF FxInv
<1>3. /\ s9.size \in 0 .. Fx!FXCACHE_MAX /\ s9.want \in {"record", "first", "again"}
      /\ s9.then \in {"first", "again"} /\ s9.zone \in 0 .. SpaceSize /\ s9.zone % PAGE_SIZE = 0
  BY <1>2 DEF FxJob
<1>4. s9.zone \in Nat /\ s9.size \in 1 .. Fx!FXCACHE_MAX
  BY <1>1, <1>3, FxFacts
<1>5. s8 # "expand" => s4 \in 1 .. Len(s3)
  BY <1>1, <1>2 DEF FxPools
<1>6. s4 \in 1 .. Len(s3) => s3 # << >> /\ PoolRight(s3[s4])
  BY <1>2 DEF PoolsRight
<1> QED BY <1>1, <1>2, <1>3, <1>4, <1>5, <1>6

(* A step that moves no pool and gives no block keeps the rest. *)
LEMMA FxIdle ==
  ASSUME Fx!SizesAssumption, FxInv, UNCHANGED <<s1, s2, s3, s4, s5, s6, s10, s11>>,
         FxControl', FxJob(s9'), s7' \in BOOLEAN
  PROVE  FxInv'
<1>1. FxPools' /\ FxBlocks(s2', s3', s6', s10', s11')
  BY DEF FxInv, FxPools
<1> QED BY <1>1 DEF FxInv

(* The call returns without a block, or the process stops. *)
LEMMA FxFailed ==
  ASSUME Fx!SizesAssumption, FxInv, UNCHANGED <<s1, s2, s3, s4, s5, s6, s10>>, Fx!Fail, s8 \in FxCalls
  PROVE  FxInv'
<1>1. Fx!Done /\ s11' = s11
  BY DEF Fx!Fail
<1>2. s3 = << >> => ~s1'
  <2>1. s3 = << >> => ~s1
    BY InCall
  <2>2. s1' = s1
    OBVIOUS
  <2> QED BY <2>1, <2>2
<1>3. FxControl' /\ FxJob(s9') /\ s7' = FALSE
  BY <1>1, <1>2, ControlDone
<1> QED BY <1>1, <1>3, FxIdle

LEMMA FxStopped ==
  ASSUME Fx!SizesAssumption, FxInv, UNCHANGED <<s1, s2, s3, s4, s5, s6, s10>>,
         NEW why \in FxEnds, Fx!Stop(why)
  PROVE  FxInv'
<1>1. s8' = why /\ UNCHANGED <<s7, s9, s11>>
  BY DEF Fx!Stop
<1>2. FxControl'
  BY <1>1, ControlEnded
<1> QED BY <1>1, <1>2, FxIdle DEF FxInv

LEMMA FxInitStays == ASSUME Fx!SizesAssumption, FxInv, Fx!mem_fx_init PROVE FxInv'
<1>1. /\ s8 = "boot" /\ UNCHANGED <<s1, s2, s3, s4, s5, s6, s7, s10, s11>>
      /\ \/ \E s \in Fx!PoolSizes(2 * INITIAL_CHUNK) :
              s8' = "init_map" /\ s9' = [Fx!NoJob EXCEPT !.zone = s]
         \/ s8' = "stopped" /\ s9' = s9
  BY DEF Fx!mem_fx_init, Fx!memory
<1>2. s7 = FALSE /\ s3 = << >> /\ (s1 => s2 = s9.tokens * TOKEN) /\ s9.tokens = 0
  BY <1>1 DEF FxInv, FxControl
<1>3. CASE s8' = "stopped" /\ s9' = s9
  <2>1. FxControl'
    BY <1>3, ControlEnded DEF FxEnds
  <2> QED BY <1>1, <1>2, <1>3, <2>1, FxIdle DEF FxInv
<1>4. ASSUME NEW s \in Fx!PoolSizes(2 * INITIAL_CHUNK), s8' = "init_map",
             s9' = [Fx!NoJob EXCEPT !.zone = s]
      PROVE  FxInv'
  <2>1. s \in 1 .. SpaceSize /\ s % PAGE_SIZE = 0
    BY DEF Fx!PoolSizes
  <2>2. s \in 0 .. SpaceSize /\ s > 0
    BY <2>1, FxFacts
  <2>3. FxJob(s9') /\ s9'.zone = s /\ s9'.tokens = 0
    BY <1>4, <2>1, <2>2, NoJobRight
  <2>4. s1' => s2' = s9'.tokens * TOKEN
    BY <1>1, <1>2, <2>3
  <2>5. FxControl'
    BY <1>1, <1>2, <1>4, <2>2, <2>3, <2>4, ControlInitMap
  <2> QED BY <1>1, <1>2, <2>3, <2>5, FxIdle
<1> QED BY <1>1, <1>3, <1>4

LEMMA FxInitMapStays == ASSUME Fx!SizesAssumption, FxInv, Fx!InitMap PROVE FxInv'
<1>1. /\ s8 = "init_map" /\ UNCHANGED <<s1, s2, s4, s6, s7, s10, s11>> /\ s9' = Fx!NoJob
      /\ \/ s3' = <<Fx!NewPool>> /\ s5' = 1 /\ s8' = "idle"
         \/ s8' = "stopped" /\ UNCHANGED <<s3, s5>>
  BY DEF Fx!InitMap
<1>2. /\ s7 = FALSE /\ s3 = << >> /\ s9.zone > 0 /\ PoolsRight(s3) /\ s2 \in Nat /\ FxJob(s9)
      /\ FxPools /\ s1 \in BOOLEAN /\ s2 <= INITIAL_CHUNK /\ FxBlocks(s2, s3, s6, s10, s11)
  BY <1>1 DEF FxInv, FxControl
<1>3. FxJob(s9')
  BY <1>1, NoJobRight
<1>4. CASE s8' = "stopped" /\ UNCHANGED <<s3, s5>>
  <2>1. FxControl'
    BY <1>4, ControlEnded DEF FxEnds
  <2> QED BY <1>1, <1>2, <1>3, <1>4, <2>1, FxIdle
<1>5. CASE s3' = <<Fx!NewPool>> /\ s5' = 1 /\ s8' = "idle"
  <2>1. s9.zone \in Nat /\ s9.zone % PAGE_SIZE = 0
    BY <1>2, FxFacts DEF FxJob
  <2> DEFINE z == Fx!NewPool
  <2>2. PoolRight(z) /\ Fresh(z, 0)
    BY <1>2, <2>1, NewPoolRight
  <2> HIDE DEF z
  <2>3. s3' = Append(s3, z) /\ Len(s3) = 0
    BY <1>2, <1>5 DEF z
  <2>4. /\ PoolsRight(Append(s3, z)) /\ Grown(s2, s3, s2, Append(s3, z))
        /\ Len(Append(s3, z)) = Len(s3) + 1 /\ Append(s3, z)[Len(s3) + 1] = z
    BY <1>2, <2>2, PoolAdded
  <2>5. PoolsRight(s3') /\ Grown(s2, s3, s2, s3') /\ Len(s3') = 1 /\ s3'[1] = z
    BY <2>3, <2>4
  <2>7. s4 = NULL
    BY <1>2, <2>3 DEF FxPools
  <2>8. FxPools'
    BY <1>1, <1>5, <2>2, <2>5, <2>7 DEF FxPools
  <2>9. FxBlocks(s2, s3', s6, s10, s11)
    BY <1>2, <2>5, BlocksIdle
  <2>10. FxControl'
    <3>1. s3' # << >>
      BY <2>5
    <3>2. s7' = FALSE
      BY <1>1, <1>2
    <3> QED BY <1>5, <3>1, <3>2 DEF FxControl, FxCalls, FxEnds
  <2> QED BY <1>1, <1>2, <1>3, <2>5, <2>8, <2>9, <2>10 DEF FxInv
<1> QED BY <1>1, <1>4, <1>5

LEMMA FxAllocStays ==
  ASSUME Fx!SizesAssumption, FxInv, NEW size \in Sizes, Fx!mem_fx_alloc(size)
  PROVE  FxInv'
<1> DEFINE s == Fx!Rounded(size)
           job == [Fx!NoJob EXCEPT !.size = s]
<1>1. UNCHANGED <<s1, s3, s4, s5, s10>> /\ (s8 = "idle" \/ (s8 = "boot" /\ ~s1))
  BY DEF Fx!mem_fx_alloc
<1>2. /\ s7 = FALSE /\ PoolsRight(s3) /\ s2 \in Nat /\ FxPools /\ s1 \in BOOLEAN
      /\ s2 <= INITIAL_CHUNK /\ FxBlocks(s2, s3, s6, s10, s11) /\ FxControl
      /\ (s3 = << >> => ~s1)
  BY <1>1 DEF FxInv, FxControl
<1>3. s \in 1 .. Fx!FXCACHE_MAX /\ Fx!FXCACHE_MAX \in Nat
  BY RoundedFacts, FxFacts
<1> HIDE DEF s
<1>4. FxJob(job) /\ job.size = s /\ job.want = "first"
  BY <1>3, NoJobRight
<1> HIDE DEF job
<1>5. CASE Fx!Stop("out_of_bounds") /\ UNCHANGED <<s2, s6>>
  BY <1>1, <1>5, FxStopped DEF FxEnds
<1>6. CASE /\ s6[s] # << >> /\ Fx!Return(Head(s6[s]))
           /\ s6' = [s6 EXCEPT ![s] = Tail(@)] /\ s2' = s2
  <2>1. Fx!Done /\ (s11' = s11 \cup {Head(s6[s])} \/ s11' = s11)
    BY <1>6 DEF Fx!Return
  <2>2. FxControl' /\ FxJob(s9') /\ s7' = FALSE
    BY <1>1, <1>2, <2>1, ControlDone
  <2> DEFINE q == [s6 EXCEPT ![s] = Tail(s6[s])]
  <2>3. Grown(s2, s3, s2, s3)
    BY <1>2, GrownSame
  <2>4. FxBlocks(s2, s3, q, s10, s11 \cup {Head(s6[s])}) /\ FxBlocks(s2, s3, q, s10, s11)
    BY <1>2, <1>3, <1>6, <2>3, BlocksFromCache
  <2>5. s6' = q
    BY <1>6
  <2>6. FxBlocks(s2', s3', s6', s10', s11')
    BY <1>1, <1>6, <2>1, <2>4, <2>5
  <2>7. FxPools'
    BY <1>1, <1>2 DEF FxPools
  <2> QED BY <1>1, <1>2, <1>6, <2>2, <2>6, <2>7 DEF FxInv
<1>7. CASE s4 # NULL /\ Fx!Goto("serve", job) /\ UNCHANGED <<s2, s6>>
  <2>1. s8' = "serve" /\ s9' = job /\ s7' = TRUE /\ s11' = s11
    BY <1>7 DEF Fx!Goto
  <2>2. s3 # << >>
    BY <1>2, <1>7 DEF FxPools
  <2>3. s9'.want # "record" /\ s9'.want # "again" /\ s9'.size > 0
    BY <1>3, <1>4, <2>1
  <2>4. FxControl'
    BY <1>1, <1>7, <2>1, <2>2, <2>3, ControlServe
  <2>5. FxJob(s9')
    BY <1>4, <2>1
  <2> QED BY <1>1, <1>7, <2>1, <2>4, <2>5, FxIdle
<1>8. CASE /\ s2 + s <= INITIAL_CHUNK /\ Fx!Return(Fx!Block(0, s2, s))
           /\ s2' = s2 + s /\ s6' = s6
  <2> DEFINE x == Fx!Block(0, s2, s)
  <2>1. Fx!Done /\ (s11' = s11 \cup {x} \/ s11' = s11)
    BY <1>8 DEF Fx!Return
  <2>2. FxControl' /\ FxJob(s9') /\ s7' = FALSE
    BY <1>1, <1>2, <2>1, ControlDone
  <2>3. x \in FxBlock /\ x.pool = 0 /\ x.start = s2 /\ x.size = s
    BY <1>2, <1>3 DEF Fx!Block, FxBlock
  <2> HIDE DEF x
  <2> DEFINE now == s2 + s
  <2>4. now \in Nat /\ s2 <= now
    BY <1>2, <1>3
  <2>5. s2' = now /\ now <= INITIAL_CHUNK
    BY <1>8
  <2>6. NewBlock(x, s2, s3, now, s3)
    <3>1. Len(s3) \in Nat
      BY <1>2, PoolNumbers
    <3>2. x.pool <= Len(s3) /\ Limit(s2, s3, x.pool) = s2 /\ Limit(now, s3, x.pool) = now
      BY <2>3, <3>1 DEF Limit
    <3>3. x.start + x.size = now /\ s2 <= x.start /\ x.size > 0
      BY <1>2, <1>3, <2>3
    <3> HIDE DEF now
    <3> QED BY <1>2, <2>3, <2>4, <3>2, <3>3 DEF NewBlock
  <2> HIDE DEF now
  <2>7. Grown(s2, s3, now, s3)
    BY <1>2, <2>4, GrownSame
  <2>8. x.size <= Fx!FXCACHE_MAX
    BY <1>3, <2>3
  <2>9. FxBlocks(now, s3, s6, s10, s11 \cup {x}) /\ FxBlocks(now, s3, s6, s10, s11)
    BY <1>2, <1>3, <2>6, <2>7, <2>8, BlocksGiven
  <2>10. FxBlocks(s2', s3', s6', s10', s11')
    BY <1>1, <1>8, <2>1, <2>5, <2>9
  <2>11. FxPools'
    BY <1>1, <1>2 DEF FxPools
  <2> QED BY <1>1, <1>2, <1>8, <2>2, <2>4, <2>5, <2>10, <2>11 DEF FxInv
<1>9. CASE Fx!Goto("expand", job) /\ UNCHANGED <<s2, s6>>
  <2>1. s8' = "expand" /\ s9' = job /\ s7' = TRUE /\ s11' = s11
    BY <1>9 DEF Fx!Goto
  <2>2. FxControl'
    BY <1>1, <1>2, <1>3, <1>4, <2>1, ControlExpand
  <2>3. FxJob(s9')
    BY <1>4, <2>1
  <2> QED BY <1>1, <1>9, <2>1, <2>2, <2>3, FxIdle
<1> QED BY <1>5, <1>6, <1>7, <1>8, <1>9 DEF Fx!mem_fx_alloc, s, job

LEMMA FxFreeStays ==
  ASSUME Fx!SizesAssumption, FxInv, NEW x \in s11, Fx!mem_fx_free(x)
  PROVE  FxInv'
<1>1. /\ s8 = "idle" /\ UNCHANGED <<s1, s2, s3, s4, s5, s7, s8, s9, s10>> /\ s11' = s11 \ {x}
      /\ s6' = [s6 EXCEPT ![x.size] = <<x>> \o @]
  BY DEF Fx!mem_fx_free, Fx!memory
<1>2. /\ PoolsRight(s3) /\ s2 \in Nat /\ FxBlocks(s2, s3, s6, s10, s11)
  BY DEF FxInv
<1>3. Grown(s2, s3, s2, s3)
  BY <1>2, GrownSame
<1> DEFINE q == [s6 EXCEPT ![x.size] = <<x>> \o s6[x.size]]
<1>4. FxBlocks(s2, s3, q, s10, s11 \ {x})
  BY <1>2, <1>3, BlocksFreed
<1>5. s6' = q
  BY <1>1
<1>6. FxBlocks(s2', s3', s6', s10', s11')
  BY <1>1, <1>4, <1>5
<1>7. FxPools' /\ FxControl'
  BY <1>1 DEF FxInv, FxPools, FxControl
<1> QED BY <1>1, <1>6, <1>7 DEF FxInv

LEMMA FxExpandStays == ASSUME Fx!SizesAssumption, FxInv, Fx!Expand PROVE FxInv'
<1>1. /\ s8 = "expand" /\ UNCHANGED <<s1, s2, s3, s6, s10>>
      /\ \/ Fx!Fail /\ UNCHANGED <<s4, s5>>
         \/ /\ s5 # NULL /\ s4' = s5 /\ s5' = NULL
            /\ Fx!Goto("serve", [s9 EXCEPT !.want = "record"])
  BY DEF Fx!Expand
<1>2. s8 \in FxCalls
  BY <1>1 DEF FxCalls
<1>3. CASE Fx!Fail /\ UNCHANGED <<s4, s5>>
  BY <1>1, <1>2, <1>3, FxFailed
<1>4. CASE /\ s5 # NULL /\ s4' = s5 /\ s5' = NULL
           /\ Fx!Goto("serve", [s9 EXCEPT !.want = "record"])
  <2>1. /\ s8' = "serve" /\ s9' = [s9 EXCEPT !.want = "record"] /\ s7' = TRUE /\ s11' = s11
    BY <1>4 DEF Fx!Goto
  <2>2. FxJob(s9) /\ s9.size > 0 /\ PoolsRight(s3) /\ s9.size \in Nat
    <3>1. s9.size \in 1 .. Fx!FXCACHE_MAX /\ FxJob(s9) /\ PoolsRight(s3)
      BY <1>2, InCall
    <3>2. Fx!FXCACHE_MAX \in Nat
      BY FxFacts
    <3> QED BY <3>1, <3>2
  <2>3. FxJob(s9') /\ s9'.want = "record" /\ s9'.size > 0
    BY <2>1, <2>2 DEF FxJob
  <2>4. s5 \in 1 .. Len(s3) /\ Fresh(s3[s5], 0)
    BY <1>4 DEF FxInv, FxPools
  <2>5. s3 # << >>
    BY <2>4
  <2>6. FxControl'
    BY <1>1, <1>4, <2>1, <2>3, <2>4, <2>5, ControlServe
  <2>7. FxPools'
    BY <1>1, <1>4, <2>4 DEF FxPools
  <2> QED BY <1>1, <2>1, <2>3, <2>6, <2>7 DEF FxInv
<1> QED BY <1>1, <1>3, <1>4

(* What of the pools a step of the active one leaves alone. *)
ActiveIs(z) == s3' = [s3 EXCEPT ![s4] = z]

LEMMA ActiveMoved ==
  ASSUME Fx!SizesAssumption, FxInv, s8 \in FxCalls, s8 # "expand", NEW z, PoolRight(z),
         s3[s4].current <= z.current,
         ActiveIs(z), UNCHANGED <<s1, s2, s4, s5, s6>>
  PROVE  /\ PoolsRight(s3') /\ Grown(s2, s3, s2, s3') /\ s3'[s4'] = z /\ s3' # << >> /\ s3 # << >>
         /\ s4' # NULL /\ FxPools'
<1>1. s4 # NULL /\ s4 \in 1 .. Len(s3) /\ s3 # << >> /\ PoolsRight(s3) /\ s2 \in Nat
  BY InCall
<1> DEFINE q == [s3 EXCEPT ![s4] = z]
<1>2. /\ PoolsRight(q) /\ Grown(s2, s3, s2, q) /\ Len(q) = Len(s3) /\ q[s4] = z
      /\ \A j \in 1 .. Len(s3) : j # s4 => q[j] = s3[j]
  BY <1>1, PoolChanged
<1> HIDE DEF q
<1>3. s3' = q
  BY DEF q, ActiveIs
<1>4. FxPools
  BY DEF FxInv
<1>5. FxPools'
  <2>1. s4' # NULL => s4' \in 1 .. Len(s3')
    BY <1>1, <1>2, <1>3
  <2>2. s5' # NULL => s5' \in 1 .. Len(s3') /\ Fresh(s3'[s5'], 0) /\ s5' # s4'
    <3>1. SUFFICES ASSUME s5 # NULL PROVE s5 \in 1 .. Len(q) /\ Fresh(q[s5], 0) /\ s5 # s4
      BY <1>3
    <3>2. s5 \in 1 .. Len(s3) /\ Fresh(s3[s5], 0) /\ s5 # s4
      BY <1>4, <3>1 DEF FxPools
    <3> QED BY <1>2, <3>2
  <2> QED BY <2>1, <2>2 DEF FxPools
<1>6. q # << >>
  BY <1>1, <1>2
<1> QED BY <1>1, <1>2, <1>3, <1>5, <1>6

(* A pool's pointer moves over a block of it. *)
LEMMA Advanced ==
  ASSUME NEW c \in Nat, NEW p, PoolsRight(p), NEW q, Grown(c, p, c, q), NEW k \in 1 .. Len(p),
         NEW w \in Nat, w > 0, q[k].current = p[k].current + w
  PROVE  NewBlock(Fx!Block(k, p[k].current, w), c, p, c, q)
<1> DEFINE x == Fx!Block(k, p[k].current, w)
<1>1. Len(p) \in Nat /\ p[k].current \in Nat
  BY PoolNumbers
<1>2. k \in Nat /\ k # 0 /\ k <= Len(p)
  BY <1>1
<1>3. x \in FxBlock /\ x.pool = k /\ x.start = p[k].current /\ x.size = w
  BY <1>1, <1>2 DEF Fx!Block, FxBlock
<1> HIDE DEF x
<1>4. Limit(c, p, x.pool) = p[k].current /\ Limit(c, q, x.pool) = p[k].current + w
  BY <1>2, <1>3 DEF Limit
<1>5. NewBlock(x, c, p, c, q)
  BY <1>1, <1>2, <1>3, <1>4 DEF NewBlock
<1> QED BY <1>5 DEF x

(* What follows a failure of mem_fxalloc_alloc of the first request. *)
LEMMA FxNoBlock ==
  ASSUME Fx!SizesAssumption, FxInv, s8 \in FxCalls, s8 # "expand", s9.want = "first", Fx!NoBlock,
         UNCHANGED <<s1, s2, s3, s4, s5, s6, s10>>
  PROVE  FxInv'
<1>1. CASE Fx!Fail
  BY <1>1, FxFailed
<1>2. CASE Fx!Goto("expand", [s9 EXCEPT !.then = "again"])
  <2>1. s8' = "expand" /\ s9' = [s9 EXCEPT !.then = "again"] /\ s7' = TRUE /\ s11' = s11
    BY <1>2 DEF Fx!Goto
  <2>2. FxJob(s9) /\ s9.size \in 1 .. Fx!FXCACHE_MAX /\ s3 # << >>
    BY InCall
  <2>3. FxJob(s9') /\ s9'.want = "first" /\ s9'.size = s9.size
    BY <2>1, <2>2 DEF FxJob
  <2>4. s9'.size > 0
    BY <2>2, <2>3, FxFacts
  <2>5. s3' # << >>
    BY <2>2
  <2>6. FxControl'
    BY <2>1, <2>3, <2>4, <2>5, ControlExpand
  <2> QED BY <2>1, <2>3, <2>6, FxIdle
<1> QED BY <1>1, <1>2 DEF Fx!NoBlock

(* A pool that was just made active has room for the next pool's record    *)
(* and then for the request.                                               *)
LEMMA FreshHasRoom ==
  ASSUME Fx!SizesAssumption, FxInv, s8 = "serve", s9.want # "first"
  PROVE  Fx!InPages(Fx!Pool, Fx!Wanted)
<1>1. s9.want \in {"record", "first", "again"} /\ s9.size \in 1 .. Fx!FXCACHE_MAX
  BY InCall DEF FxCalls
<1>2. /\ HEADER \in Nat /\ Fx!FXCACHE_MAX \in Nat /\ HEADER + Fx!FXCACHE_MAX <= PAGE_SIZE
      /\ PAGE_SIZE \in Nat
  BY FxFacts
<1>3. CASE s9.want = "record"
  <2>1. s3[s4].current = 0 /\ s3[s4].alloc = PAGE_SIZE
    BY <1>3 DEF FxInv, FxControl, Fresh
  <2> QED BY <1>2, <1>3, <2>1 DEF Fx!InPages, Fx!Pool, Fx!Wanted
<1>4. CASE s9.want = "again"
  <2>1. s3[s4].current = HEADER /\ s3[s4].alloc = PAGE_SIZE
    BY <1>4 DEF FxInv, FxControl, Fresh
  <2> QED BY <1>1, <1>2, <1>4, <2>1 DEF Fx!InPages, Fx!Pool, Fx!Wanted
<1> QED BY <1>1, <1>3, <1>4

LEMMA FxServeStays == ASSUME Fx!SizesAssumption, FxInv, Fx!Serve PROVE FxInv'
<1> DEFINE w == Fx!Wanted
           p == s3[s4]
           x == Fx!Block(s4, p.current, w)
           z == [current |-> p.current + w, alloc |-> p.alloc, size |-> p.size]
<1>1. s8 = "serve" /\ UNCHANGED <<s1, s2, s4, s5, s6>>
  BY DEF Fx!Serve
<1>2. s8 \in FxCalls /\ s8 # "expand"
  BY <1>1 DEF FxCalls
<1>3. /\ s9.size \in 1 .. Fx!FXCACHE_MAX /\ s9.want \in {"record", "first", "again"} /\ FxJob(s9)
      /\ PoolsRight(s3) /\ s2 \in Nat /\ s4 # NULL /\ s4 \in 1 .. Len(s3) /\ s3 # << >>
      /\ PoolRight(p)
  BY <1>2, InCall
<1>4. HEADER \in Nat /\ HEADER > 0 /\ Fx!FXCACHE_MAX \in Nat
  BY FxFacts
<1>5. w \in Nat /\ w > 0 /\ (s9.want # "record" => w = s9.size /\ w <= Fx!FXCACHE_MAX)
      /\ (s9.want = "record" => w = HEADER)
  BY <1>3, <1>4 DEF Fx!Wanted
<1>6. /\ p \in [current : Nat, alloc : Nat, size : Nat]
      /\ p.current \in Nat /\ p.alloc \in Nat /\ p.size \in Nat /\ p.current <= p.alloc
      /\ p.alloc <= p.size /\ p.alloc % PAGE_SIZE = 0 /\ p.size % PAGE_SIZE = 0
  BY <1>3 DEF PoolRight
<1>7. CASE Fx!InPages(Fx!Pool, w)
  <2>1. p.current + w <= p.alloc
    BY <1>7 DEF Fx!InPages, Fx!Pool
  <2>2. /\ s3' = [s3 EXCEPT ![s4].current = @ + w]
        /\ \/ s9.want = "record" /\ s10' = s10 \cup {x} /\ Fx!Goto("create", s9)
           \/ s9.want # "record" /\ s10' = s10 /\ Fx!Return(x)
    BY <1>7 DEF Fx!Serve, Fx!Pool
  <2>3. ActiveIs(z)
    <3>1. [p EXCEPT !.current = p.current + w] = z
      BY <1>6
    <3> QED BY <2>2, <3>1 DEF ActiveIs
  <2>4. /\ PoolRight(z) /\ p.current <= z.current /\ z.current = p.current + w
        /\ z.alloc = p.alloc
    BY <1>5, <1>6, <2>1 DEF PoolRight
  <2> HIDE DEF z
  <2>5. /\ PoolsRight(s3') /\ Grown(s2, s3, s2, s3') /\ s3'[s4'] = z /\ s3' # << >> /\ s3 # << >>
        /\ s4' # NULL /\ FxPools'
    BY <1>1, <1>2, <2>3, <2>4, ActiveMoved
  <2>6. s3'[s4].current = s3[s4].current + w
    BY <1>1, <2>4, <2>5
  <2> HIDE DEF p, w, x
  <2> DEFINE q == s3'
  <2>7. NewBlock(x, s2, s3, s2, q)
    <3>1. PoolsRight(s3) /\ Grown(s2, s3, s2, q) /\ q[s4].current = s3[s4].current + w
      BY <1>3, <2>5, <2>6
    <3> HIDE DEF q
    <3> QED BY <1>3, <1>5, <3>1, Advanced DEF x, p
  <2>8. FxBlocks(s2, s3, s6, s10, s11)
    BY DEF FxInv
  <2>9. CASE s9.want = "record" /\ s10' = s10 \cup {x} /\ Fx!Goto("create", s9)
    <3>1. s8' = "create" /\ s9' = s9 /\ s7' = TRUE /\ s11' = s11
      BY <2>9 DEF Fx!Goto
    <3>2. p.current = 0 /\ p.alloc = PAGE_SIZE
      BY <1>1, <2>9 DEF FxInv, FxControl, Fresh, p
    <3>3. Fresh(s3'[s4'], HEADER)
      BY <1>4, <1>5, <2>4, <2>5, <2>9, <3>2 DEF Fresh
    <3>4. s9'.size > 0
      BY <1>3, <1>4, <3>1
    <3>5. FxControl'
      BY <2>5, <3>1, <3>3, <3>4, ControlCreate
    <3>6. FxBlocks(s2, q, s6, s10 \cup {x}, s11)
      <4>1. Grown(s2, s3, s2, q)
        BY <2>5
      <4> HIDE DEF q
      <4> QED BY <2>7, <2>8, <4>1, BlocksRecorded
    <3>7. FxBlocks(s2', s3', s6', s10', s11')
      BY <1>1, <2>9, <3>1, <3>6
    <3> QED BY <1>1, <1>3, <2>5, <3>1, <3>5, <3>7 DEF FxInv
  <2>10. CASE s9.want # "record" /\ s10' = s10 /\ Fx!Return(x)
    <3>1. Fx!Done /\ (s11' = s11 \cup {x} \/ s11' = s11)
      BY <2>10 DEF Fx!Return
    <3>2. FxControl' /\ FxJob(s9') /\ s7' = FALSE
      BY <2>5, <3>1, ControlDone
    <3>3. x.size <= Fx!FXCACHE_MAX
      BY <1>5, <2>10 DEF x, Fx!Block
    <3>4. FxBlocks(s2, q, s6, s10, s11 \cup {x}) /\ FxBlocks(s2, q, s6, s10, s11)
      <4>1. Grown(s2, s3, s2, q)
        BY <2>5
      <4> HIDE DEF q
      <4> QED BY <1>4, <2>7, <2>8, <3>3, <4>1, BlocksGiven
    <3>5. FxBlocks(s2', s3', s6', s10', s11')
      BY <1>1, <2>10, <3>1, <3>4
    <3> QED BY <1>1, <1>3, <2>5, <3>2, <3>5 DEF FxInv
  <2> QED BY <2>2, <2>9, <2>10
<1>8. CASE ~Fx!InPages(Fx!Pool, w)
  <2>1. s9.want = "first"
    BY <1>1, <1>8, FreshHasRoom
  <2>2. CASE Fx!Exhausted(Fx!Pool, w)
    <3>1. Fx!NoBlock /\ UNCHANGED <<s3, s10>>
      BY <1>8, <2>2 DEF Fx!Serve
    <3> QED BY <1>1, <1>2, <2>1, <3>1, FxNoBlock
  <2>3. CASE ~Fx!Exhausted(Fx!Pool, w)
    <3>1. Fx!Goto("page_map", s9) /\ UNCHANGED <<s3, s10>>
      BY <1>8, <2>3 DEF Fx!Serve
    <3>2. s8' = "page_map" /\ s9' = s9 /\ s7' = TRUE /\ s11' = s11
      BY <3>1 DEF Fx!Goto
    <3>3. w = s9.size
      BY <1>5, <2>1
    <3> HIDE DEF w
    <3>4. p.alloc < p.current + w /\ p.current + w <= p.size
      BY <1>5, <1>6, <1>8, <2>3 DEF Fx!InPages, Fx!Exhausted, Fx!Pool
    <3>5. /\ s3'[s4'].alloc < s3'[s4'].current + s9'.size
          /\ s3'[s4'].current + s9'.size <= s3'[s4'].size
      BY <1>1, <3>1, <3>2, <3>3, <3>4
    <3>6. s9'.size > 0 /\ s4' # NULL /\ s3' # << >> /\ s9'.want = "first"
      BY <1>1, <1>3, <1>4, <2>1, <3>1, <3>2
    <3>7. FxControl'
      BY <3>2, <3>5, <3>6, ControlPageMap
    <3> QED BY <1>1, <1>3, <3>1, <3>2, <3>7, FxIdle
  <2> QED BY <2>2, <2>3
<1> QED BY <1>7, <1>8

LEMMA FxPageMapStays == ASSUME Fx!SizesAssumption, FxInv, Fx!PageMap PROVE FxInv'
<1> DEFINE p == s3[s4]
           x == Fx!Block(s4, p.current, NODE)
           z == [current |-> p.current + NODE, alloc |-> p.alloc + PAGE_SIZE, size |-> p.size]
<1>1. /\ s8 = "page_map" /\ UNCHANGED <<s1, s2, s4, s5, s6>>
      /\ \/ /\ s3' = [s3 EXCEPT ![s4].alloc = @ + PAGE_SIZE,
                                ![s4].current = p.current + NODE]
            /\ s10' = s10 \cup {x} /\ Fx!Goto("serve", s9)
         \/ Fx!NoBlock /\ UNCHANGED <<s3, s10>>
         \/ Fx!Stop("assertion") /\ UNCHANGED <<s3, s10>>
  BY DEF Fx!PageMap, Fx!Pool, Fx!AfterNode
<1>2. s8 \in FxCalls /\ s8 # "expand"
  BY <1>1 DEF FxCalls
<1>3. /\ s9.size \in 1 .. Fx!FXCACHE_MAX /\ FxJob(s9) /\ PoolsRight(s3) /\ s2 \in Nat
      /\ s4 # NULL /\ s4 \in 1 .. Len(s3) /\ s3 # << >> /\ PoolRight(p)
  BY <1>2, InCall
<1>4. /\ NODE \in Nat /\ NODE > 0 /\ NODE <= PAGE_SIZE /\ PAGE_SIZE \in Nat
      /\ Fx!FXCACHE_MAX \in Nat
  BY FxFacts
<1>5. /\ p \in [current : Nat, alloc : Nat, size : Nat]
      /\ p.current \in Nat /\ p.alloc \in Nat /\ p.size \in Nat /\ p.current <= p.alloc
      /\ p.alloc <= p.size /\ p.alloc % PAGE_SIZE = 0 /\ p.size % PAGE_SIZE = 0
  BY <1>3 DEF PoolRight
<1>6. s9.want = "first" /\ p.alloc < p.current + s9.size /\ p.current + s9.size <= p.size
  BY <1>1 DEF FxInv, FxControl
<1>7. CASE /\ s3' = [s3 EXCEPT ![s4].alloc = @ + PAGE_SIZE, ![s4].current = p.current + NODE]
           /\ s10' = s10 \cup {x} /\ Fx!Goto("serve", s9)
  <2>1. s8' = "serve" /\ s9' = s9 /\ s7' = TRUE /\ s11' = s11
    BY <1>7 DEF Fx!Goto
  <2>2. ActiveIs(z)
    <3> DEFINE one == [s3 EXCEPT ![s4].alloc = p.alloc + PAGE_SIZE]
    <3>1. PICK a \in Nat, b \in Nat, c \in Nat : p = [current |-> a, alloc |-> b, size |-> c]
      BY <1>5
    <3>2. [p EXCEPT !.alloc = p.alloc + PAGE_SIZE]
            = [current |-> a, alloc |-> p.alloc + PAGE_SIZE, size |-> c]
      BY <3>1
    <3>3. s4 \in DOMAIN s3
      <4>1. s3 \in Seq([current : Nat, alloc : Nat, size : Nat])
        BY <1>3 DEF PoolsRight
      <4> QED BY <1>3, <4>1
    <3>4. one[s4] = [current |-> a, alloc |-> p.alloc + PAGE_SIZE, size |-> c]
      <4>1. one[s4] = [p EXCEPT !.alloc = p.alloc + PAGE_SIZE]
        BY <3>3
      <4> QED BY <3>2, <4>1
    <3>5. [one[s4] EXCEPT !.current = p.current + NODE] = z
      BY <3>1, <3>4
    <3>6. s3' = [one EXCEPT ![s4].current = p.current + NODE]
      BY <1>7
    <3>7. [one EXCEPT ![s4].current = p.current + NODE] = [one EXCEPT ![s4] = z]
      BY <3>5
    <3>8. [one EXCEPT ![s4] = z] = [s3 EXCEPT ![s4] = z]
      OBVIOUS
    <3> QED BY <3>6, <3>7, <3>8 DEF ActiveIs
  <2>3. p.alloc + PAGE_SIZE <= p.size /\ (p.alloc + PAGE_SIZE) % PAGE_SIZE = 0
    <3> DEFINE a == p.alloc
               b == p.size
    <3>1. a \in Nat /\ b \in Nat /\ a % PAGE_SIZE = 0 /\ b % PAGE_SIZE = 0 /\ a < b
      BY <1>3, <1>4, <1>5, <1>6
    <3> HIDE DEF a, b
    <3>2. a + PAGE_SIZE <= b /\ (a + PAGE_SIZE) % PAGE_SIZE = 0
      BY <3>1, PageMore
    <3> QED BY <3>2 DEF a, b
  <2>4. PoolRight(z) /\ p.current <= z.current /\ z.current = p.current + NODE
    BY <1>4, <1>5, <2>3 DEF PoolRight
  <2> HIDE DEF z
  <2>5. /\ PoolsRight(s3') /\ Grown(s2, s3, s2, s3') /\ s3'[s4'] = z /\ s3' # << >> /\ s3 # << >>
        /\ s4' # NULL /\ FxPools'
    BY <1>1, <1>2, <2>2, <2>4, ActiveMoved
  <2>6. s3'[s4].current = s3[s4].current + NODE
    BY <1>1, <2>4, <2>5
  <2> HIDE DEF p, x
  <2> DEFINE q == s3'
  <2>7. NewBlock(x, s2, s3, s2, q)
    <3>1. PoolsRight(s3) /\ Grown(s2, s3, s2, q) /\ q[s4].current = s3[s4].current + NODE
      BY <1>3, <2>5, <2>6
    <3> HIDE DEF q
    <3> QED BY <1>3, <1>4, <3>1, Advanced DEF x, p
  <2>8. FxBlocks(s2, q, s6, s10 \cup {x}, s11)
    <3>1. Grown(s2, s3, s2, q) /\ FxBlocks(s2, s3, s6, s10, s11)
      BY <2>5 DEF FxInv
    <3> HIDE DEF q
    <3> QED BY <2>7, <3>1, BlocksRecorded
  <2>9. FxBlocks(s2', s3', s6', s10', s11')
    BY <1>1, <1>7, <2>1, <2>8
  <2>10. s9'.size > 0 /\ s9'.want = "first"
    BY <1>3, <1>4, <1>6, <2>1
  <2>11. FxControl'
    BY <2>1, <2>5, <2>10, ControlServe
  <2> QED BY <1>1, <1>3, <2>1, <2>5, <2>9, <2>11 DEF FxInv
<1>8. CASE Fx!NoBlock /\ UNCHANGED <<s3, s10>>
  BY <1>1, <1>2, <1>6, <1>8, FxNoBlock
<1>9. CASE Fx!Stop("assertion") /\ UNCHANGED <<s3, s10>>
  BY <1>1, <1>9, FxStopped DEF FxEnds
<1> QED BY <1>1, <1>7, <1>8, <1>9

LEMMA FxCreateStays == ASSUME Fx!SizesAssumption, FxInv, Fx!Create PROVE FxInv'
<1>1. /\ s8 = "create" /\ UNCHANGED <<s1, s2, s3, s4, s5, s6, s10>>
      /\ \/ \E s \in Fx!PoolSizes(2 * Fx!Pool.size) : Fx!Goto("create_map", [s9 EXCEPT !.zone = s])
         \/ Fx!Fail
  BY DEF Fx!Create, Fx!memory
<1>2. s8 \in FxCalls /\ s8 # "expand"
  BY <1>1 DEF FxCalls
<1>3. CASE Fx!Fail
  BY <1>1, <1>2, <1>3, FxFailed
<1>4. ASSUME NEW s \in Fx!PoolSizes(2 * Fx!Pool.size), Fx!Goto("create_map", [s9 EXCEPT !.zone = s])
      PROVE  FxInv'
  <2>1. s8' = "create_map" /\ s9' = [s9 EXCEPT !.zone = s] /\ s7' = TRUE /\ s11' = s11
    BY <1>4 DEF Fx!Goto
  <2>2. s \in 1 .. SpaceSize /\ s % PAGE_SIZE = 0
    BY DEF Fx!PoolSizes
  <2>3. s \in 0 .. SpaceSize /\ s > 0
    BY <2>2, FxFacts
  <2>4. FxJob(s9) /\ s9.size \in 1 .. Fx!FXCACHE_MAX /\ s3 # << >> /\ s4 # NULL
    BY <1>2, InCall
  <2>5. FxJob(s9') /\ s9'.zone = s /\ s9'.size = s9.size
    BY <2>1, <2>2, <2>3, <2>4 DEF FxJob
  <2>6. s9'.size > 0
    BY <2>4, <2>5, FxFacts
  <2>7. Fresh(s3[s4], HEADER)
    BY <1>1 DEF FxInv, FxControl
  <2>8. Fresh(s3'[s4'], HEADER) /\ s4' # NULL /\ s3' # << >> /\ s9'.zone > 0
    BY <1>1, <2>3, <2>4, <2>5, <2>7
  <2>9. FxControl'
    BY <2>1, <2>6, <2>8, ControlCreate
  <2> QED BY <1>1, <2>1, <2>5, <2>9, FxIdle
<1> QED BY <1>1, <1>3, <1>4

LEMMA FxCreateMapStays == ASSUME Fx!SizesAssumption, FxInv, Fx!CreateMap PROVE FxInv'
<1>1. /\ s8 = "create_map" /\ UNCHANGED <<s1, s2, s4, s6, s10>>
      /\ \/ /\ s3' = Append(s3, Fx!NewPool) /\ s5' = Len(s3) + 1
            /\ Fx!Goto("serve", [s9 EXCEPT !.want = s9.then, !.zone = 0])
         \/ Fx!Fail /\ UNCHANGED <<s3, s5>>
  BY DEF Fx!CreateMap
<1>2. s8 \in FxCalls /\ s8 # "expand"
  BY <1>1 DEF FxCalls
<1>3. CASE Fx!Fail /\ UNCHANGED <<s3, s5>>
  BY <1>1, <1>2, <1>3, FxFailed
<1>4. CASE /\ s3' = Append(s3, Fx!NewPool) /\ s5' = Len(s3) + 1
           /\ Fx!Goto("serve", [s9 EXCEPT !.want = s9.then, !.zone = 0])
  <2>1. s8' = "serve" /\ s9' = [s9 EXCEPT !.want = s9.then, !.zone = 0] /\ s7' = TRUE /\ s11' = s11
    BY <1>4 DEF Fx!Goto
  <2>2. /\ FxJob(s9) /\ s9.size \in 1 .. Fx!FXCACHE_MAX /\ s9.then \in {"first", "again"}
        /\ s9.zone \in Nat /\ s9.zone % PAGE_SIZE = 0 /\ PoolsRight(s3) /\ s2 \in Nat
        /\ s4 # NULL /\ s4 \in 1 .. Len(s3) /\ s3 # << >>
    BY <1>2, InCall
  <2>3. s9.zone > 0 /\ Fresh(s3[s4], HEADER)
    BY <1>1 DEF FxInv, FxControl
  <2> DEFINE z == Fx!NewPool
             q == Append(s3, z)
  <2>4. PoolRight(z) /\ Fresh(z, 0)
    BY <2>2, <2>3, NewPoolRight
  <2> HIDE DEF z
  <2>5. /\ PoolsRight(q) /\ Grown(s2, s3, s2, q) /\ Len(q) = Len(s3) + 1 /\ q[Len(s3) + 1] = z
        /\ \A j \in 1 .. Len(s3) : q[j] = s3[j]
    BY <2>2, <2>4, PoolAdded
  <2> HIDE DEF q
  <2>6. s3' = q
    BY <1>4 DEF q, z
  <2>7. Len(s3) \in Nat
    BY <2>2, PoolNumbers
  <2>8. FxPools'
    <3>1. s4 \in 1 .. Len(q) /\ Len(s3) + 1 \in 1 .. Len(q) /\ Len(s3) + 1 # s4
      BY <2>2, <2>5, <2>7
    <3>2. s4' \in 1 .. Len(s3') /\ s5' \in 1 .. Len(s3') /\ s3'[s5'] = z /\ s5' # s4'
      BY <1>1, <1>4, <2>5, <2>6, <3>1
    <3> QED BY <2>4, <3>2 DEF FxPools
  <2>9. FxBlocks(s2, q, s6, s10, s11)
    <3>1. FxBlocks(s2, s3, s6, s10, s11)
      BY DEF FxInv
    <3> QED BY <2>5, <3>1, BlocksIdle
  <2>10. FxBlocks(s2', s3', s6', s10', s11')
    BY <1>1, <2>1, <2>6, <2>9
  <2>11. FxJob(s9') /\ s9'.want = s9.then /\ s9'.size = s9.size
    <3>1. 0 \in 0 .. SpaceSize /\ 0 % PAGE_SIZE = 0
      BY FxFacts
    <3> QED BY <2>1, <2>2, <3>1 DEF FxJob
  <2>12. FxControl'
    <3>1. s3'[s4'] = s3[s4]
      BY <1>1, <2>2, <2>5, <2>6
    <3>2. Fresh(s3'[s4'], HEADER) /\ s9'.want # "record"
      BY <2>2, <2>3, <2>11, <3>1
    <3>3. s9'.size > 0
      BY <2>2, <2>11, FxFacts
    <3>4. s3' # << >> /\ s4' # NULL
      BY <1>1, <2>2, <2>5, <2>6, <2>7
    <3> QED BY <2>1, <3>2, <3>3, <3>4, ControlServe
  <2>13. PoolsRight(s3')
    BY <2>5, <2>6
  <2> QED BY <1>1, <2>1, <2>8, <2>10, <2>11, <2>12, <2>13 DEF FxInv
<1> QED BY <1>1, <1>3, <1>4

LEMMA FxObjectAllocStays == ASSUME Fx!SizesAssumption, FxInv, Fx!ObjectAlloc PROVE FxInv'
<1> DEFINE x == Fx!Block(0, s2, TOKEN)
           now == s2 + TOKEN
<1>1. /\ s1 /\ s8 \in {"init_map", "page_map", "create_map"} /\ UNCHANGED <<s1, s3, s4, s5, s6>>
      /\ \/ s7 /\ Fx!Stop("reentered") /\ UNCHANGED <<s2, s10>>
         \/ /\ ~s7 /\ s9.tokens < 2 /\ s9' = [s9 EXCEPT !.tokens = @ + 1]
            /\ s2' = now /\ s10' = s10 \cup {x} /\ UNCHANGED <<s7, s11, s8>>
  BY DEF Fx!ObjectAlloc
<1>2. CASE s7 /\ Fx!Stop("reentered") /\ UNCHANGED <<s2, s10>>
  BY <1>1, <1>2, FxStopped DEF FxEnds
<1>3. CASE /\ ~s7 /\ s9.tokens < 2 /\ s9' = [s9 EXCEPT !.tokens = @ + 1]
           /\ s2' = now /\ s10' = s10 \cup {x} /\ UNCHANGED <<s7, s11, s8>>
  <2>1. s8 = "init_map"
    <3>1. s8 \in FxCalls => s7 = TRUE
      BY DEF FxInv, FxControl
    <3> QED BY <1>1, <1>3, <3>1 DEF FxCalls
  <2>2. /\ s7 = FALSE /\ s3 = << >> /\ s2 = s9.tokens * TOKEN /\ s9.zone > 0
        /\ FxJob(s9) /\ PoolsRight(s3) /\ s2 \in Nat /\ FxPools /\ s1 \in BOOLEAN
        /\ FxBlocks(s2, s3, s6, s10, s11)
    BY <1>1, <2>1 DEF FxInv, FxControl
  <2>3. TOKEN \in Nat /\ TOKEN > 0 /\ 2 * TOKEN <= INITIAL_CHUNK /\ INITIAL_CHUNK \in Nat
    BY FxFacts
  <2>4. s9.tokens \in 0 .. 1
    BY <1>3, <2>2 DEF FxJob
  <2>5. FxJob(s9') /\ s9'.tokens = s9.tokens + 1 /\ s9'.zone = s9.zone
    BY <1>3, <2>2, <2>4 DEF FxJob
  <2>6. now \in Nat /\ s2 <= now /\ now <= INITIAL_CHUNK /\ now = (s9.tokens + 1) * TOKEN
    <3>1. s9.tokens = 0 \/ s9.tokens = 1
      BY <2>4
    <3>2. CASE s9.tokens = 0
      <4>1. s2 = 0 /\ (s9.tokens + 1) * TOKEN = TOKEN
        BY <2>2, <2>3, <3>2
      <4> QED BY <2>3, <4>1
    <3>3. CASE s9.tokens = 1
      <4>1. s2 = TOKEN /\ (s9.tokens + 1) * TOKEN = 2 * TOKEN
        BY <2>2, <2>3, <3>3
      <4> QED BY <2>3, <4>1
    <3> QED BY <3>1, <3>2, <3>3
  <2>7. NewBlock(x, s2, s3, now, s3)
    <3>1. x \in FxBlock /\ x.pool = 0 /\ x.start = s2 /\ x.size = TOKEN
      BY <2>2, <2>3 DEF Fx!Block, FxBlock
    <3>2. x.pool <= Len(s3) /\ Limit(s2, s3, x.pool) = s2 /\ Limit(now, s3, x.pool) = now
      BY <2>2, <3>1 DEF Limit
    <3> QED BY <2>2, <2>3, <3>1, <3>2 DEF NewBlock
  <2> HIDE DEF x, now
  <2>8. Grown(s2, s3, now, s3)
    BY <2>2, <2>6, GrownSame
  <2>9. FxBlocks(now, s3, s6, s10 \cup {x}, s11)
    BY <2>2, <2>7, <2>8, BlocksRecorded
  <2>10. FxBlocks(s2', s3', s6', s10', s11')
    BY <1>1, <1>3, <2>9
  <2>11. s1' => s2' = s9'.tokens * TOKEN
    BY <1>3, <2>5, <2>6
  <2>12. s8' = "init_map" /\ s7' = FALSE /\ s3' = << >> /\ s9'.zone > 0
    BY <1>1, <1>3, <2>1, <2>2, <2>5
  <2>13. FxControl'
    BY <2>11, <2>12, ControlInitMap
  <2>14. FxPools'
    BY <1>1, <2>2 DEF FxPools
  <2> QED BY <1>1, <1>3, <2>2, <2>5, <2>6, <2>10, <2>12, <2>13, <2>14 DEF FxInv
<1> QED BY <1>1, <1>2, <1>3

LEMMA FxBegun == ASSUME Fx!SizesAssumption, Fx!Init PROVE FxInv
<1>1. /\ s1 \in BOOLEAN /\ s2 = 0 /\ s3 = << >> /\ s4 = NULL /\ s5 = NULL
      /\ s6 = [s \in 1 .. Fx!FXCACHE_MAX |-> << >>] /\ s7 = FALSE /\ s8 = "boot"
      /\ s9 = Fx!NoJob /\ s10 = {} /\ s11 = {}
  BY DEF Fx!Init
<1>2. FxJob(s9) /\ s9.tokens = 0
  BY <1>1, NoJobRight
<1>3. PoolsRight(s3)
  BY <1>1 DEF PoolsRight
<1>4. CacheRight(s6) /\ \A b : ~InCache(s6, b)
  BY <1>1, FxFacts DEF CacheRight, InCache
<1>5. BlocksOf(s6, s10, s11) = {}
  BY <1>1, <1>4 DEF BlocksOf
<1>6. FxBlocks(s2, s3, s6, s10, s11)
  BY <1>1, <1>4, <1>5 DEF FxBlocks, Placed, LiveRight
<1>7. FxControl
  <2>1. s2 = s9.tokens * TOKEN
    BY <1>1, <1>2, FxFacts
  <2> QED BY <1>1, <1>2, <2>1 DEF FxControl, FxCalls, FxEnds
<1>8. FxPools
  BY <1>1 DEF FxPools
<1>9. s1 \in BOOLEAN /\ s7 \in BOOLEAN /\ s2 \in Nat /\ s2 <= INITIAL_CHUNK
  <2>1. INITIAL_CHUNK \in Nat
    BY FxFacts
  <2>2. s2 \in Nat /\ s2 <= INITIAL_CHUNK
    BY <1>1, <2>1
  <2>3. s1 \in BOOLEAN /\ s7 \in BOOLEAN
    BY <1>1
  <2> QED BY <2>2, <2>3
<1> QED BY <1>2, <1>3, <1>6, <1>7, <1>8, <1>9 DEF FxInv

LEMMA FxStays == ASSUME Fx!SizesAssumption, FxInv, Fx!Next PROVE FxInv'
<1>1. CASE Fx!mem_fx_init
  BY <1>1, FxInitStays
<1>2. CASE Fx!InitMap
  BY <1>2, FxInitMapStays
<1>3. CASE \E size \in Sizes : Fx!mem_fx_alloc(size)
  <2>1. PICK size \in Sizes : Fx!mem_fx_alloc(size)
    BY <1>3
  <2> QED BY <2>1, FxAllocStays
<1>4. CASE \E block \in s11 : Fx!mem_fx_free(block)
  <2>1. PICK block \in s11 : Fx!mem_fx_free(block)
    BY <1>4
  <2> QED BY <2>1, FxFreeStays
<1>5. CASE Fx!Expand
  BY <1>5, FxExpandStays
<1>6. CASE Fx!Serve
  BY <1>6, FxServeStays
<1>7. CASE Fx!PageMap
  BY <1>7, FxPageMapStays
<1>8. CASE Fx!Create
  BY <1>8, FxCreateStays
<1>9. CASE Fx!CreateMap
  BY <1>9, FxCreateMapStays
<1>10. CASE Fx!ObjectAlloc
  BY <1>10, FxObjectAllocStays
<1> QED BY <1>1, <1>2, <1>3, <1>4, <1>5, <1>6, <1>7, <1>8, <1>9, <1>10 DEF Fx!Next

LEMMA FxBlocksFollow == ASSUME Fx!SizesAssumption, FxInv PROVE Fx!BlocksApart /\ Fx!BlocksMapped
<1> DEFINE B == BlocksOf(s6, s10, s11)
<1>1. Placed(s2, s3, B) /\ CacheRight(s6) /\ LiveRight(s6, s11) /\ PoolsRight(s3) /\ s2 \in Nat
  BY DEF FxInv, FxBlocks
<1>2. s6 \in [1 .. Fx!FXCACHE_MAX -> Seq(FxBlock)] /\ DOMAIN s6 = 1 .. Fx!FXCACHE_MAX
  BY <1>1 DEF CacheRight
<1>3. \A s \in DOMAIN s6 : DOMAIN s6[s] = 1 .. Len(s6[s])
  BY <1>2
<1>4. \A b : b \in Fx!Cached <=> InCache(s6, b)
  BY <1>2, <1>3 DEF Fx!Cached, Fx!ToSet, InCache
<1>5. Fx!AllBlocks \subseteq B
  <2>1. \A b : InCache(s6, b) => b \in FxBlock
    BY <1>2 DEF InCache
  <2> QED BY <1>4, <2>1 DEF Fx!AllBlocks, BlocksOf
<1> HIDE DEF B
<1>6. ASSUME NEW a \in Fx!AllBlocks
      PROVE  /\ a.pool \in Nat /\ a.start \in Nat /\ a.size \in Nat /\ a.pool <= Len(s3)
             /\ a.start + a.size <= Limit(s2, s3, a.pool)
  <2>1. a \in FxBlock /\ a.pool <= Len(s3) /\ a.start + a.size <= Limit(s2, s3, a.pool)
    BY <1>1, <1>5 DEF Placed
  <2> QED BY <2>1 DEF FxBlock
<1>7. ASSUME NEW a \in Fx!AllBlocks, NEW b \in Fx!AllBlocks, a # b
      PROVE  Fx!Bytes(a) \cap Fx!Bytes(b) = {}
  <2>1. \/ a.pool # b.pool \/ a.start + a.size <= b.start \/ b.start + b.size <= a.start
    BY <1>1, <1>5, <1>7 DEF Placed
  <2>2. SUFFICES ASSUME NEW m \in a.start .. a.start + a.size - 1,
                        NEW n \in b.start .. b.start + b.size - 1,
                        <<a.pool, m>> = <<b.pool, n>>
                 PROVE  FALSE
    BY DEF Fx!Bytes
  <2>3. a.pool = b.pool /\ m = n
    BY <2>2
  <2>4. a.start \in Nat /\ a.size \in Nat /\ b.start \in Nat /\ b.size \in Nat
    BY <1>6
  <2> QED BY <2>1, <2>3, <2>4
<1>8. s11 \cap Fx!Cached = {}
  BY <1>1, <1>4 DEF LiveRight
<1>9. ASSUME NEW s \in DOMAIN s6 PROVE Fx!IsInjective(s6[s])
  BY <1>1, <1>2, <1>3 DEF CacheRight, Fx!IsInjective
<1>10. ASSUME NEW a \in Fx!AllBlocks
       PROVE  a.start + a.size <= IF a.pool = 0 THEN s2 ELSE s3[a.pool].current
  BY <1>6 DEF Limit
<1>11. ASSUME NEW a \in Fx!AllBlocks, a.pool # 0 PROVE a.start + a.size <= s3[a.pool].alloc
  <2>1. Len(s3) \in Nat
    BY <1>1, PoolNumbers
  <2>2. a.pool \in 1 .. Len(s3)
    BY <1>6, <1>11, <2>1
  <2>3. PoolRight(s3[a.pool])
    BY <1>1, <2>2, PoolNumbers
  <2>4. /\ s3[a.pool].current \in Nat /\ s3[a.pool].alloc \in Nat
        /\ s3[a.pool].current <= s3[a.pool].alloc
    BY <2>3 DEF PoolRight
  <2>5. a.start \in Nat /\ a.size \in Nat /\ a.start + a.size <= s3[a.pool].current
    BY <1>6, <1>10, <1>11
  <2> QED BY <2>4, <2>5
<1>12. Fx!BlocksApart
  BY <1>7, <1>8, <1>9, <1>10 DEF Fx!BlocksApart
<1>13. Fx!BlocksMapped
  BY <1>11 DEF Fx!BlocksMapped
<1> QED BY <1>12, <1>13

LEMMA FxFull == ASSUME Fx!SizesAssumption, FxInv PROVE Fx!ExhaustedMeansFull
<1> DEFINE p == s3[s4]
           w == Fx!Wanted
<1>1. SUFFICES ASSUME s8 = "serve", Fx!Exhausted(p, w), ~Fx!IsFull(p) PROVE FALSE
  BY DEF Fx!ExhaustedMeansFull, Fx!Pool
<1>2. PoolRight(p) /\ s9.size \in 1 .. Fx!FXCACHE_MAX
  BY <1>1, InCall DEF FxCalls
<1>3. /\ HEADER \in Nat /\ Fx!FXCACHE_MAX \in Nat /\ HEADER + Fx!FXCACHE_MAX <= PAGE_SIZE
      /\ PAGE_SIZE \in Nat
  BY FxFacts
<1>4. w \in Nat /\ w <= PAGE_SIZE
  BY <1>2, <1>3 DEF Fx!Wanted
<1>5. /\ p.current \in Nat /\ p.alloc \in Nat /\ p.size \in Nat /\ p.current <= p.alloc
      /\ p.alloc % PAGE_SIZE = 0 /\ p.size % PAGE_SIZE = 0
  BY <1>2 DEF PoolRight
<1>6. p.current + w > p.size /\ p.alloc < p.size
  BY <1>1, <1>5 DEF Fx!Exhausted, Fx!IsFull
<1> HIDE DEF w
<1> DEFINE a == p.alloc
           b == p.size
<1>7. a \in Nat /\ b \in Nat /\ a % PAGE_SIZE = 0 /\ b % PAGE_SIZE = 0 /\ a < b
  BY <1>5, <1>6
<1>8. p.current <= a /\ p.current + w > b
  BY <1>5, <1>6
<1> HIDE DEF a, b
<1>9. a + PAGE_SIZE <= b
  BY <1>7, PageMore
<1> QED BY <1>3, <1>4, <1>5, <1>7, <1>8, <1>9

LEMMA FxFollows ==
  ASSUME Fx!SizesAssumption, FxInv
  PROVE  Fx!TypeOK /\ Fx!BlocksApart /\ Fx!BlocksMapped /\ Fx!ExhaustedMeansFull
           /\ Fx!FreshPoolServes
<1>1. Fx!TypeOK
  <2>1. /\ s1 \in BOOLEAN /\ s7 \in BOOLEAN /\ s2 \in Nat /\ s2 <= INITIAL_CHUNK /\ PoolsRight(s3)
        /\ FxJob(s9) /\ FxPools /\ FxControl
    BY DEF FxInv
  <2>2. s2 \in 0 .. INITIAL_CHUNK
    BY <2>1, FxFacts
  <2>3. ASSUME NEW k \in 1 .. Len(s3)
        PROVE  /\ s3[k].current \in 0 .. s3[k].alloc /\ s3[k].alloc \in 0 .. s3[k].size
               /\ s3[k].alloc % PAGE_SIZE = 0
    <3>1. PoolRight(s3[k])
      BY <2>1, PoolNumbers
    <3>2. /\ s3[k].current \in Nat /\ s3[k].alloc \in Nat /\ s3[k].size \in Nat
          /\ s3[k].current <= s3[k].alloc /\ s3[k].alloc <= s3[k].size
          /\ s3[k].alloc % PAGE_SIZE = 0
      BY <3>1 DEF PoolRight
    <3> QED BY <3>2
  <2>4. {s4, s5} \subseteq 1 .. Len(s3) \cup {NULL}
    BY <2>1 DEF FxPools
  <2>5. s8 \in {"boot", "init_map", "idle", "expand", "serve", "page_map", "create",
             "create_map", "stopped", "assertion", "reentered", "out_of_bounds",
             "null_dereference"}
    BY <2>1 DEF FxControl, FxCalls, FxEnds
  <2>6. s9 \in [size : 0 .. Fx!FXCACHE_MAX, want : {"record", "first", "again"},
             then : {"first", "again"}, zone : 0 .. SpaceSize, tokens : 0 .. 2]
    BY <2>1 DEF FxJob
  <2> QED BY <2>1, <2>2, <2>3, <2>4, <2>5, <2>6 DEF Fx!TypeOK
<1>2. Fx!FreshPoolServes
  BY DEF FxInv, FxControl, FxCalls, FxEnds, Fx!FreshPoolServes
<1> QED BY <1>1, <1>2, FxBlocksFollow, FxFull

(* Blocks of mem_fx_alloc do not overlap, wherever they wait or are in use, *)
(* lie in mapped pages, and a pool without space for a request is left for  *)
(* a fresh one that serves it (mem_fx.c, mem_fxcache.c, mem_fxseq.c,        *)
(* mem_fxalloc.c), for all sizes and chunks.                                *)
THEOREM FxBlocksCorrect == Spec => []FxBlocksSound
<1> DEFINE Inv == part = "mem_fx" => FxInv
<1>1. Init => Inv
  BY FxBegun, FxAssumption DEF Init
<1>2. Inv /\ [Next]_vars => Inv'
  <2>1. ASSUME Inv, [Next]_vars, part' = "mem_fx" PROVE FxInv'
    <3>1. CASE UNCHANGED vars
      <4>1. UNCHANGED <<s1, s2, s3, s4, s5, s6, s7, s8, s9, s10, s11>>
        BY <3>1 DEF vars
      <4>2. part = "mem_fx"
        BY <2>1, <3>1 DEF vars
      <4> QED BY <2>1, <4>1, <4>2 DEF FxInv, FxPools, FxControl
    <3>2. CASE Next
      <4>1. part = "mem_fx" /\ Fx!Next
        BY <2>1, <3>2 DEF Next
      <4> QED BY <2>1, <4>1, FxStays, FxAssumption
    <3> QED BY <2>1, <3>1, <3>2
  <2> QED BY <2>1
<1>3. Inv => FxBlocksSound
  BY FxFollows, FxAssumption DEF FxBlocksSound
<1> QED BY <1>1, <1>2, <1>3, PTL DEF Spec
=============================================================================
