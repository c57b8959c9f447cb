------------------------------ MODULE CSlotProofs ------------------------------
(***************************************************************************)
(* Proofs about modules CSlot and RangeScan for every size of range and    *)
(* every interval of slots: the invariants of CSlot, that it implements    *)
(* SlotPool, and that the loops which search a range come to the searches  *)
(* that CSlot takes in one step.                                           *)
(***************************************************************************)
EXTENDS RangeScan, WellFoundedInduction, TLAPS

(* What setup guarantees while it runs and once it is over. *)
SetupOK ==
  /\ phase = "setup" => held = {} /\ asked = 0 /\ setupLow < HighSlot
  /\ phase = "ready" => setupLow = HighSlot

(* The inductive invariant: no part of it is inductive without the others. *)
(* Handing out an available slot keeps BitmapIsOwnership only because the  *)
(* ranges are disjoint; ExhaustedMeansNoRun needs the hints to be bounds.  *)
IInv ==
  /\ TypeOK
  /\ SetupOK
  /\ HintIsLowerBound
  /\ BitmapIsOwnership
  /\ RangesDisjoint
  /\ SlotsCovered
  /\ FreeSlotsEmpty
  /\ ExhaustedMeansNoRun

USE BitmapAssumption, SetupAssumption DEF Slots, Offsets

-------------------------------------------------------------------------------
(* Every nonempty set of naturals has a least element. *)
LEMMA LeastNatural ==
  ASSUME NEW S \in SUBSET Nat, S # {}
  PROVE  \E x \in S : \A y \in S : x <= y
<1>1. \E x \in S : \A y \in S : ~(<<y, x>> \in OpToRel(<, Nat))
  BY NatLessThanWellFounded, WFMin, Zenon
<1>2. PICK x \in S : \A y \in S : ~(<<y, x>> \in OpToRel(<, Nat))
  BY <1>1
<1>3. ASSUME NEW y \in S PROVE x <= y
  <2>1. ~(y < x)
    <3>1. x \in Nat /\ y \in Nat  OBVIOUS
    <3>2. <<y, x>> \notin OpToRel(<, Nat)  BY <1>2
    <3> QED BY <3>1, <3>2 DEF OpToRel
  <2> QED BY <2>1
<1> QED BY <1>3

(* The searches leave a range's hint between where it was and the end of   *)
(* the range, and pass over no offset at which they would have stopped.    *)
LEMMA HintAfterBounds ==
  ASSUME TypeOK, NEW i \in 1 .. n, NEW count \in 1 .. BITMAP_ELEMENTS
  PROVE  /\ HintAfter(i, count) \in avail[i] .. BITMAP_ELEMENTS
         /\ \A b \in avail[i] .. HintAfter(i, count) - 1 : ~StopsAt(i, b, count)
<1> DEFINE Stops == {a \in avail[i] .. BITMAP_ELEMENTS : StopsAt(i, a, count)}
<1>1. avail[i] \in 0 .. BITMAP_ELEMENTS
  BY DEF TypeOK
<1>2. Stops \in SUBSET Nat
  BY <1>1
<1>3. BITMAP_ELEMENTS \in Stops
  BY <1>1 DEF StopsAt
<1>4. PICK a \in Stops : \A b \in Stops : a <= b
  <2> HIDE DEF Stops
  <2> QED BY <1>2, <1>3, LeastNatural
<1>5. /\ a \in avail[i] .. BITMAP_ELEMENTS
      /\ StopsAt(i, a, count)
      /\ \A b \in avail[i] .. a - 1 : ~StopsAt(i, b, count)
  BY <1>1, <1>4
<1> QED BY <1>5 DEF HintAfter

(* HintAfter moves a hint forward only over unavailable slots. *)
LEMMA HintAfterSafe ==
  ASSUME TypeOK, HintIsLowerBound, NEW i \in 1 .. n,
         NEW count \in 1 .. BITMAP_ELEMENTS
  PROVE  /\ HintAfter(i, count) \in 0 .. BITMAP_ELEMENTS
         /\ \A o \in bits[i] : HintAfter(i, count) <= o
<1>1. avail[i] \in 0 .. BITMAP_ELEMENTS /\ bits[i] \in SUBSET Offsets
  BY DEF TypeOK
<1>2. /\ HintAfter(i, count) \in avail[i] .. BITMAP_ELEMENTS
      /\ \A b \in avail[i] .. HintAfter(i, count) - 1 : b \notin bits[i]
  BY HintAfterBounds DEF StopsAt
<1>3. \A o \in bits[i] : avail[i] <= o
  BY DEF HintIsLowerBound
<1> QED BY <1>1, <1>2, <1>3

(* With hints that are lower bounds, no run at or after the hint means no  *)
(* run at all.                                                             *)
LEMMA PassedOverMeansNoRun ==
  ASSUME TypeOK, HintIsLowerBound, NEW count \in 1 .. BITMAP_ELEMENTS,
         PassedOver(0, count)
  PROVE  \A i \in 1 .. n : ~\E base \in Offsets :
           base .. base + count - 1 \subseteq bits[i]
<1> SUFFICES ASSUME NEW i \in 1 .. n, NEW base \in Offsets,
                    base .. base + count - 1 \subseteq bits[i]
             PROVE  FALSE
  OBVIOUS
<1>1. base \in bits[i] /\ avail[i] <= base
  BY DEF HintIsLowerBound
<1>2. i \in 0 + 1 .. n /\ RunAt(i, base, count)
  BY <1>1 DEF RunAt
<1> QED BY <1>2 DEF PassedOver, HasRun

(* The initial state satisfies the inductive invariant. *)
LEMMA InitIInv == Init => IInv
<1> SUFFICES ASSUME Init PROVE IInv
  OBVIOUS
<1>1. TypeOK
  BY DEF Init, TypeOK, Errors
<1>2. SetupOK /\ SlotsCovered /\ RangesDisjoint
  BY DEF Init, SetupOK, SlotsCovered, RangesDisjoint
<1>3. HintIsLowerBound /\ BitmapIsOwnership /\ FreeSlotsEmpty /\ ExhaustedMeansNoRun
  BY DEF Init, HintIsLowerBound, BitmapIsOwnership, FreeSlotsEmpty,
         ExhaustedMeansNoRun
<1> QED BY <1>1, <1>2, <1>3 DEF IInv

(* Inserting the next range keeps the inductive invariant. *)
LEMMA SetupRangeIInv == IInv /\ SetupRange => IInv'
<1> SUFFICES ASSUME IInv, SetupRange PROVE IInv'
  OBVIOUS
<1> DEFINE high == IF HighSlot - setupLow > BITMAP_ELEMENTS
                     THEN setupLow + BITMAP_ELEMENTS ELSE HighSlot
<1>1. /\ phase = "setup" /\ held = {} /\ asked = 0
      /\ setupLow \in LowSlot .. HighSlot - 1
      /\ n \in Nat
  BY DEF IInv, TypeOK, SetupOK, SetupRange
<1>2. /\ InsertRange(setupLow, high)
      /\ setupLow' = high
      /\ phase' = IF high = HighSlot /\ HighSlot - setupLow <= BITMAP_ELEMENTS
                    THEN "ready" ELSE "setup"
      /\ UNCHANGED <<held, cnode, ret, errx, asked>>
  BY <1>1 DEF SetupRange, NextLow
<1>3. /\ high \in setupLow + 1 .. HighSlot
      /\ high - setupLow <= BITMAP_ELEMENTS
      /\ phase' = "setup" => high = setupLow + BITMAP_ELEMENTS /\ high < HighSlot
      /\ phase' = "ready" => high = HighSlot
      /\ phase' \in {"setup", "ready"}
  BY <1>1, <1>2
<1> HIDE DEF high
<1>4. /\ n' = n + 1
      /\ \A i \in 1 .. n : low'[i] = low[i] /\ avail'[i] = avail[i] /\ bits'[i] = bits[i]
      /\ low'[n + 1] = setupLow /\ avail'[n + 1] = 0
      /\ bits'[n + 1] = 0 .. high - setupLow - 1
      /\ \A i \in 1 .. n' : i \in 1 .. n \/ i = n + 1
  BY <1>1, <1>2 DEF InsertRange
<1>5. TypeOK'
  <2>1. \A i \in 1 .. n : /\ low[i] \in Slots /\ avail[i] \in 0 .. BITMAP_ELEMENTS
                          /\ bits[i] \in SUBSET Offsets
    BY DEF IInv, TypeOK
  <2>2. low' \in [1 .. n' -> Slots]
    BY <1>1, <1>2, <1>4, <2>1 DEF InsertRange
  <2>3. avail' \in [1 .. n' -> 0 .. BITMAP_ELEMENTS]
    BY <1>1, <1>2, <1>4, <2>1 DEF InsertRange
  <2>4. bits' \in [1 .. n' -> SUBSET Offsets]
    <3>1. 0 .. high - setupLow - 1 \in SUBSET Offsets
      BY <1>1, <1>3
    <3> QED BY <1>1, <1>2, <1>4, <2>1, <3>1 DEF InsertRange
  <2> QED BY <1>1, <1>2, <1>3, <2>2, <2>3, <2>4 DEF IInv, TypeOK, InsertRange
<1>6. SetupOK'
  BY <1>1, <1>2, <1>3 DEF SetupOK
<1>7. HintIsLowerBound'
  BY <1>1, <1>3, <1>4 DEF IInv, HintIsLowerBound
<1>8. BitmapIsOwnership'
  BY <1>1, <1>2, <1>3, <1>4 DEF IInv, BitmapIsOwnership
<1>9. RangesDisjoint'
  <2>1. \A i \in 1 .. n : low[i] \in Int /\ low[i] + BITMAP_ELEMENTS <= setupLow
    BY <1>1 DEF IInv, RangesDisjoint, TypeOK
  <2> QED BY <1>1, <1>2, <1>3, <1>4, <2>1 DEF IInv, RangesDisjoint
<1>10. SlotsCovered'
  <2> SUFFICES ASSUME NEW ptr \in LowSlot .. high - 1
               PROVE  \E i \in 1 .. n' : Covers(i, ptr)'
    BY <1>2 DEF SlotsCovered
  <2>1. CASE ptr < setupLow
    <3>1. PICK i \in 1 .. n : Covers(i, ptr)
      BY <1>1, <2>1 DEF IInv, SlotsCovered
    <3> QED BY <1>1, <1>4, <3>1 DEF Covers
  <2>2. CASE ptr >= setupLow
    BY <1>1, <1>3, <1>4, <2>2 DEF Covers
  <2> QED BY <1>1, <1>3, <2>1, <2>2
<1>11. FreeSlotsEmpty' /\ ExhaustedMeansNoRun'
  BY <1>1, <1>2 DEF IInv, FreeSlotsEmpty, ExhaustedMeansNoRun
<1> QED BY <1>5, <1>6, <1>7, <1>8, <1>9, <1>10, <1>11 DEF IInv

(* What a taken run is: slots of the process that nobody holds. *)
LEMMA RunIsFree ==
  ASSUME IInv, NEW i \in 1 .. n, NEW base \in Offsets,
         NEW count \in 1 .. BITMAP_ELEMENTS, RunAt(i, base, count)
  PROVE  /\ base + count <= BITMAP_ELEMENTS
         /\ low[i] + base .. low[i] + base + count - 1 \subseteq Slots
         /\ (low[i] + base .. low[i] + base + count - 1) \cap held = {}
<1>1. base .. base + count - 1 \subseteq bits[i]
  BY DEF RunAt
<1>2. bits[i] \subseteq Offsets /\ low[i] \in Slots
  BY DEF IInv, TypeOK
<1>3. base + count - 1 \in bits[i]
  BY <1>1
<1>4. ASSUME NEW ptr \in low[i] + base .. low[i] + base + count - 1
      PROVE  ptr \in Slots /\ ptr \notin held
  <2>1. ptr - low[i] \in bits[i] /\ ptr - low[i] \in Offsets
    BY <1>1, <1>2
  <2>2. low[i] + (ptr - low[i]) = ptr
    BY <1>2
  <2> QED BY <2>1, <2>2 DEF IInv, BitmapIsOwnership
<1> QED BY <1>2, <1>3, <1>4

(* Taking a run keeps the parts of the invariant about ownership. *)
LEMMA TakeKeeps ==
  ASSUME IInv, NEW i \in 1 .. n, NEW base \in Offsets,
         NEW count \in 1 .. BITMAP_ELEMENTS, RunAt(i, base, count),
         Take(i, base, count), phase = "ready",
         UNCHANGED <<phase, setupLow, n, low, cnode>>
  PROVE  /\ bits' \in [1 .. n -> SUBSET Offsets]
         /\ \A j \in 1 .. n : bits'[j] \subseteq bits[j]
         /\ held' \subseteq Slots /\ ret' \subseteq held'
         /\ errx' \in Errors /\ asked' = 0
         /\ SetupOK' /\ BitmapIsOwnership' /\ RangesDisjoint' /\ SlotsCovered'
         /\ FreeSlotsEmpty' /\ ExhaustedMeansNoRun'
<1> DEFINE run == low[i] + base .. low[i] + base + count - 1
<1>1. /\ base + count <= BITMAP_ELEMENTS
      /\ run \subseteq Slots
      /\ run \cap held = {}
  BY RunIsFree
<1>2. /\ n \in Nat
      /\ low \in [1 .. n -> Slots]
      /\ bits \in [1 .. n -> SUBSET Offsets]
      /\ held \subseteq Slots
  BY DEF IInv, TypeOK
<1>3. /\ bits' = [bits EXCEPT ![i] = @ \ (base .. base + count - 1)]
      /\ held' = held \cup run /\ ret' = run /\ errx' = "NONE" /\ asked' = 0
  BY DEF Take, Returns
<1>4. /\ bits' \in [1 .. n -> SUBSET Offsets]
      /\ \A j \in 1 .. n : bits'[j] \subseteq bits[j]
  BY <1>2, <1>3
<1>5. BitmapIsOwnership'
  <2> SUFFICES ASSUME NEW j \in 1 .. n, NEW o \in Offsets
               PROVE  o \in bits'[j] <=> /\ low[j] + o \in Slots
                                         /\ low[j] + o \notin held'
    BY DEF BitmapIsOwnership
  <2>1. o \in bits[j] <=> low[j] + o \in Slots /\ low[j] + o \notin held
    BY DEF IInv, BitmapIsOwnership
  <2>2. CASE j = i
    <3>1. o \in bits'[j] <=> o \in bits[j] /\ o \notin base .. base + count - 1
      BY <1>2, <1>3, <2>2
    <3>2. low[j] + o \in run <=> o \in base .. base + count - 1
      BY <1>2, <2>2
    <3> QED BY <1>3, <2>1, <3>1, <3>2
  <2>3. CASE j # i
    <3>1. bits'[j] = bits[j]
      BY <1>2, <1>3, <2>3
    <3>2. low[j] + BITMAP_ELEMENTS <= low[i] \/ low[i] + BITMAP_ELEMENTS <= low[j]
      BY <1>2, <2>3 DEF IInv, RangesDisjoint
    <3>3. low[j] + o \notin run
      BY <1>1, <1>2, <3>2
    <3> QED BY <1>3, <2>1, <3>1, <3>3
  <2> QED BY <2>2, <2>3
<1>6. SetupOK' /\ RangesDisjoint'
  BY DEF IInv, SetupOK, RangesDisjoint
<1>7. SlotsCovered'
  BY DEF IInv, SlotsCovered, Covers
<1>8. FreeSlotsEmpty' /\ ExhaustedMeansNoRun'
  BY <1>3 DEF IInv, FreeSlotsEmpty, ExhaustedMeansNoRun
<1> QED BY <1>1, <1>2, <1>3, <1>4, <1>5, <1>6, <1>7, <1>8 DEF Errors

(* A call that reports exhaustion keeps the invariant. *)
LEMMA ExhaustedIInv ==
  ASSUME IInv, NEW count \in 1 .. BITMAP_ELEMENTS, Exhausted(count),
         UNCHANGED <<phase, setupLow, n, low, cnode>>, phase = "ready"
  PROVE  IInv'
<1>1. /\ PassedOver(0, count)
      /\ avail' = [j \in 1 .. n |-> HintAfter(j, count)]
      /\ ret' = {} /\ errx' = "GERR_MEMORY_POOL_EXHAUSTED" /\ asked' = count
      /\ UNCHANGED <<bits, held>>
  BY DEF Exhausted
<1>2. \A j \in 1 .. n : /\ HintAfter(j, count) \in 0 .. BITMAP_ELEMENTS
                        /\ \A o \in bits[j] : HintAfter(j, count) <= o
  BY HintAfterSafe DEF IInv
<1>3. TypeOK'
  BY <1>1, <1>2 DEF IInv, TypeOK, Errors
<1>4. HintIsLowerBound'
  BY <1>1, <1>2 DEF HintIsLowerBound
<1>5. ExhaustedMeansNoRun'
  <2>1. \A i \in 1 .. n : ~\E base \in Offsets :
          base .. base + count - 1 \subseteq bits[i]
    BY <1>1, PassedOverMeansNoRun DEF IInv
  <2> QED BY <1>1, <2>1 DEF ExhaustedMeansNoRun
<1>6. SetupOK' /\ RangesDisjoint' /\ BitmapIsOwnership' /\ FreeSlotsEmpty'
  BY <1>1 DEF IInv, SetupOK, RangesDisjoint, BitmapIsOwnership, FreeSlotsEmpty
<1>7. SlotsCovered'
  BY DEF IInv, SlotsCovered, Covers
<1> QED BY <1>3, <1>4, <1>5, <1>6, <1>7 DEF IInv

(* cslot_alloc keeps the inductive invariant. *)
LEMMA AllocOneIInv ==
  ASSUME IInv, phase = "ready", AllocOne,
         UNCHANGED <<phase, setupLow, n, low, cnode>>
  PROVE  IInv'
<1>0. 1 \in 1 .. BITMAP_ELEMENTS
  OBVIOUS
<1>1. CASE Exhausted(1)
  BY <1>0, <1>1, ExhaustedIInv
<1>2. ASSUME NEW i \in 1 .. n, NEW base \in Offsets,
             PassedOver(i, 1), FirstRunIs(i, base, 1), Take(i, base, 1),
             avail' = [j \in 1 .. n |->
                         IF j > i THEN HintAfter(j, 1)
                         ELSE IF j = i THEN base + 1 ELSE avail[j]]
      PROVE  IInv'
  <2>1. RunAt(i, base, 1)
    BY <1>2 DEF FirstRunIs
  <2>2. /\ bits' \in [1 .. n -> SUBSET Offsets]
        /\ \A j \in 1 .. n : bits'[j] \subseteq bits[j]
        /\ held' \subseteq Slots /\ ret' \subseteq held'
        /\ errx' \in Errors /\ asked' = 0
        /\ SetupOK' /\ BitmapIsOwnership' /\ RangesDisjoint' /\ SlotsCovered'
        /\ FreeSlotsEmpty' /\ ExhaustedMeansNoRun'
    BY <1>0, <1>2, <2>1, TakeKeeps
  <2>3. /\ n \in Nat /\ avail \in [1 .. n -> 0 .. BITMAP_ELEMENTS]
        /\ bits \in [1 .. n -> SUBSET Offsets]
    BY DEF IInv, TypeOK
  <2>4. \A j \in 1 .. n : avail'[j] \in 0 .. BITMAP_ELEMENTS
                          /\ \A o \in bits'[j] : avail'[j] <= o
    <3> SUFFICES ASSUME NEW j \in 1 .. n
                 PROVE  avail'[j] \in 0 .. BITMAP_ELEMENTS
                        /\ \A o \in bits'[j] : avail'[j] <= o
      OBVIOUS
    <3>1. CASE j > i
      <4>1. avail'[j] = HintAfter(j, 1)
        BY <1>2, <2>3, <3>1
      <4>2. /\ HintAfter(j, 1) \in 0 .. BITMAP_ELEMENTS
            /\ \A o \in bits[j] : HintAfter(j, 1) <= o
        BY <1>0, HintAfterSafe DEF IInv
      <4> QED BY <2>2, <4>1, <4>2
    <3>2. CASE j = i
      <4>1. avail'[j] = base + 1
        BY <1>2, <2>3, <3>2
      <4>2. bits'[i] = bits[i] \ (base .. base)
        BY <1>2, <2>3 DEF Take
      <4>3. \A o \in bits[i] : avail[i] <= o
        BY DEF IInv, HintIsLowerBound
      <4>4. \A o \in bits[i] : base <= o
        <5> SUFFICES ASSUME NEW o \in bits[i] PROVE base <= o
          OBVIOUS
        <5>1. o \in Offsets /\ o >= avail[i]
          BY <2>3, <4>3
        <5>2. RunAt(i, o, 1)
          BY <5>1 DEF RunAt
        <5> QED BY <1>2, <5>1, <5>2 DEF FirstRunIs
      <4> QED BY <2>3, <3>2, <4>1, <4>2, <4>4
    <3>3. CASE j < i
      <4>1. avail'[j] = avail[j]
        BY <1>2, <2>3, <3>3
      <4> QED BY <2>2, <2>3, <4>1 DEF IInv, HintIsLowerBound
    <3> QED BY <2>3, <3>1, <3>2, <3>3
  <2>5. avail' \in [1 .. n -> 0 .. BITMAP_ELEMENTS]
    BY <1>2, <2>4
  <2>6. TypeOK'
    BY <2>2, <2>5 DEF IInv, TypeOK
  <2>7. HintIsLowerBound'
    BY <2>4 DEF HintIsLowerBound
  <2> QED BY <2>2, <2>6, <2>7 DEF IInv
<1> QED BY <1>1, <1>2 DEF AllocOne

(* cslot_alloc_slab's search for a run keeps the inductive invariant. *)
LEMMA AllocRunIInv ==
  ASSUME IInv, phase = "ready", NEW count \in 2 .. BITMAP_ELEMENTS,
         AllocRun(count), UNCHANGED <<phase, setupLow, n, low, cnode>>
  PROVE  IInv'
<1>0. count \in 1 .. BITMAP_ELEMENTS
  OBVIOUS
<1>1. CASE Exhausted(count)
  BY <1>0, <1>1, ExhaustedIInv
<1>2. ASSUME NEW i \in 1 .. n, NEW base \in Offsets,
             FirstRunIs(i, base, count), Take(i, base, count),
             avail' = [j \in 1 .. n |->
                         IF j >= i THEN HintAfter(j, count) ELSE avail[j]]
      PROVE  IInv'
  <2>1. RunAt(i, base, count)
    BY <1>2 DEF FirstRunIs
  <2>2. /\ bits' \in [1 .. n -> SUBSET Offsets]
        /\ \A j \in 1 .. n : bits'[j] \subseteq bits[j]
        /\ held' \subseteq Slots /\ ret' \subseteq held'
        /\ errx' \in Errors /\ asked' = 0
        /\ SetupOK' /\ BitmapIsOwnership' /\ RangesDisjoint' /\ SlotsCovered'
        /\ FreeSlotsEmpty' /\ ExhaustedMeansNoRun'
    BY <1>0, <1>2, <2>1, TakeKeeps
  <2>3. \A j \in 1 .. n : /\ HintAfter(j, count) \in 0 .. BITMAP_ELEMENTS
                          /\ \A o \in bits[j] : HintAfter(j, count) <= o
    BY <1>0, HintAfterSafe DEF IInv
  <2>4. \A j \in 1 .. n : /\ avail[j] \in 0 .. BITMAP_ELEMENTS
                          /\ \A o \in bits[j] : avail[j] <= o
    BY DEF IInv, TypeOK, HintIsLowerBound
  <2>5. TypeOK'
    <3>1. avail' \in [1 .. n -> 0 .. BITMAP_ELEMENTS]
      BY <1>2, <2>3, <2>4
    <3>2. asked' \in 0 .. BITMAP_ELEMENTS
      BY <2>2
    <3> QED BY <2>2, <3>1, <3>2 DEF IInv, TypeOK
  <2>6. HintIsLowerBound'
    BY <1>2, <2>2, <2>3, <2>4 DEF HintIsLowerBound
  <2> QED BY <2>2, <2>5, <2>6 DEF IInv
<1> QED BY <1>1, <1>2 DEF AllocRun

(* cslot_free keeps the inductive invariant, also when it stops the process. *)
LEMMA FreeIInv ==
  ASSUME IInv, NEW ptr \in Slots, Free(ptr)
  PROVE  IInv'
<1>1. /\ phase = "ready" /\ cnode' = cnode \ {ptr}
      /\ UNCHANGED <<setupLow, n, low>>
  BY DEF Free, EmptySlot
<1>2. PICK i \in 1 .. n :
        /\ FoundIn(i, ptr)
        /\ IF ptr - low[i] \in bits[i]
             THEN /\ phase' = "halted"
                  /\ UNCHANGED <<avail, bits, held, ret, errx, asked>>
             ELSE /\ bits' = [bits EXCEPT ![i] = @ \cup {ptr - low[i]}]
                  /\ avail' = [avail EXCEPT ![i] = HintBelow(i, ptr)]
                  /\ held' = held \ {ptr}
                  /\ Returns({}, "NONE")
                  /\ UNCHANGED phase
  BY DEF Free
<1>3. /\ n \in Nat /\ low \in [1 .. n -> Slots]
      /\ avail \in [1 .. n -> 0 .. BITMAP_ELEMENTS]
      /\ bits \in [1 .. n -> SUBSET Offsets]
  BY DEF IInv, TypeOK
<1> DEFINE off == ptr - low[i]
<1>4. off \in Offsets /\ low[i] + off = ptr
  BY <1>2, <1>3 DEF FoundIn, Covers
<1>5. CASE off \in bits[i]
  <2>1. phase' = "halted" /\ UNCHANGED <<avail, bits, held, ret, errx, asked>>
    BY <1>2, <1>5
  <2>2. ptr \notin held
    BY <1>4, <1>5 DEF IInv, BitmapIsOwnership
  <2>3. TypeOK' /\ SetupOK' /\ FreeSlotsEmpty'
    BY <1>1, <2>1, <2>2 DEF IInv, TypeOK, SetupOK, FreeSlotsEmpty
  <2>4. HintIsLowerBound' /\ BitmapIsOwnership' /\ ExhaustedMeansNoRun'
    BY <1>1, <2>1 DEF IInv, HintIsLowerBound, BitmapIsOwnership, ExhaustedMeansNoRun
  <2>5. RangesDisjoint' /\ SlotsCovered'
    BY <1>1, <2>1 DEF IInv, RangesDisjoint, SlotsCovered, Covers
  <2> QED BY <2>3, <2>4, <2>5 DEF IInv
<1>6. CASE off \notin bits[i]
  <2>1. /\ bits' = [bits EXCEPT ![i] = @ \cup {off}]
        /\ avail' = [avail EXCEPT ![i] = HintBelow(i, ptr)]
        /\ held' = held \ {ptr}
        /\ ret' = {} /\ errx' = "NONE" /\ asked' = 0
        /\ UNCHANGED phase
    BY <1>2, <1>6 DEF Returns
  <2>2. /\ HintBelow(i, ptr) \in 0 .. BITMAP_ELEMENTS
        /\ HintBelow(i, ptr) <= off /\ HintBelow(i, ptr) <= avail[i]
    BY <1>3, <1>4 DEF HintBelow
  <2>3. TypeOK'
    <3>1. avail' \in [1 .. n -> 0 .. BITMAP_ELEMENTS]
      BY <1>3, <2>1, <2>2
    <3>2. bits' \in [1 .. n -> SUBSET Offsets]
      BY <1>3, <1>4, <2>1
    <3> QED BY <1>1, <2>1, <3>1, <3>2 DEF IInv, TypeOK, Errors
  <2>4. HintIsLowerBound'
    <3> SUFFICES ASSUME NEW j \in 1 .. n, NEW o \in bits'[j]
                 PROVE  avail'[j] <= o
      BY <1>1 DEF HintIsLowerBound
    <3>1. CASE j = i
      <4>1. o = off \/ (o \in bits[i] /\ avail[i] <= o)
        BY <1>3, <2>1, <3>1 DEF IInv, HintIsLowerBound
      <4>2. o \in Int /\ avail'[j] = HintBelow(i, ptr) /\ avail[i] \in Int
        BY <1>3, <1>4, <2>1, <3>1, <4>1
      <4> QED BY <2>2, <4>1, <4>2
    <3>2. CASE j # i
      BY <1>3, <2>1, <3>2 DEF IInv, HintIsLowerBound
    <3> QED BY <3>1, <3>2
  <2>5. BitmapIsOwnership'
    <3> SUFFICES ASSUME NEW j \in 1 .. n, NEW o \in Offsets
                 PROVE  o \in bits'[j] <=> /\ low[j] + o \in Slots
                                           /\ low[j] + o \notin held'
      BY <1>1 DEF BitmapIsOwnership
    <3>1. o \in bits[j] <=> low[j] + o \in Slots /\ low[j] + o \notin held
      BY DEF IInv, BitmapIsOwnership
    <3>2. CASE j = i
      <4>1. o \in bits'[j] <=> o \in bits[j] \/ o = off
        BY <1>3, <2>1, <3>2
      <4>2. low[j] + o = ptr <=> o = off
        BY <1>3, <1>4, <3>2
      <4> QED BY <2>1, <3>1, <4>1, <4>2
    <3>3. CASE j # i
      <4>1. low[j] + BITMAP_ELEMENTS <= low[i] \/ low[i] + BITMAP_ELEMENTS <= low[j]
        BY <1>3, <3>3 DEF IInv, RangesDisjoint
      <4>2. low[j] \in Int /\ low[i] \in Int
        BY <1>3
      <4>3. low[j] + o # low[i] + off
        <5> HIDE DEF off
        <5> QED BY <1>4, <4>1, <4>2
      <4>4. low[j] + o # ptr
        BY <1>4, <4>3
      <4> QED BY <1>3, <2>1, <3>1, <3>3, <4>4
    <3> QED BY <3>2, <3>3
  <2>6. FreeSlotsEmpty' /\ ExhaustedMeansNoRun' /\ SetupOK'
    BY <1>1, <2>1 DEF IInv, FreeSlotsEmpty, ExhaustedMeansNoRun, SetupOK
  <2>7. RangesDisjoint' /\ SlotsCovered'
    BY <1>1, <2>1 DEF IInv, RangesDisjoint, SlotsCovered, Covers
  <2> QED BY <2>3, <2>4, <2>5, <2>6, <2>7 DEF IInv
<1> QED BY <1>5, <1>6

(* A call on slots that only changes which of them are occupied keeps it. *)
LEMMA KernelIInv ==
  ASSUME IInv, phase = "ready", cnode' \subseteq held,
         ret' = {}, errx' \in Errors, asked' = 0,
         UNCHANGED <<phase, setupLow, n, low, avail, bits, held>>
  PROVE  IInv'
<1>1. TypeOK' /\ SetupOK' /\ HintIsLowerBound' /\ BitmapIsOwnership'
  BY DEF IInv, TypeOK, SetupOK, HintIsLowerBound, BitmapIsOwnership
<1>2. RangesDisjoint' /\ SlotsCovered' /\ FreeSlotsEmpty' /\ ExhaustedMeansNoRun'
  BY DEF IInv, RangesDisjoint, SlotsCovered, Covers, FreeSlotsEmpty,
         ExhaustedMeansNoRun
<1> QED BY <1>1, <1>2 DEF IInv

(* Every step keeps the inductive invariant. *)
LEMMA NextIInv == IInv /\ [Next]_vars => IInv'
<1> SUFFICES ASSUME IInv, [Next]_vars PROVE IInv'
  OBVIOUS
<1>0. cnode \subseteq held
  BY DEF IInv, FreeSlotsEmpty
<1>1. CASE SetupRange
  BY <1>1, SetupRangeIInv
<1>2. CASE SetupFails
  <2>1. /\ phase = "setup" /\ phase' = "halted"
        /\ UNCHANGED <<setupLow, n, low, avail, bits, held, cnode, ret, errx, asked>>
    BY <1>2 DEF SetupFails
  <2>2. TypeOK' /\ SetupOK' /\ HintIsLowerBound' /\ BitmapIsOwnership'
    BY <2>1 DEF IInv, TypeOK, SetupOK, HintIsLowerBound, BitmapIsOwnership
  <2>3. RangesDisjoint' /\ SlotsCovered' /\ FreeSlotsEmpty' /\ ExhaustedMeansNoRun'
    BY <2>1 DEF IInv, RangesDisjoint, SlotsCovered, Covers, FreeSlotsEmpty,
                ExhaustedMeansNoRun
  <2> QED BY <2>2, <2>3 DEF IInv
<1>3. CASE Alloc
  BY <1>3, AllocOneIInv DEF Alloc
<1>4. ASSUME NEW count \in 0 .. BITMAP_ELEMENTS + 1, AllocSlab(count)
      PROVE  IInv'
  <2>1. phase = "ready" /\ UNCHANGED <<phase, setupLow, n, low, cnode>>
    BY <1>4 DEF AllocSlab
  <2>2. CASE AllocOne
    BY <2>1, <2>2, AllocOneIInv
  <2>3. CASE count \in 2 .. BITMAP_ELEMENTS /\ AllocRun(count)
    BY <2>1, <2>3, AllocRunIInv
  <2>4. ASSUME NEW error \in {"GERR_OUT_OF_RANGE", "GERR_REQUEST_TOO_LARGE"},
               Refused(error)
        PROVE  IInv'
    BY <1>0, <2>1, <2>4, KernelIInv DEF Refused, Returns, Errors
  <2> QED BY <1>4, <2>2, <2>3, <2>4 DEF AllocSlab
<1>5. ASSUME NEW ptr \in Slots, Free(ptr) PROVE IInv'
  BY <1>5, FreeIInv
<1>6. CASE KernelRefuses
  BY <1>0, <1>6, KernelIInv DEF KernelRefuses, Returns, Errors
<1>7. ASSUME NEW filled \in SUBSET held, ToKernel(filled) PROVE IInv'
  BY <1>7, KernelIInv DEF ToKernel, Returns, Errors
<1>8. ASSUME NEW ptr \in held, NEW num \in 1 .. BITMAP_ELEMENTS, Fill(ptr, num)
      PROVE  IInv'
  BY <1>0, <1>6, <1>7, <1>8 DEF Fill
<1>9. ASSUME NEW from \in held, NEW to \in held, Mutate(from, to) PROVE IInv'
  BY <1>0, <1>6, <1>7, <1>9 DEF Mutate
<1>10. ASSUME NEW ptr \in held, Delete(ptr) PROVE IInv'
  BY <1>0, <1>7, <1>10 DEF Delete
<1>11. ASSUME NEW ptr \in held, Revoke(ptr) PROVE IInv'
  BY <1>0, <1>6, <1>7, <1>11 DEF Revoke
<1>12. CASE UNCHANGED vars
  <2>1. TypeOK' /\ SetupOK' /\ HintIsLowerBound' /\ BitmapIsOwnership'
    BY <1>12 DEF vars, IInv, TypeOK, SetupOK, HintIsLowerBound, BitmapIsOwnership
  <2>2. RangesDisjoint' /\ SlotsCovered' /\ FreeSlotsEmpty' /\ ExhaustedMeansNoRun'
    BY <1>12 DEF vars, IInv, RangesDisjoint, SlotsCovered, Covers,
                 FreeSlotsEmpty, ExhaustedMeansNoRun
  <2> QED BY <2>1, <2>2 DEF IInv
<1> QED BY <1>1, <1>2, <1>3, <1>4, <1>5, <1>8, <1>9, <1>10, <1>11, <1>12 DEF Next

(* The inductive invariant holds throughout. *)
LEMMA Inductive == Spec => []IInv
BY InitIInv, NextIInv, PTL DEF Spec

-------------------------------------------------------------------------------
(* The types hold, whatever the calls (cslot.c as a whole). *)
THEOREM TypeCorrect == Spec => []TypeOK
<1>1. IInv => TypeOK  BY DEF IInv
<1> QED BY <1>1, Inductive, PTL

(* The hint is always a lower bound of the free slots of its range, as the *)
(* comment at cslot.c:13 says.                                             *)
THEOREM HintCorrect == Spec => []HintIsLowerBound
<1>1. IInv => HintIsLowerBound  BY DEF IInv
<1> QED BY <1>1, Inductive, PTL

(* The bitmap is exactly the complement of what the callers hold: no slot  *)
(* is handed out twice, lost, or handed out beyond the limit.              *)
THEOREM OwnershipCorrect == Spec => []BitmapIsOwnership
<1>1. IInv => BitmapIsOwnership  BY DEF IInv
<1> QED BY <1>1, Inductive, PTL

(* A free slot is empty in the kernel, so that its next owner can fill it. *)
THEOREM FreeSlotsEmptyCorrect == Spec => []FreeSlotsEmpty
<1>1. IInv => FreeSlotsEmpty  BY DEF IInv
<1> QED BY <1>1, Inductive, PTL

(* Exhaustion is reported only when no range has enough free slots in a    *)
(* row: neither the hints nor the jumps of the searches hide one.          *)
THEOREM ExhaustionCorrect == Spec => []ExhaustedMeansNoRun
<1>1. IInv => ExhaustedMeansNoRun  BY DEF IInv
<1> QED BY <1>1, Inductive, PTL

-------------------------------------------------------------------------------
(* The allocator implements SlotPool: initial states and steps map.        *)

(* The allocator before set-up is the pool before it has slots. *)
LEMMA PoolInit == Init => Pool!Init
BY DEF Init, Pool!Init

(* A taken run is a grant of the pool. *)
LEMMA TakeIsGrant ==
  ASSUME IInv, phase = "ready", UNCHANGED phase,
         NEW i \in 1 .. n, NEW base \in Offsets,
         NEW count \in 1 .. BITMAP_ELEMENTS,
         RunAt(i, base, count), Take(i, base, count)
  PROVE  Pool!Grant
<1> DEFINE first == low[i] + base
           last == low[i] + base + count - 1
<1>1. /\ first .. last \subseteq Slots
      /\ (first .. last) \cap held = {}
  BY RunIsFree
<1>2. low[i] \in Int
  BY DEF IInv, TypeOK
<1>3. first \in first .. last /\ last \in first .. last
  BY <1>2
<1>4. ret' = first .. last /\ held' = held \cup ret' /\ asked' = 0
  BY DEF Take, Returns
<1>5. first \in Pool!Slots /\ last \in Pool!Slots /\ first <= last
  BY <1>1, <1>2, <1>3 DEF Pool!Slots
<1> HIDE DEF first, last
<1> QED BY <1>1, <1>4, <1>5 DEF Pool!Grant

(* A reported exhaustion is a refusal of the pool. *)
LEMMA ExhaustedIsRefuse ==
  ASSUME IInv, phase = "ready", UNCHANGED phase,
         NEW count \in 1 .. BITMAP_ELEMENTS, Exhausted(count)
  PROVE  Pool!Refuse
<1>1. ret' = {} /\ asked' = count /\ UNCHANGED held
  BY DEF Exhausted
<1>2. ASSUME count = 1 PROVE held = Slots
  <2>1. held \subseteq Slots
    BY DEF IInv, TypeOK
  <2>2. ASSUME NEW ptr \in Slots PROVE ptr \in held
    <3>1. ptr \in LowSlot .. setupLow - 1
      BY DEF IInv, SetupOK
    <3>2. PICK i \in 1 .. n : Covers(i, ptr)
      BY <3>1 DEF IInv, SlotsCovered
    <3>3. low[i] \in Int
      BY DEF IInv, TypeOK
    <3>4. /\ ptr - low[i] \in Offsets
          /\ low[i] + (ptr - low[i]) = ptr
          /\ ptr - low[i] .. ptr - low[i] + count - 1 = {ptr - low[i]}
      BY <1>2, <3>2, <3>3 DEF Covers
    <3>5. ~\E base \in Offsets : base .. base + count - 1 \subseteq bits[i]
      BY PassedOverMeansNoRun DEF IInv, Exhausted
    <3> DEFINE off == ptr - low[i]
    <3> HIDE DEF off
    <3>6. /\ off \in Offsets /\ low[i] + off = ptr
          /\ off .. off + count - 1 = {off}
      BY <3>4 DEF off
    <3>7. off \in bits[i] => off .. off + count - 1 \subseteq bits[i]
      BY <3>6
    <3>8. off \notin bits[i]
      BY <3>5, <3>6, <3>7
    <3> QED BY <3>6, <3>8 DEF IInv, BitmapIsOwnership
  <2> QED BY <2>1, <2>2
<1> QED BY <1>1, <1>2 DEF Pool!Refuse, Pool!Slots

(* Every step of the allocator is a step of the pool, or none. *)
LEMMA PoolStep == IInv /\ [Next]_vars => [Pool!Next]_(Pool!poolVars)
<1> SUFFICES ASSUME IInv, [Next]_vars PROVE [Pool!Next]_(Pool!poolVars)
  OBVIOUS
<1>1. CASE SetupRange
  BY <1>1 DEF SetupRange, Pool!poolVars, Pool!Next, Pool!Setup
<1>2. CASE SetupFails
  BY <1>2 DEF SetupFails, Pool!Next, Pool!Setup
<1>3. ASSUME phase = "ready", UNCHANGED phase, AllocOne PROVE Pool!Next
  <2>1. 1 \in 1 .. BITMAP_ELEMENTS
    OBVIOUS
  <2>2. CASE Exhausted(1)
    BY <1>3, <2>1, <2>2, ExhaustedIsRefuse DEF Pool!Next
  <2>3. CASE \E i \in 1 .. n, base \in Offsets :
               FirstRunIs(i, base, 1) /\ Take(i, base, 1)
    BY <1>3, <2>1, <2>3, TakeIsGrant DEF FirstRunIs, Pool!Next
  <2> QED BY <1>3, <2>2, <2>3 DEF AllocOne
<1>4. CASE Alloc
  BY <1>3, <1>4 DEF Alloc
<1>5. ASSUME NEW count \in 0 .. BITMAP_ELEMENTS + 1, AllocSlab(count)
      PROVE  Pool!Next
  <2>1. phase = "ready" /\ UNCHANGED phase
    BY <1>5 DEF AllocSlab
  <2>2. CASE AllocOne
    BY <1>3, <2>1, <2>2
  <2>3. CASE count \in 2 .. BITMAP_ELEMENTS /\ AllocRun(count)
    <3>1. count \in 1 .. BITMAP_ELEMENTS
      BY <2>3
    <3>2. CASE Exhausted(count)
      BY <2>1, <3>1, <3>2, ExhaustedIsRefuse DEF Pool!Next
    <3>3. CASE \E i \in 1 .. n, base \in Offsets :
                 FirstRunIs(i, base, count) /\ Take(i, base, count)
      BY <2>1, <3>1, <3>3, TakeIsGrant DEF FirstRunIs, Pool!Next
    <3> QED BY <2>3, <3>2, <3>3 DEF AllocRun
  <2>4. ASSUME NEW error, Refused(error) PROVE Pool!Next
    BY <2>1, <2>4 DEF Refused, Returns, Pool!Next, Pool!Other
  <2> QED BY <1>5, <2>2, <2>3, <2>4 DEF AllocSlab
<1>6. ASSUME NEW ptr \in Slots, Free(ptr) PROVE Pool!Next
  <2>1. PICK i \in 1 .. n :
          /\ FoundIn(i, ptr)
          /\ IF ptr - low[i] \in bits[i]
               THEN /\ phase' = "halted"
                    /\ UNCHANGED <<avail, bits, held, ret, errx, asked>>
               ELSE /\ held' = held \ {ptr}
                    /\ Returns({}, "NONE")
                    /\ UNCHANGED phase
    BY <1>6 DEF Free
  <2>2. phase = "ready"
    BY <1>6 DEF Free
  <2>3. CASE ptr - low[i] \in bits[i]
    BY <2>1, <2>2, <2>3 DEF Pool!Next, Pool!Halt
  <2>4. CASE ptr - low[i] \notin bits[i]
    <3>1. low[i] \in Int
      BY DEF IInv, TypeOK
    <3>2. ptr - low[i] \in Offsets /\ low[i] + (ptr - low[i]) = ptr
      BY <2>1, <3>1 DEF FoundIn, Covers
    <3>3. ptr \in held
      BY <2>4, <3>2 DEF IInv, BitmapIsOwnership
    <3> QED BY <2>1, <2>2, <2>4, <3>3 DEF Returns, Pool!Next, Pool!Release
  <2> QED BY <2>3, <2>4
<1>7. ASSUME phase = "ready", ret' = {}, asked' = 0, UNCHANGED <<phase, held>>
      PROVE  Pool!Next
  BY <1>7 DEF Pool!Next, Pool!Other
<1>9. ASSUME NEW ptr, NEW num, Fill(ptr, num) PROVE Pool!Next
  BY <1>7, <1>9 DEF Fill, ToKernel, KernelRefuses, Returns
<1>10. ASSUME NEW from, NEW to, Mutate(from, to) PROVE Pool!Next
  BY <1>7, <1>10 DEF Mutate, ToKernel, KernelRefuses, Returns
<1>11. ASSUME NEW ptr, Delete(ptr) PROVE Pool!Next
  BY <1>7, <1>11 DEF Delete, ToKernel, Returns
<1>12. ASSUME NEW ptr, Revoke(ptr) PROVE Pool!Next
  BY <1>7, <1>12 DEF Revoke, ToKernel, KernelRefuses, Returns
<1>13. CASE UNCHANGED vars
  BY <1>13 DEF vars, Pool!poolVars
<1> QED BY <1>1, <1>2, <1>4, <1>5, <1>6, <1>9, <1>10, <1>11, <1>12, <1>13 DEF Next

(* cslot.c implements the pool of slots it promises, for every size of     *)
(* range and every interval of slots.                                      *)
THEOREM PoolImplemented == Spec => ImplementsPool
BY Inductive, PoolInit, PoolStep, PTL DEF Spec, ImplementsPool, Pool!Spec

-------------------------------------------------------------------------------
(* The loops that search a range return what module CSlot says, from any   *)
(* bitmap and hint.                                                        *)

USE BitmapAssumption, RangeAssumption DEF Offsets

(* A run of sought free slots at base in the range as the search found it. *)
Run(base) == base .. base + sought - 1 \subseteq old

(* The loop invariant: nothing before the hint would have stopped the      *)
(* first loop, and no run starts between the hint and the cursor.          *)
ScanInv ==
  /\ ScanTypeOK
  /\ hint <= cursor
  /\ pc = "one" => sought = 1
  /\ pc \in {"skip", "scan"} => sought >= 2
  /\ pc \in {"one", "skip", "scan"} => bitmap = old
  /\ pc = "one" => \A b \in hint .. cursor - 1 : b \notin old
  /\ pc \in {"skip", "scan"} =>
       \A b \in hint .. cursor - 1 : b \notin old /\ BITMAP_ELEMENTS - b >= sought
  /\ pc = "scan" =>
       /\ cursor \in old /\ cursor <= current
       /\ \A b \in cursor .. current - 1 : ~Run(b)

(* What is known once the search is over, in the terms of this module. *)
Outcome ==
  /\ pc = "found" =>
       /\ current >= hint /\ Run(current)
       /\ \A b \in Offsets : b >= hint /\ Run(b) => current <= b
       /\ bitmap = old \ (current .. current + sought - 1)
  /\ pc = "none" =>
       /\ \A b \in Offsets : b >= hint => ~Run(b)
       /\ bitmap = old
  /\ pc \in {"found", "none"} =>
       LET stop == IF pc = "found" /\ sought = 1 THEN cursor - 1 ELSE cursor
       IN  /\ stop \in hint .. BITMAP_ELEMENTS
           /\ stop \in old \/ BITMAP_ELEMENTS - stop < sought
           /\ \A b \in hint .. stop - 1 :
                b \notin old /\ BITMAP_ELEMENTS - b >= sought
           /\ pc = "found" /\ sought = 1 => current = stop

(* A search that has not begun satisfies the invariant. *)
LEMMA InitScan == ScanInit => ScanInv /\ Outcome
BY DEF ScanInit, old, hint, ScanInv, Outcome, ScanTypeOK

(* A turn of alloc_from_range keeps the invariant. *)
LEMMA OneKeeps == ScanInv /\ Outcome /\ One => ScanInv' /\ Outcome'
<1> SUFFICES ASSUME ScanInv, One PROVE ScanInv' /\ Outcome'
  OBVIOUS
<1>1. /\ sought = 1 /\ bitmap = old /\ old \in SUBSET Offsets
      /\ hint \in 0 .. BITMAP_ELEMENTS /\ cursor \in hint .. BITMAP_ELEMENTS
      /\ \A b \in hint .. cursor - 1 : b \notin old
      /\ UNCHANGED <<old, hint, sought>>
  BY DEF ScanInv, ScanTypeOK, One, vars, old, hint
<1>2. \A b \in Offsets : b .. b + 1 - 1 = {b}
  OBVIOUS
<1>3. \A b \in Offsets : (Run(b) <=> b \in old) /\ (Run(b)' <=> b \in old)
  BY <1>1, <1>2 DEF Run
<1>4. CASE cursor < BITMAP_ELEMENTS /\ cursor \in bitmap
  <2>1. /\ bitmap' = old \ {cursor} /\ current' = cursor
        /\ cursor' = cursor + 1 /\ pc' = "found"
    BY <1>1, <1>4 DEF One, AfterTaken
  <2>2. ScanInv'
    BY <1>1, <1>4, <2>1 DEF ScanInv, ScanTypeOK
  <2>3. Outcome'
    <3>1. cursor \in Offsets /\ cursor .. cursor + 1 - 1 = {cursor}
      BY <1>1, <1>4
    <3>2. Run(current)'
      BY <1>1, <1>4, <2>1, <3>1 DEF Run
    <3>3. \A b \in Offsets : b >= hint /\ Run(b)' => cursor <= b
      BY <1>1, <1>3
    <3> QED BY <1>1, <1>4, <2>1, <3>1, <3>2, <3>3 DEF Outcome, Run
  <2> QED BY <2>2, <2>3
<1>5. CASE cursor < BITMAP_ELEMENTS /\ cursor \notin bitmap
  <2>1. pc = "one" /\ cursor' = cursor + 1 /\ UNCHANGED <<bitmap, current, pc>>
    BY <1>1, <1>5 DEF One
  <2> QED BY <1>1, <1>5, <2>1 DEF ScanInv, Outcome, ScanTypeOK
<1>6. CASE ~(cursor < BITMAP_ELEMENTS)
  <2>1. cursor = BITMAP_ELEMENTS /\ pc' = "none" /\ UNCHANGED <<bitmap, cursor, current>>
    BY <1>1, <1>6 DEF One
  <2>2. ScanInv'
    BY <1>1, <2>1 DEF ScanInv, ScanTypeOK
  <2>3. \A b \in Offsets : b >= hint => ~Run(b)'
    BY <1>1, <1>3, <2>1
  <2>4. Outcome'
    BY <1>1, <2>1, <2>3 DEF Outcome
  <2> QED BY <2>2, <2>4
<1> QED BY <1>4, <1>5, <1>6

(* A turn of the slab search's first loop keeps the invariant. *)
LEMMA SkipKeeps == ScanInv /\ Outcome /\ Skip => ScanInv' /\ Outcome'
<1> SUFFICES ASSUME ScanInv, Skip PROVE ScanInv' /\ Outcome'
  OBVIOUS
<1>1. /\ sought \in 2 .. BITMAP_ELEMENTS /\ bitmap = old /\ old \in SUBSET Offsets
      /\ hint \in 0 .. BITMAP_ELEMENTS /\ cursor \in hint .. BITMAP_ELEMENTS
      /\ current \in 0 .. BITMAP_ELEMENTS
      /\ \A b \in hint .. cursor - 1 : b \notin old /\ BITMAP_ELEMENTS - b >= sought
      /\ UNCHANGED <<old, hint, sought, bitmap>>
  BY DEF ScanInv, ScanTypeOK, Skip, vars, old, hint
<1>2. Remaining(cursor) = BITMAP_ELEMENTS - cursor
  BY <1>1 DEF Remaining
<1>3. CASE Remaining(cursor) < sought /\ pc' = "none" /\ UNCHANGED <<cursor, current>>
  <2>1. ASSUME NEW b \in Offsets, b >= hint, Run(b) PROVE FALSE
    <3>1. b \in old /\ b + sought - 1 \in old
      BY <1>1, <2>1 DEF Run
    <3>2. b >= cursor
      BY <1>1, <2>1, <3>1
    <3>3. b + sought - 1 \in Offsets
      BY <1>1, <3>1
    <3> QED BY <1>1, <1>2, <1>3, <3>2, <3>3
  <2>2. \A b \in Offsets : b >= hint => ~Run(b)'
    BY <1>1, <2>1 DEF Run
  <2> QED BY <1>1, <1>2, <1>3, <2>2 DEF ScanInv, Outcome, ScanTypeOK
<1>4. CASE /\ Remaining(cursor) >= sought /\ cursor \in bitmap
           /\ current' = cursor /\ pc' = "scan" /\ UNCHANGED cursor
  BY <1>1, <1>2, <1>4 DEF ScanInv, Outcome, ScanTypeOK
<1>5. CASE /\ Remaining(cursor) >= sought /\ cursor \notin bitmap
           /\ cursor' = cursor + 1 /\ UNCHANGED <<current, pc>>
  <2>1. pc = "skip"
    BY DEF Skip
  <2> QED BY <1>1, <1>2, <1>5, <2>1 DEF ScanInv, Outcome, ScanTypeOK
<1> QED BY <1>3, <1>4, <1>5 DEF Skip

(* A turn of the slab search's second loop keeps the invariant. *)
LEMMA ScanKeeps == ScanInv /\ Outcome /\ Scan => ScanInv' /\ Outcome'
<1> SUFFICES ASSUME ScanInv, Scan PROVE ScanInv' /\ Outcome'
  OBVIOUS
<1>1. /\ sought \in 2 .. BITMAP_ELEMENTS /\ bitmap = old /\ old \in SUBSET Offsets
      /\ hint \in 0 .. BITMAP_ELEMENTS /\ cursor \in hint .. BITMAP_ELEMENTS
      /\ cursor \in old
      /\ current \in cursor .. BITMAP_ELEMENTS
      /\ \A b \in hint .. cursor - 1 : b \notin old /\ BITMAP_ELEMENTS - b >= sought
      /\ \A b \in cursor .. current - 1 : ~Run(b)
      /\ UNCHANGED <<old, hint, sought, cursor>>
  BY DEF ScanInv, ScanTypeOK, Scan, vars, old, hint
<1>2. Remaining(current) = BITMAP_ELEMENTS - current
  BY <1>1 DEF Remaining
<1>3. \A b \in Offsets : Run(b)' <=> Run(b)
  BY <1>1 DEF Run
<1>4. \A b \in Offsets : Run(b) => b \in old /\ b + sought - 1 \in old
  BY <1>1 DEF Run
<1>5. \A b \in Offsets : b >= hint /\ Run(b) => b >= current
  BY <1>1, <1>4
<1>6. CASE /\ Remaining(current) < sought /\ pc' = "none"
           /\ UNCHANGED <<bitmap, current>>
  <2>1. \A b \in Offsets : b >= hint => ~Run(b)'
    BY <1>1, <1>2, <1>3, <1>4, <1>5, <1>6
  <2> QED BY <1>1, <1>6, <2>1 DEF ScanInv, Outcome, ScanTypeOK
<1>7. ASSUME Remaining(current) >= sought,
             NEW c \in 0 .. BITMAP_ELEMENTS, RangeCountIs(current, c),
             IF c >= sought
               THEN /\ bitmap' = bitmap \ (current .. current + sought - 1)
                    /\ pc' = "found"
                    /\ UNCHANGED current
               ELSE /\ current' = NextCandidate(c)
                    /\ UNCHANGED <<bitmap, pc>>
      PROVE  ScanInv' /\ Outcome'
  <2>1. CASE c >= sought
    <3>1. Run(current)
      BY <1>1, <1>7, <2>1 DEF RangeCountIs, Run
    <3>2. /\ bitmap' = old \ (current .. current + sought - 1)
          /\ pc' = "found" /\ UNCHANGED current
      BY <1>1, <1>7, <2>1
    <3>3. Run(current)'
      BY <1>1, <3>1, <3>2 DEF Run
    <3>4. \A b \in Offsets : b >= hint /\ Run(b)' => current <= b
      BY <1>1, <1>3, <1>5
    <3>5. ScanInv'
      BY <1>1, <3>2 DEF ScanInv, ScanTypeOK
    <3>6. Outcome'
      BY <1>1, <3>2, <3>3, <3>4 DEF Outcome
    <3> QED BY <3>5, <3>6
  <2>2. CASE c < sought
    <3>1. pc = "scan" /\ pc' = pc /\ current' = current + c + 1 /\ bitmap' = bitmap
      BY <1>1, <1>7, <2>2 DEF NextCandidate, Scan
    <3>2. current + c < BITMAP_ELEMENTS /\ current + c \notin old
      BY <1>1, <1>2, <1>7, <2>2 DEF RangeCountIs
    <3>3. ASSUME NEW b \in cursor .. current + c, Run(b) PROVE FALSE
      <4>1. b >= current
        BY <1>1, <3>3
      <4>2. current + c \in b .. b + sought - 1
        BY <1>1, <2>2, <4>1
      <4> QED BY <3>2, <3>3, <4>2 DEF Run
    <3>4. \A b \in cursor .. current' - 1 : ~Run(b)'
      BY <1>1, <3>1, <3>3 DEF Run
    <3>5. ScanInv'
      BY <1>1, <3>1, <3>2, <3>4 DEF ScanInv, ScanTypeOK
    <3>6. Outcome'
      BY <3>1 DEF Outcome
    <3> QED BY <3>5, <3>6
  <2> QED BY <1>1, <2>1, <2>2
<1> QED BY <1>6, <1>7 DEF Scan

(* The invariant holds in every turn of every search. *)
LEMMA ScanInductive == ScanSpec => [](ScanInv /\ Outcome)
<1>1. ScanInv /\ Outcome /\ [ScanNext]_scanVars => ScanInv' /\ Outcome'
  <2>1. ScanInv /\ Outcome /\ UNCHANGED scanVars => ScanInv' /\ Outcome'
    BY DEF scanVars, vars, old, hint, ScanInv, Outcome, ScanTypeOK, Run
  <2> QED BY <2>1, OneKeeps, SkipKeeps, ScanKeeps DEF ScanNext
<1> QED BY <1>1, InitScan, PTL DEF ScanSpec

(* The place where the first loop stops is the only one that module CSlot's *)
(* HintAfter may choose, so that a search leaves the hint there.            *)
LEMMA HintLeft == ScanInv /\ Outcome => HintIsLeft
<1> SUFFICES ASSUME ScanInv, Outcome, pc \in {"found", "none"}
             PROVE  cursor = IF pc = "found" /\ sought = 1 THEN current + 1
                            ELSE HintAfter(1, sought)
  BY DEF HintIsLeft
<1> DEFINE stop == IF pc = "found" /\ sought = 1 THEN cursor - 1 ELSE cursor
           Stops(a) == a \in old \/ BITMAP_ELEMENTS - a < sought
<1>1. /\ sought \in 1 .. BITMAP_ELEMENTS /\ hint \in 0 .. BITMAP_ELEMENTS
      /\ cursor \in 0 .. BITMAP_ELEMENTS
  BY DEF ScanInv, ScanTypeOK
<1>2. stop \in hint .. BITMAP_ELEMENTS /\ Stops(stop)
  BY DEF Outcome
<1>3. \A b \in hint .. stop - 1 : ~Stops(b)
  BY <1>1, <1>2 DEF Outcome
<1>4. \A a \in hint .. BITMAP_ELEMENTS :
        Stops(a) /\ (\A b \in hint .. a - 1 : ~Stops(b)) => a = stop
  <2> HIDE DEF stop, Stops
  <2> QED BY <1>1, <1>2, <1>3
<1>5. HintAfter(1, sought) =
        CHOOSE a \in hint .. BITMAP_ELEMENTS :
          Stops(a) /\ \A b \in hint .. a - 1 : ~Stops(b)
  BY DEF HintAfter, StopsAt, old, hint
<1>6. HintAfter(1, sought) = stop
  <2> HIDE DEF stop, Stops
  <2> QED BY <1>2, <1>3, <1>4, <1>5
<1>7. pc = "found" /\ sought = 1 => current = stop
  BY DEF Outcome
<1> QED BY <1>1, <1>6, <1>7

(* Neither the hint nor the cursor ever passes the end of the range, where *)
(* the unsigned subtractions of cslot.c:117 and :126 would wrap.           *)
THEOREM NoWrap == ScanSpec => []ScanTypeOK
<1>1. ScanInv => ScanTypeOK  BY DEF ScanInv
<1> QED BY <1>1, ScanInductive, PTL

(* A successful search has taken exactly the first run at or after the     *)
(* hint, a failed one has missed none, and both leave the hint where it    *)
(* belongs: the turns of the loops come to the searches that module CSlot  *)
(* takes in one step.                                                      *)
THEOREM SearchCorrect == ScanSpec => []SearchIsExact
<1>1. ScanInv /\ Outcome => FoundIsFirstRun
  BY DEF ScanInv, Outcome, ScanTypeOK, FoundIsFirstRun, FirstRunIs, old, hint,
         RunAt, Offsets, Run
<1>2. ScanInv /\ Outcome => NoneMeansNoRun
  BY DEF ScanInv, Outcome, ScanTypeOK, NoneMeansNoRun, HasRun, old, hint,
         RunAt, Offsets, Run
<1>3. ScanInv /\ Outcome => SearchIsExact
  BY <1>1, <1>2, HintLeft DEF SearchIsExact
<1> QED BY <1>3, ScanInductive, PTL
===============================================================================
