--------------------------------- MODULE CSlot ---------------------------------
(***************************************************************************)
(* libs/libresource/src/cslot.c: the allocator of capability slots every   *)
(* selkie process uses, together with the seL4 CNode whose slots it hands  *)
(* out.                                                                    *)
(*                                                                         *)
(* The linked list that starts at root_range is kept as the functions low, *)
(* avail and bits over 1..n: range n is root_range and range i-1 is the    *)
(* next of range i, because cslot_insert_range pushes at the front.  A     *)
(* range's avail hint and its bitmap are kept relative to its low.  Each   *)
(* library call is one action: the process is single threaded and no call  *)
(* here leaves the module before it is done, except to the kernel.         *)
(***************************************************************************)
EXTENDS Integers

CONSTANTS BITMAP_ELEMENTS,  \* slots per range (256 in the code)
          LowSlot,          \* the first slot cslot_setup is given
          HighSlot          \* the slot after the last

ASSUME BitmapAssumption == BITMAP_ELEMENTS \in Nat /\ BITMAP_ELEMENTS >= 2

(* The assertions at the top of cslot_insert_long_range. *)
ASSUME SetupAssumption ==
  /\ LowSlot \in Nat \ {0}
  /\ HighSlot \in Nat
  /\ LowSlot < HighSlot

VARIABLES phase,        \* "setup", "ready", or "halted" by an assert or a fail
          setupLow,     \* the local low of cslot_insert_long_range
          n,            \* number of ranges in the list
          low,          \* range -> its first slot
          avail,        \* range -> offset of its hint
          bits,         \* range -> offsets whose bit is set (available)
          held,         \* slots returned to callers and not freed by them
          cnode,        \* slots of the kernel's CNode that hold a capability
          ret,          \* slots the last call returned
          errx,         \* the error the last call raised
          asked         \* slots asked for by the call that raised exhaustion

vars == <<phase, setupLow, n, low, avail, bits, held, cnode, ret, errx, asked>>

Slots   == LowSlot .. HighSlot - 1
Offsets == 0 .. BITMAP_ELEMENTS - 1
Errors  == {"NONE", "GERR_MEMORY_POOL_EXHAUSTED", "GERR_OUT_OF_RANGE",
            "GERR_REQUEST_TOO_LARGE", "SEL4"}

Init ==
  /\ phase = "setup"
  /\ setupLow = LowSlot
  /\ n = 0
  /\ low = [i \in 1 .. 0 |-> 0]
  /\ avail = [i \in 1 .. 0 |-> 0]
  /\ bits = [i \in 1 .. 0 |-> {}]
  /\ held = {}
  /\ cnode = {}
  /\ ret = {}
  /\ errx = "NONE"
  /\ asked = 0

(* How a call ends: what it returns and the error it raises. *)
Returns(slots, error) == ret' = slots /\ errx' = error /\ asked' = 0

-------------------------------------------------------------------------------
(* Setup.                                                                  *)

(* cslot_insert_range: bits past high stay unavailable. *)
InsertRange_WholeBitmap(from, high) ==
  /\ n' = n + 1
  /\ low' = [i \in 1 .. n + 1 |-> IF i <= n THEN low[i] ELSE from]
  /\ avail' = [i \in 1 .. n + 1 |-> IF i <= n THEN avail[i] ELSE 0]
  /\ bits' = [i \in 1 .. n + 1 |-> IF i <= n THEN bits[i] ELSE Offsets]

InsertRange(from, high) ==
  /\ n' = n + 1
  /\ low' = [i \in 1 .. n + 1 |-> IF i <= n THEN low[i] ELSE from]
  /\ avail' = [i \in 1 .. n + 1 |-> IF i <= n THEN avail[i] ELSE 0]
  /\ bits' = [i \in 1 .. n + 1 |->
                IF i <= n THEN bits[i] ELSE 0 .. high - from - 1]

(* low += BITMAP_ELEMENTS in cslot_insert_long_range. *)
NextLow(from) == from + BITMAP_ELEMENTS

(* One turn of the loop in cslot_insert_long_range, or its last call. *)
SetupRange ==
  /\ phase = "setup"
  /\ IF HighSlot - setupLow > BITMAP_ELEMENTS
       THEN /\ InsertRange(setupLow, setupLow + BITMAP_ELEMENTS)
            /\ setupLow' = NextLow(setupLow)
            /\ UNCHANGED phase
       ELSE /\ InsertRange(setupLow, HighSlot)
            /\ setupLow' = HighSlot
            /\ phase' = "ready"
  /\ UNCHANGED <<held, cnode, ret, errx, asked>>

(* mem_fx_alloc has no memory for the range: premain stops the process. *)
SetupFails ==
  /\ phase = "setup"
  /\ phase' = "halted"
  /\ UNCHANGED <<setupLow, n, low, avail, bits, held, cnode, ret, errx, asked>>

-------------------------------------------------------------------------------
(* Allocation.                                                             *)

(* A run of count available offsets of range i at or after the hint. *)
RunAt(i, base, count) ==
  /\ base >= avail[i]
  /\ base .. base + count - 1 \subseteq bits[i]

HasRun(i, count) == \E base \in Offsets : RunAt(i, base, count)

(* The walk over the list passes every range before i in vain. *)
PassedOver(i, count) == \A j \in i + 1 .. n : ~HasRun(j, count)

FirstRunIs(i, base, count) ==
  /\ RunAt(i, base, count)
  /\ \A b \in Offsets : RunAt(i, b, count) => base <= b

(* Where the hint of a range that was searched for a run of count slots is *)
(* left: on the first available bit, or, for a run, where too few bits     *)
(* remain.  For one slot the search only ends at the end of the range.     *)
StopsAt(i, a, count) ==
  \/ a \in bits[i]
  \/ BITMAP_ELEMENTS - a < count

HintAfter(i, count) ==
  CHOOSE a \in avail[i] .. BITMAP_ELEMENTS :
    /\ StopsAt(i, a, count)
    /\ \A b \in avail[i] .. a - 1 : ~StopsAt(i, b, count)

Take_BitsStay(i, base, count) ==
  /\ Returns(low[i] + base .. low[i] + base + count - 1, "NONE")
  /\ held' = held \cup ret'
  /\ UNCHANGED bits

(* range_alloc, or BITMAP_SET_USED, and the pointer that is returned. *)
Take(i, base, count) ==
  /\ bits' = [bits EXCEPT ![i] = @ \ (base .. base + count - 1)]
  /\ Returns(low[i] + base .. low[i] + base + count - 1, "NONE")
  /\ held' = held \cup ret'

Exhausted(count) ==
  /\ PassedOver(0, count)
  /\ avail' = [j \in 1 .. n |-> HintAfter(j, count)]
  /\ ret' = {}
  /\ errx' = "GERR_MEMORY_POOL_EXHAUSTED"
  /\ asked' = count
  /\ UNCHANGED <<bits, held>>

(* cslot_alloc: alloc_from_range moves the hint past the slot it takes. *)
AllocOne ==
  \/ \E i \in 1 .. n, base \in Offsets :
       /\ PassedOver(i, 1)
       /\ FirstRunIs(i, base, 1)
       /\ Take(i, base, 1)
       /\ avail' = [j \in 1 .. n |->
                      IF j > i THEN HintAfter(j, 1)
                      ELSE IF j = i THEN base + 1 ELSE avail[j]]
  \/ Exhausted(1)

(* cslot_alloc_slab_from_range: the hint stays at the first available bit. *)
AllocRun(count) ==
  \/ \E i \in 1 .. n, base \in Offsets :
       /\ PassedOver(i, count)
       /\ FirstRunIs(i, base, count)
       /\ Take(i, base, count)
       /\ avail' = [j \in 1 .. n |->
                      IF j >= i THEN HintAfter(j, count) ELSE avail[j]]
  \/ Exhausted(count)

Refused(error) == Returns({}, error) /\ UNCHANGED <<avail, bits, held>>

Alloc ==
  /\ phase = "ready"
  /\ AllocOne
  /\ UNCHANGED <<phase, setupLow, n, low, cnode>>

AllocSlab(count) ==
  /\ phase = "ready"
  /\ \/ count = 0 /\ Refused("GERR_OUT_OF_RANGE")
     \/ count = 1 /\ AllocOne
     \/ count \in 2 .. BITMAP_ELEMENTS /\ AllocRun(count)
     \/ count > BITMAP_ELEMENTS /\ Refused("GERR_REQUEST_TOO_LARGE")
  /\ UNCHANGED <<phase, setupLow, n, low, cnode>>

-------------------------------------------------------------------------------
(* Freeing.                                                                *)

Covers(i, ptr) == ptr >= low[i] /\ ptr < low[i] + BITMAP_ELEMENTS

(* The first range of the list that covers ptr. *)
FoundIn(i, ptr) ==
  /\ Covers(i, ptr)
  /\ \A j \in i + 1 .. n : ~Covers(j, ptr)

(* "if (ptr < range->avail) range->avail = ptr". *)
HintBelow_Forgotten(i, ptr) == avail[i]

HintBelow(i, ptr) == IF ptr - low[i] < avail[i] THEN ptr - low[i] ELSE avail[i]

(* assert(cslot_delete(ptr)) *)
EmptySlot_Forgotten(ptr) == cnode' = cnode

EmptySlot(ptr) == cnode' = cnode \ {ptr}

(* The capability is deleted first, whatever becomes of the slot.  Left out *)
(* is a caller that gives back what no range ever had: outside all bounds   *)
(* the code fails, and beyond the limit it would take the slot.             *)
Free(ptr) ==
  /\ phase = "ready"
  /\ EmptySlot(ptr)
  /\ \E i \in 1 .. n :
       /\ FoundIn(i, ptr)
       /\ IF ptr - low[i] \in bits[i]
            THEN /\ phase' = "halted"             \* the double-free assertion
                 /\ UNCHANGED <<avail, bits, held, ret, errx, asked>>
            ELSE /\ bits' = [bits EXCEPT ![i] = @ \cup {ptr - low[i]}]
                 /\ avail' = [avail EXCEPT ![i] = HintBelow(i, ptr)]
                 /\ held' = held \ {ptr}
                 /\ Returns({}, "NONE")
                 /\ UNCHANGED phase
  /\ UNCHANGED <<setupLow, n, low>>

-------------------------------------------------------------------------------
(* What callers do with the slots they hold, through the kernel.  The      *)
(* kernel refuses to write into an occupied slot and to read an empty one. *)

ToKernel(filled) ==
  /\ phase = "ready"
  /\ cnode' = filled
  /\ Returns({}, "NONE")
  /\ UNCHANGED <<phase, setupLow, n, low, avail, bits, held>>

KernelRefuses ==
  /\ phase = "ready"
  /\ Returns({}, "SEL4")
  /\ UNCHANGED <<phase, setupLow, n, low, avail, bits, held, cnode>>

(* cslot_copy, cslot_mint, cslot_copy_in, cslot_irqget, and cslot_retype,  *)
(* which fills num slots at once or none.                                  *)
Fill(ptr, num) ==
  LET targets == ptr .. ptr + num - 1
  IN  /\ targets \subseteq held
      /\ \/ targets \cap cnode = {} /\ ToKernel(cnode \cup targets)
         \/ KernelRefuses                        \* occupied, or a bad source

(* cslot_mutate; from = to goes through the null slot and back. *)
Mutate(from, to) ==
  /\ {from, to} \subseteq held
  /\ \/ /\ from \in cnode
        /\ to \notin cnode \/ to = from
        /\ ToKernel((cnode \ {from}) \cup {to})
     \/ KernelRefuses

Delete(ptr) ==
  /\ ptr \in held
  /\ ToKernel(cnode \ {ptr})

(* cslot_revoke deletes the capabilities derived from ptr's, whichever     *)
(* they are; cslot_recycle does too and keeps ptr's own.                   *)
Revoke(ptr) ==
  /\ ptr \in held
  /\ \/ ptr \in cnode /\ \E derived \in SUBSET (cnode \ {ptr}) :
                            ToKernel(cnode \ derived)
     \/ KernelRefuses

Next ==
  \/ SetupRange
  \/ SetupFails
  \/ Alloc
  \/ \E count \in 0 .. BITMAP_ELEMENTS + 1 : AllocSlab(count)
  \/ \E ptr \in Slots : Free(ptr)
  \/ \E ptr \in held, num \in 1 .. BITMAP_ELEMENTS : Fill(ptr, num)
  \/ \E from \in held, to \in held : Mutate(from, to)
  \/ \E ptr \in held : Delete(ptr)
  \/ \E ptr \in held : Revoke(ptr)

Spec == Init /\ [][Next]_vars

-------------------------------------------------------------------------------
(* The state of the allocator has its type: a range's hint is between its  *)
(* start and its end, its bitmap has one bit per slot.                     *)
TypeOK ==
  /\ phase \in {"setup", "ready", "halted"}
  /\ setupLow \in LowSlot .. HighSlot
  /\ n \in Nat
  /\ low \in [1 .. n -> Slots]
  /\ avail \in [1 .. n -> 0 .. BITMAP_ELEMENTS]
  /\ bits \in [1 .. n -> SUBSET Offsets]
  /\ held \subseteq Slots
  /\ cnode \subseteq Slots
  /\ ret \subseteq held
  /\ errx \in Errors
  /\ asked \in 0 .. BITMAP_ELEMENTS

(* "less than or equal to the lowest cptr free according to bitmap"        *)
(* (cslot.c:13): no available slot lies before a range's hint, or it would *)
(* never be handed out again.                                              *)
HintIsLowerBound ==
  \A i \in 1 .. n : \A o \in bits[i] : avail[i] <= o

(* The bitmap says exactly which slots the callers hold: a slot of a range *)
(* is available iff it is one of the process's slots and nobody holds it,  *)
(* so no slot is lost, handed out twice or handed out beyond the limit.    *)
BitmapIsOwnership ==
  \A i \in 1 .. n, o \in Offsets :
    o \in bits[i] <=> /\ low[i] + o \in Slots
                      /\ low[i] + o \notin held

(* Ranges do not overlap: cslot_free's walk can stop at the first one that *)
(* covers the slot.                                                        *)
RangesDisjoint ==
  /\ \A i \in 1 .. n, j \in 1 .. n : i < j => low[i] + BITMAP_ELEMENTS <= low[j]
  /\ phase = "setup" => \A i \in 1 .. n : low[i] + BITMAP_ELEMENTS <= setupLow

(* Once setup is over, every slot of the process is covered by a range. *)
SlotsCovered ==
  \A ptr \in LowSlot .. setupLow - 1 : \E i \in 1 .. n : Covers(i, ptr)

(* A slot nobody holds is empty in the kernel: whoever is given it next    *)
(* can write a capability into it.                                         *)
FreeSlotsEmpty == cnode \subseteq held

(* The pool is reported exhausted only when it is: when cslot_alloc or     *)
(* cslot_alloc_slab fails for lack of slots, no range has that many free   *)
(* slots in a row, before its hint or after it.                            *)
ExhaustedMeansNoRun ==
  asked > 0 =>
    \A i \in 1 .. n : ~\E base \in Offsets :
      base .. base + asked - 1 \subseteq bits[i]

Pool == INSTANCE SlotPool

(* The allocator implements the pool of slots it promises to its callers. *)
ImplementsPool == Pool!Spec
===============================================================================
