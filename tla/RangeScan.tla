------------------------------- MODULE RangeScan -------------------------------
(***************************************************************************)
(* The loops of libs/libresource/src/cslot.c that look for free slots      *)
(* inside one range: alloc_from_range for a single slot, and               *)
(* cslot_alloc_slab_from_range with range_count for a run.  Module CSlot   *)
(* takes each search as one step (FirstRunIs, HintAfter); here every turn  *)
(* of a loop is a step, over unsigned words that wrap, and the outcome is  *)
(* compared with CSlot's.                                                  *)
(***************************************************************************)
EXTENDS CSlot

CONSTANT Word               \* 2^32: uint32_t and seL4_CPtr arithmetic wraps

ASSUME RangeAssumption == Word \in Nat /\ Word > BITMAP_ELEMENTS

VARIABLES sought,           \* slots asked for
          pc,               \* which loop runs, or how the search ended
          bitmap,           \* available offsets
          cursor,           \* range->avail - range->low
          current           \* current_ptr - range->low

scanVars == <<vars, sought, pc, bitmap, cursor, current>>

(* The bitmap and the hint of the range when the search begins: the state  *)
(* of module CSlot stays as the search finds it.                           *)
old  == bits[1]
hint == avail[1]

(* A process with one range, whatever is free in it and wherever its hint. *)
ScanInit ==
  /\ phase = "ready" /\ setupLow = HighSlot
  /\ n = 1 /\ low = [i \in {1} |-> LowSlot]
  /\ bits \in [{1} -> SUBSET Offsets]
  /\ avail \in [{1} -> 0 .. BITMAP_ELEMENTS]
  /\ held = {LowSlot + o : o \in Offsets \ old} \cap Slots
  /\ cnode = {} /\ ret = {} /\ errx = "NONE" /\ asked = 0
  /\ sought \in 1 .. BITMAP_ELEMENTS
  /\ pc = IF sought = 1 THEN "one" ELSE "skip"
  /\ bitmap = old
  /\ cursor = hint
  /\ current = 0

(* range->low + BITMAP_ELEMENTS - at, in unsigned arithmetic. *)
Remaining(at) ==
  IF at <= BITMAP_ELEMENTS THEN BITMAP_ELEMENTS - at
  ELSE BITMAP_ELEMENTS - at + Word

(* alloc_from_range: the hint moves past the slot it takes. *)
AfterTaken(at) == at + 1

One ==
  /\ pc = "one"
  /\ IF cursor < BITMAP_ELEMENTS
       THEN IF cursor \in bitmap
              THEN /\ bitmap' = bitmap \ {cursor}
                   /\ current' = cursor
                   /\ cursor' = AfterTaken(cursor)
                   /\ pc' = "found"
              ELSE /\ cursor' = cursor + 1
                   /\ UNCHANGED <<bitmap, current, pc>>
       ELSE /\ pc' = "none"
            /\ UNCHANGED <<bitmap, cursor, current>>
  /\ UNCHANGED <<vars, sought>>

(* The first loop of cslot_alloc_slab_from_range moves the hint. *)
Skip ==
  /\ pc = "skip"
  /\ \/ /\ Remaining(cursor) < sought
        /\ pc' = "none"
        /\ UNCHANGED <<cursor, current>>
     \/ /\ Remaining(cursor) >= sought
        /\ cursor \in bitmap
        /\ current' = cursor
        /\ pc' = "scan"
        /\ UNCHANGED cursor
     \/ /\ Remaining(cursor) >= sought
        /\ cursor \notin bitmap
        /\ cursor' = cursor + 1
        /\ UNCHANGED <<current, pc>>
  /\ UNCHANGED <<vars, sought, bitmap>>

(* range_count: c available offsets in a row from base on, and no more. *)
RangeCountIs_OneTooMany(base, c) ==
  /\ \A o \in base .. base + c - 2 : o \in bitmap
  /\ base + c <= BITMAP_ELEMENTS

RangeCountIs(base, c) ==
  /\ \A o \in base .. base + c - 1 : o \in bitmap
  /\ base + c < BITMAP_ELEMENTS => base + c \notin bitmap
  /\ base + c <= BITMAP_ELEMENTS

(* Where the second loop looks next when only c slots are free here: the   *)
(* slot after them is in use (both branches of the code come to this).     *)
NextCandidate_Stuck(c) == current + c

NextCandidate(c) == current + c + 1

Scan ==
  /\ pc = "scan"
  /\ \/ /\ Remaining(current) < sought
        /\ pc' = "none"
        /\ UNCHANGED <<bitmap, current>>
     \/ /\ Remaining(current) >= sought
        /\ \E c \in 0 .. BITMAP_ELEMENTS :
             /\ RangeCountIs(current, c)
             /\ IF c >= sought
                  THEN /\ bitmap' = bitmap \ (current .. current + sought - 1)
                       /\ pc' = "found"
                       /\ UNCHANGED current
                  ELSE /\ current' = NextCandidate(c)
                       /\ UNCHANGED <<bitmap, pc>>
  /\ UNCHANGED <<vars, sought, cursor>>

ScanNext == One \/ Skip \/ Scan

ScanSpec == ScanInit /\ [][ScanNext]_scanVars /\ WF_scanVars(ScanNext)

-------------------------------------------------------------------------------
(* The search's variables have their types; in particular neither the hint *)
(* nor the cursor ever passes the end of the range, where Remaining would  *)
(* wrap around and the loops would read bits of no range.                  *)
ScanTypeOK ==
  /\ old \in SUBSET Offsets
  /\ hint \in 0 .. BITMAP_ELEMENTS
  /\ sought \in 1 .. BITMAP_ELEMENTS
  /\ pc \in {"one", "skip", "scan", "found", "none"}
  /\ bitmap \in SUBSET Offsets
  /\ cursor \in 0 .. BITMAP_ELEMENTS
  /\ current \in 0 .. BITMAP_ELEMENTS

(* When a search succeeds it has taken the first run of free slots at or   *)
(* after the hint, exactly that run, and no other bit changed.             *)
FoundIsFirstRun ==
  pc = "found" =>
    /\ FirstRunIs(1, current, sought)
    /\ bitmap = old \ (current .. current + sought - 1)

(* When a search fails the range has no such run at or after the hint: the *)
(* jump over a run too short, and the early exits, miss nothing.           *)
NoneMeansNoRun ==
  pc = "none" => ~HasRun(1, sought) /\ bitmap = old

(* The hint is left where module CSlot says. *)
HintIsLeft ==
  pc \in {"found", "none"} =>
    cursor = IF pc = "found" /\ sought = 1 THEN current + 1
            ELSE HintAfter(1, sought)

(* The search loops are exact: run turn by turn they come to the one-step  *)
(* searches that module CSlot builds its calls from, and leave the hint    *)
(* there.                                                                  *)
SearchIsExact == FoundIsFirstRun /\ NoneMeansNoRun /\ HintIsLeft

(* Every search ends: both loops advance. *)
SearchEnds == <>(pc \in {"found", "none"})
===============================================================================
