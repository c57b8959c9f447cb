-------------------------------- MODULE VSpace --------------------------------
(***************************************************************************)
(* libs/libresource/src/mem_vspace.c: the allocator of virtual address     *)
(* zones.  The doubly linked list that begins at root_zone is the sequence *)
(* zones: next and prev are the neighbours in it, and a node with no next  *)
(* is its last element.  A node stands for two regions, begin .. middle,   *)
(* which is allocated, and middle up to the next node's begin, which is    *)
(* free.  Every call is one action.                                        *)
(***************************************************************************)
EXTENDS Integers, SequencesExt

CONSTANTS PAGE_SIZE, PAGE_TABLE_SIZE,
          VSPACE_END_PTR,          \* where the kernel's addresses begin
          ImageStart, ImageSize,   \* &__executable_start, mem_vspace_setup's size
          Word,                    \* 2^32: size_t wraps
          Zones,                   \* the callers' struct mem_vspace
          ApproximateSizes,        \* arguments of mem_vspace_alloc_slice
          PreciseSizes             \* arguments of mem_vspace_alloc_slice_spec

VSPACE_BEGIN_PTR == PAGE_TABLE_SIZE

RoundDown(size, unit) == size - (size % unit)
RoundUp(size, unit) == RoundDown(size + unit - 1, unit)

(* mem_vspace_setup: beta_zone covers the page tables of the image. *)
ImageBegin == RoundDown(ImageStart, PAGE_TABLE_SIZE)
ImageEnd   == RoundUp(ImageStart + ImageSize, PAGE_TABLE_SIZE)

ASSUME SizesAssumption ==
  /\ PAGE_SIZE \in Nat \ {0} /\ PAGE_TABLE_SIZE \in Nat /\ VSPACE_END_PTR \in Nat
  /\ ImageBegin \in Nat /\ ImageEnd \in Nat
  /\ Word \in Nat \ {0}
  /\ ApproximateSizes \subseteq Nat
  /\ PreciseSizes \subseteq Nat \ {0}

(* The image lies in the allocatable range. *)
ASSUME ImageAssumption ==
  /\ VSPACE_BEGIN_PTR <= ImageBegin
  /\ ImageBegin <= ImageEnd
  /\ ImageEnd <= VSPACE_END_PTR

ASSUME ZonesAssumption == "root" \notin Zones /\ "beta" \notin Zones

VARIABLES zones,      \* the list: records of id, begin (alloc_begin), middle
          phase,      \* "up", or how a call stopped the process
          asked,      \* size asked for by the last allocation,
          least,      \* the least size it could have returned,
          got         \* and the size it returned, 0 if it failed

vars == <<zones, phase, asked, least, got>>

Init ==
  /\ zones = << [id |-> "root", begin |-> VSPACE_BEGIN_PTR, middle |-> VSPACE_BEGIN_PTR],
                [id |-> "beta", begin |-> ImageBegin, middle |-> ImageEnd] >>
  /\ phase = "up"
  /\ asked = 0
  /\ least = 0
  /\ got = 0

Nodes == 1 .. Len(zones)

get_end_ptr_NextMiddle(k) ==
  IF k = Len(zones) THEN VSPACE_END_PTR ELSE zones[k + 1].middle

get_end_ptr(k) == IF k = Len(zones) THEN VSPACE_END_PTR ELSE zones[k + 1].begin

get_free_size(k) == get_end_ptr(k) - zones[k].middle

InUse(zone) == \E k \in Nodes : zones[k].id = zone

Stop(why) == phase' = why /\ got' = 0 /\ UNCHANGED zones

-------------------------------------------------------------------------------
(* The node that a slice is cut from must have a next node, which both     *)
(* functions read first; their assertions on the bounds come after.        *)

SliceEndingAt(k, zone, middle, assertion) ==
  IF k = Len(zones) THEN Stop("null_dereference")
  ELSE IF ~assertion THEN Stop("assertion")
  ELSE /\ zones' = InsertAt(zones, k + 1,
                     [id |-> zone, begin |-> zones[k].middle, middle |-> middle])
       /\ got' = middle - zones[k].middle
       /\ UNCHANGED phase

(* slice_entire_node: all of the free space after node k. *)
slice_entire_node(k, zone) ==
  SliceEndingAt(k, zone, get_end_ptr(k),
    /\ zones[k].begin <= zones[k].middle
    /\ zones[k].middle < get_end_ptr(k))

(* slice_partial_node: the first goal bytes of it. *)
slice_partial_node(k, goal, zone) ==
  SliceEndingAt(k, zone, zones[k].middle + goal,
    /\ zones[k].begin <= zones[k].middle
    /\ zones[k].middle < get_end_ptr(k)
    /\ zones[k].middle + goal < get_end_ptr(k))

(* The scan: the first node whose free size is from min to max, or else   *)
(* the smallest, the first among equals, whose free size is above max.     *)
Fits(k, min, max) == get_free_size(k) \in min .. max

FirstFit(k, min, max) ==
  /\ Fits(k, min, max)
  /\ \A j \in 1 .. k - 1 : ~Fits(j, min, max)

TooBig_NeverLast(k, max) == k < Len(zones) /\ get_free_size(k) > max

TooBig(k, max) == get_free_size(k) > max

SmallestTooBig(k, max) ==
  /\ TooBig(k, max)
  /\ \A j \in Nodes :
       TooBig(j, max) => (\/ get_free_size(k) < get_free_size(j)
                          \/ get_free_size(k) = get_free_size(j) /\ k <= j)

Carve(zone, size, min, max, goal) ==
  /\ asked' = size
  /\ least' = min
  /\ IF \E k \in Nodes : Fits(k, min, max)
       THEN \E k \in Nodes : FirstFit(k, min, max) /\ slice_entire_node(k, zone)
     ELSE IF \E k \in Nodes : TooBig(k, max)
       THEN \E k \in Nodes : SmallestTooBig(k, max) /\ slice_partial_node(k, goal, zone)
     ELSE got' = 0 /\ UNCHANGED <<zones, phase>>

MinRounded(size)  == RoundUp(size \div 2 + 1, PAGE_SIZE)
GoalRounded(size) == RoundUp(size, PAGE_SIZE)
MaxRounded(size)  == RoundDown((size * 2) % Word, PAGE_SIZE)

mem_vspace_alloc_slice(zone, size) ==
  /\ phase = "up"
  /\ ~InUse(zone)
  /\ IF MinRounded(size) <= GoalRounded(size) /\ GoalRounded(size) <= MaxRounded(size)
       THEN Carve(zone, size, MinRounded(size), MaxRounded(size), GoalRounded(size))
       ELSE Stop("size") /\ UNCHANGED <<asked, least>>   \* asserted at 77 to 79

(* The precise size is taken as it is, in no units of pages. *)
mem_vspace_alloc_slice_spec(zone, size) ==
  /\ phase = "up"
  /\ ~InUse(zone)
  /\ Carve(zone, size, size, size, size)

(* The space of the node becomes free space of its predecessor. *)
Unlink(k) == zones' = RemoveAt(zones, k)

mem_vspace_dealloc_slice(k) ==
  /\ phase = "up"
  /\ zones[k].id \in Zones
  /\ Unlink(k)
  /\ asked' = 0
  /\ least' = 0
  /\ got' = 0
  /\ UNCHANGED phase

Next ==
  \/ \E zone \in Zones, size \in ApproximateSizes : mem_vspace_alloc_slice(zone, size)
  \/ \E zone \in Zones, size \in PreciseSizes : mem_vspace_alloc_slice_spec(zone, size)
  \/ \E k \in Nodes : mem_vspace_dealloc_slice(k)

Spec == Init /\ [][Next]_vars

-------------------------------------------------------------------------------
(* The list holds root_zone first, then nodes with addresses in range. *)
TypeOK ==
  /\ zones \in Seq([id : Zones \cup {"root", "beta"}, begin : Int, middle : Int])
  /\ Len(zones) >= 1 /\ zones[1].id = "root"
  /\ phase \in {"up", "size", "assertion", "null_dereference"}
  /\ asked \in Nat /\ least \in Nat /\ got \in Nat

(* Along the list the regions are in order and within the allocatable      *)
(* addresses: no live zone overlaps another or the program's image, and no *)
(* free region is lost.                                                    *)
ZonesInOrder ==
  /\ \A k \in Nodes : /\ VSPACE_BEGIN_PTR <= zones[k].begin
                      /\ zones[k].begin <= zones[k].middle
                      /\ zones[k].middle <= VSPACE_END_PTR
  /\ \A j \in Nodes, k \in Nodes : j < k => zones[j].middle <= zones[k].begin

(* The image stays allocated for ever. *)
ImageKept ==
  \E k \in Nodes : zones[k] = [id |-> "beta", begin |-> ImageBegin, middle |-> ImageEnd]

(* "the actual size can be as low as 1/2 of the value or as high as 2x the *)
(* value" (mem_vspace.h), whether a free region is taken whole or split.   *)
SizeContract == got > 0 => 2 * got >= asked /\ got <= 2 * asked

(* An allocation fails for lack of space only when no free region, the one *)
(* after the last node included, could hold even the least it may return.  *)
ExhaustedMeansNoGap ==
  (least > 0 /\ got = 0 /\ phase = "up") => \A k \in Nodes : get_free_size(k) < least

(* The answer to a request is right: what is given keeps the contract of   *)
(* mem_vspace.h, and nothing is given only when no gap is large enough.    *)
AnswersRight == SizeContract /\ ExhaustedMeansNoGap

(* The assertions of the two slicing functions never fire: the scan hands  *)
(* them only regions that are large enough.                                *)
SliceAssertionsHold == phase # "assertion"

Space == INSTANCE AddressSpace WITH
  Ids <- Zones \cup {"beta"},
  taken <- {zones[k] : k \in 2 .. Len(zones)}

(* The list implements a set of zones that do not overlap. *)
ImplementsSpace == Space!Spec

(* "VSPACE_END_PTR is the implied value for .alloc_begin of NULL (the      *)
(* final free zone end)" (mem_vspace.c:14): the region after the last node *)
(* is free space like any other, so allocating from it works.              *)
FinalZoneUsable == phase # "null_dereference"
===============================================================================
