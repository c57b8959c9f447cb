----------------------------- MODULE AddressSpace -----------------------------
(***************************************************************************)
(* What libresource's mem_vspace promises: every zone handed out is a      *)
(* nonempty interval of the allocatable address space that overlaps no     *)
(* other live zone, and stays as it is until its owner gives it back.      *)
(***************************************************************************)
EXTENDS Integers

CONSTANTS VSPACE_BEGIN_PTR, VSPACE_END_PTR,   \* the allocatable addresses
          ImageBegin, ImageEnd,               \* where the program itself lies
          Ids                                 \* names of zones

VARIABLE taken                                \* live zones, the image included

Zone == [id : Ids, begin : VSPACE_BEGIN_PTR .. VSPACE_END_PTR,
                   middle : VSPACE_BEGIN_PTR .. VSPACE_END_PTR]

Apart(a, b) == a.middle <= b.begin \/ b.middle <= a.begin

Init == taken = {[id |-> "beta", begin |-> ImageBegin, middle |-> ImageEnd]}

Take ==
  \E zone \in taken' \ taken :
    /\ zone \in Zone
    /\ zone.begin < zone.middle
    /\ \A other \in taken : Apart(zone, other) /\ zone.id # other.id
    /\ taken' = taken \cup {zone}

GiveBack ==
  \E zone \in taken : zone.id # "beta" /\ taken' = taken \ {zone}

Next == Take \/ GiveBack

Spec == Init /\ [][Next]_taken
===============================================================================
