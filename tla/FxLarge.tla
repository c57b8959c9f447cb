-------------------------------- MODULE FxLarge --------------------------------
(***************************************************************************)
(* libs/libresource/src/mem_fxlarge.c: blocks of one or two whole pages,   *)
(* for requests above half a page.  Address space is taken COOKIE_COUNT    *)
(* pages at a time as a zone, and a page of a zone is in use when its      *)
(* cookie is valid, that is, when it is mapped.                            *)
(*                                                                         *)
(* What the allocator calls (mem_fx_alloc for a zone's record, which is    *)
(* below half a page, mem_vspace and mem_page) may fail but never enters   *)
(* this module again, so a call is one action.                             *)
(***************************************************************************)
EXTENDS Integers, SequencesExt

CONSTANTS COOKIE_COUNT,   \* pages in a zone (168)
          MAX_PAGES,      \* MEM_FXLARGE_MAX_PAGES, pages in a block (2)
          MaxZones,       \* zones for which there is address space
          NULL

CountsAssumption ==
  /\ MAX_PAGES \in Nat \ {0}
  /\ COOKIE_COUNT \in Nat /\ COOKIE_COUNT >= MAX_PAGES

Pages == 0 .. COOKIE_COUNT - 1

VARIABLES zones,        \* the list from first_zone on; names are 1, 2, ...
          total_avail,
          live,         \* blocks in use: [zone, start, pages]
          ret,          \* the last block returned, or NULL
          phase         \* "up", or "assertion"

vars == <<zones, total_avail, live, ret, phase>>

Init ==
  /\ zones = << >>
  /\ total_avail = 0
  /\ live = {}
  /\ ret = NULL
  /\ phase = "up"

NewZone == [name |-> Len(zones) + 1, used |-> {}, avail_count |-> COOKIE_COUNT]

(* is_avail: every page of the block is free. *)
is_avail_FirstOnly(zone, pages, start) ==
  start + pages <= COOKIE_COUNT /\ start \notin zone.used

is_avail(zone, pages, start) ==
  /\ start + pages <= COOKIE_COUNT
  /\ (start .. start + pages - 1) \cap zone.used = {}

has_any_avail(zone, pages) == \E start \in Pages : is_avail(zone, pages, start)

(* The test of get_first_with_avail's walk. *)
Serves(zone, pages) ==
  /\ zone.avail_count >= pages
  /\ pages > 1 => has_any_avail(zone, pages)

(* total_avail -= total_avail (line 131). *)
TotalTaken(total, pages) == total - total

AvailTaken(zone, pages) == zone.avail_count - pages

(* The rest of mem_fxlarge_alloc: the first free place in the k-th zone of *)
(* list.  If a page cannot be mapped those before it are unmapped.         *)
AllocIn(list, k, total, pages) ==
  IF ~has_any_avail(list[k], pages)
    THEN /\ phase' = "assertion"                 \* the search's, line 122
         /\ UNCHANGED <<zones, total_avail, live, ret>>
    ELSE \E start \in Pages :
           /\ is_avail(list[k], pages, start)
           /\ \A s \in 0 .. start - 1 : ~is_avail(list[k], pages, s)
           /\ \/ /\ zones' = [list EXCEPT
                                ![k].used = @ \cup (start .. start + pages - 1),
                                ![k].avail_count = AvailTaken(list[k], pages)]
                 /\ total_avail' = TotalTaken(total, pages)
                 /\ ret' = [zone |-> list[k].name, start |-> start, pages |-> pages]
                 /\ live' = live \cup {ret'}
              \/ /\ zones' = list
                 /\ total_avail' = total
                 /\ ret' = NULL
                 /\ UNCHANGED live
           /\ UNCHANGED phase

(* expand_large_pool, which may fail, puts a new zone first in the list;   *)
(* the walk then stops at once.                                            *)
Expand(pages) ==
  \/ /\ Len(zones) < MaxZones
     /\ AllocIn(<<NewZone>> \o zones, 1, total_avail + COOKIE_COUNT, pages)
  \/ ret' = NULL /\ UNCHANGED <<zones, total_avail, live, phase>>

mem_fxlarge_alloc(pages) ==
  /\ phase = "up"
  /\ IF total_avail < pages
       THEN Expand(pages)
     ELSE IF \E k \in 1 .. Len(zones) : Serves(zones[k], pages)
       THEN \E k \in 1 .. Len(zones) :
              /\ Serves(zones[k], pages)
              /\ \A j \in 1 .. k - 1 : ~Serves(zones[j], pages)
              /\ AllocIn(zones, k, total_avail, pages)
     ELSE IF pages > 1
       THEN Expand(pages)
       ELSE phase' = "assertion" /\ UNCHANGED <<zones, total_avail, live, ret>>

AvailFreed(zone, pages) == zone.avail_count + pages

(* get_container finds the zone whose addresses the block lies in. *)
mem_fxlarge_free(block) ==
  /\ phase = "up"
  /\ \E k \in 1 .. Len(zones) :
       /\ zones[k].name = block.zone
       /\ zones' = [zones EXCEPT
                      ![k].used = @ \ (block.start .. block.start + block.pages - 1),
                      ![k].avail_count = AvailFreed(zones[k], block.pages)]
  /\ total_avail' = total_avail + block.pages
  /\ live' = live \ {block}
  /\ ret' = NULL
  /\ UNCHANGED phase

Next ==
  \/ \E pages \in 1 .. MAX_PAGES : mem_fxlarge_alloc(pages)
  \/ \E block \in live : mem_fxlarge_free(block)

Spec == Init /\ [][Next]_vars

-------------------------------------------------------------------------------
Block == [zone : Nat, start : Pages, pages : 1 .. MAX_PAGES]

PagesOf(block) == block.start .. block.start + block.pages - 1

(* Zones and blocks have their types; no count exceeds a zone's pages. *)
TypeOK ==
  /\ zones \in Seq([name : Nat, used : SUBSET Pages, avail_count : 0 .. COOKIE_COUNT])
  /\ total_avail \in Nat
  /\ live \subseteq Block
  /\ ret \in Block \cup {NULL}
  /\ phase \in {"up", "assertion"}

(* A zone's count is the number of its free pages, failed mappings and     *)
(* blocks of either length notwithstanding.                                *)
AvailIsFreePages ==
  \A k \in 1 .. Len(zones) :
    zones[k].avail_count = COOKIE_COUNT - Cardinality(zones[k].used)

(* Blocks in use share no page, and the pages of a zone that are in use    *)
(* are exactly those of its blocks.                                        *)
BlocksApart ==
  /\ \A a \in live, b \in live :
       (a # b /\ a.zone = b.zone) => PagesOf(a) \cap PagesOf(b) = {}
  /\ \A k \in 1 .. Len(zones) :
       zones[k].used = UNION {PagesOf(b) : b \in {c \in live : c.zone = zones[k].name}}

(* The assertions at 75 and 122, "because avail_count > 0, this should     *)
(* never happen", hold whatever was allocated and freed before.            *)
AssertionsHold == phase # "assertion"

(* "an efficiency issue to avoid allocating too many vspace blocks"        *)
(* (mem_fxlarge.h): a zone is added only when no zone has room for the     *)
(* largest block.                                                          *)
ExpandsOnlyWhenFull ==
  [][Len(zones') > Len(zones) =>
       \A k \in 1 .. Len(zones) : ~Serves(zones[k], MAX_PAGES)]_vars
===============================================================================
