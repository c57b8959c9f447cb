---------------------------- MODULE ResourceParts ---------------------------
(***************************************************************************)
(* The parts of the resource layer that keep their own tables: one of them *)
(* runs in a behaviour.  They call each other only through what each of    *)
(* their modules leaves to its environment, and share no state, so that    *)
(* here they take turns at the same variables; those that a part does not  *)
(* need stay NULL.                                                         *)
(***************************************************************************)
EXTENDS Integers, Sequences, FiniteSets

CONSTANTS NULL,
          BITS_4KIB, BITS_4MIB, CACHE_4K_COUNT, Regions, BootSizes, Slots, MaxNested,  \* Untyped
          SMALL_TABLE_SIZE, WordBits, Bases,                                 \* SmallTable
          COOKIE_COUNT, MAX_PAGES, MaxZones,                                 \* FxLarge
          PAGE_TABLE_COUNT, PAGE_COUNT_PER_TABLE, OutsideTables, AllPages, FxPages,  \* MemPage
          PAGE_SIZE, FXCACHE_UNIT, FXCACHE_RANGE, INITIAL_CHUNK, NODE, HEADER, TOKEN,
          SpaceSize, Sizes, MaxLive, MaxCached,                              \* FxPool
          Keys, Values, Pointers, HASHMAP_BUCKETS, Hash                        \* HashMap

VARIABLES part, s1, s2, s3, s4, s5, s6, s7, s8, s9, s10, s11, s12, s13, s14

vars == <<part, s1, s2, s3, s4, s5, s6, s7, s8, s9, s10, s11, s12, s13, s14>>

Memory == INSTANCE Untyped WITH boot <- s1, booted <- s2, avail_4ms <- s3,
        avail_4ks <- s4, avail_4ks_count <- s5, refill_running <- s6,
        pc <- s7, job <- s8, call <- s9, ret <- s10, held <- s11,
        objects <- s12, slots <- s13, nested <- s14

Small == INSTANCE SmallTable WITH ring <- s1, total_free <- s2, held <- s3,
        cnode <- s4, phase <- s5, ret <- s6

Large == INSTANCE FxLarge WITH zones <- s1, total_avail <- s2, live <- s3,
        ret <- s4, phase <- s5

Page == INSTANCE MemPage WITH Pages <- AllPages, tables <- s1, counts <- s2, cookies <- s3,
        calls <- s4, kernel <- s5, objects <- s6, phase <- s7

Fx == INSTANCE FxPool WITH client <- s1, current <- s2, pools <- s3,
        active <- s4, ready <- s5, heads <- s6, is_allocating <- s7, pc <- s8,
        job <- s9, records <- s10, live <- s11

Map == INSTANCE HashMap WITH Places <- Pointers, buckets <- s1, entry_count <- s2, blocks <- s3,
        given <- s4, ret <- s5, cursor <- s6, seen <- s7

ASSUME MemoryAssumption == Memory!SizesAssumption
ASSUME SmallAssumption == Small!TableAssumption
ASSUME LargeAssumption == Large!CountsAssumption
ASSUME PageAssumption == Page!PagesAssumption
ASSUME FxAssumption == Fx!SizesAssumption
ASSUME MapAssumption == Map!KeysAssumption

\* The variables that a part does not need.
NotFrom12 == s12 = NULL /\ s13 = NULL /\ s14 = NULL
NotFrom8 == s8 = NULL /\ s9 = NULL /\ s10 = NULL /\ s11 = NULL /\ NotFrom12
NotFrom7 == s7 = NULL /\ NotFrom8
NotFrom6 == s6 = NULL /\ NotFrom7

Init ==
    \/ part = "untyped" /\ Memory!Init
    \/ part = "small" /\ Small!Init /\ NotFrom7
    \/ part = "fxlarge" /\ Large!Init /\ NotFrom6
    \/ part = "mem_page" /\ Page!Init /\ NotFrom8
    \/ part = "mem_fx" /\ Fx!Init /\ NotFrom12
    \/ part = "hashmap" /\ Map!Init /\ NotFrom8

Next ==
    /\ \/ part = "untyped" /\ Memory!Next
       \/ part = "small" /\ Small!Next /\ UNCHANGED <<s7, s8, s9, s10, s11, s12, s13, s14>>
       \/ part = "fxlarge" /\ Large!Next /\ UNCHANGED <<s6, s7, s8, s9, s10, s11, s12, s13, s14>>
       \/ part = "mem_page" /\ Page!Next /\ UNCHANGED <<s8, s9, s10, s11, s12, s13, s14>>
       \/ part = "mem_fx" /\ Fx!Next /\ UNCHANGED <<s12, s13, s14>>
       \/ part = "hashmap" /\ Map!Next /\ UNCHANGED <<s8, s9, s10, s11, s12, s13, s14>>
    /\ UNCHANGED part

Spec == Init /\ [][Next]_vars

-----------------------------------------------------------------------------
\* Untyped memory has one owner and none is lost, whatever a nested call
\* takes out of the list half way through a refill; a free chunk has no
\* objects left, and mem_fx_alloc is not entered again (untyped.c).
UntypedOwned ==
    part = "untyped" =>
        /\ Memory!TypeOK
        /\ Memory!MemoryOnce /\ Memory!NothingLost
        /\ Memory!FreeChunksEmpty /\ Memory!MemFxNotReentered

\* The counters of the tables of small objects, their bits and where their
\* search begins agree with the objects in use, after refusals of the kernel
\* too, and no search runs into an assertion (small.c).
SmallTablesAgree ==
    part = "small" =>
        /\ Small!TypeOK
        /\ Small!CountersAgree /\ Small!IndexBelowBits
        /\ Small!BitsAreOwnership /\ Small!AssertionsHold

\* Blocks of pages do not overlap, a zone's count is that of its free pages
\* after mappings that failed, and its assertions hold (mem_fxlarge.c).
LargeBlocksApart ==
    part = "fxlarge" =>
        /\ Large!TypeOK
        /\ Large!AvailIsFreePages /\ Large!BlocksApart /\ Large!AssertionsHold

\* However calls nest and fail, a page table is there as long as one of its
\* pages, valid pages are mapped, and no object is lost (mem_page.c).
PageTablesFollow ==
    part = "mem_page" =>
        /\ Page!TypeOK
        /\ Page!TablesFollowUsers /\ Page!ValidMeansMapped
        /\ Page!ObjectsAccounted /\ Page!AssertionsHold

\* Small blocks do not overlap and lie in mapped pages; a pool that cannot
\* serve is left for the next, which serves its first request (mem_fx.c,
\* mem_fxseq.c, mem_fxalloc.c, mem_fxcache.c).
FxBlocksSound ==
    part = "mem_fx" =>
        /\ Fx!TypeOK
        /\ Fx!BlocksApart /\ Fx!BlocksMapped
        /\ Fx!ExhaustedMeansFull /\ Fx!FreshPoolServes

\* The map holds what was set last, under the pointers of the client that are
\* still good, gives its memory back, and an iteration visits each key once
\* while no two share a chain (hashmap.c).
MapHoldsWhatWasSet ==
    part = "hashmap" =>
        /\ Map!HoldsWhatWasSet /\ Map!BlocksAccounted /\ Map!IterationVisitsAll
=============================================================================
