-------------------------------- MODULE FxPool --------------------------------
(***************************************************************************)
(* libs/libresource/src/mem_fx.c, mem_fxcache.c, mem_fxseq.c and           *)
(* mem_fxalloc.c: blocks of at most half a page.  A freed block waits in   *)
(* the cache for a request of its size; other requests are served from a   *)
(* fixed pool first and then from a growing series of page pools, each     *)
(* made while the one before it still has room.                            *)
(*                                                                         *)
(* Every call of mem_page_map is a step of its own, for object_alloc is    *)
(* called in it: the root server's takes memory elsewhere, but a client's  *)
(* (libinit/src/objectcli.c) calls mem_fx_alloc for its token.             *)
(*                                                                         *)
(* A block is a place in a pool and a length; pool 0 is initial_data.      *)
(* Callers keep most blocks for good; those in live they may free.         *)
(***************************************************************************)
EXTENDS Integers, SequencesExt

CONSTANTS PAGE_SIZE,
          FXCACHE_UNIT, FXCACHE_RANGE,
          INITIAL_CHUNK,     \* MEM_FXSEQ_INITIAL_CHUNK
          NODE, HEADER,      \* sizes of a page's record and of a pool's,
          TOKEN,             \* and of the token of a client's object_alloc
          SpaceSize,         \* address space that mem_vspace has for pools
          Sizes,             \* sizes asked for
          MaxLive,           \* blocks that may still be freed,
          MaxCached,         \* and freed blocks in the cache
          NULL

FXCACHE_MAX == FXCACHE_RANGE * FXCACHE_UNIT

SizesAssumption ==
  /\ FXCACHE_UNIT \in Nat \ {0} /\ FXCACHE_RANGE \in Nat \ {0}
  /\ NODE \in Nat \ {0} /\ NODE % FXCACHE_UNIT = 0 /\ NODE <= PAGE_SIZE
  /\ SpaceSize \in Nat
  /\ HEADER \in Nat \ {0} /\ HEADER % FXCACHE_UNIT = 0
  /\ PAGE_SIZE = 2 * FXCACHE_MAX
  /\ HEADER + FXCACHE_MAX <= PAGE_SIZE
  /\ INITIAL_CHUNK \in Nat \ {0} /\ INITIAL_CHUNK % PAGE_SIZE = 0
  /\ TOKEN \in Nat \ {0} /\ TOKEN % FXCACHE_UNIT = 0
  /\ 2 * TOKEN <= INITIAL_CHUNK
  /\ Sizes \subseteq 1 .. FXCACHE_MAX

VARIABLES client,         \* is this a client, or the root server?
          current,        \* fxseq->current, an offset in initial_data
          pools,          \* the page pools made so far
          active, ready,  \* NULL or an index of pools
          heads,          \* size -> the cache's list of free blocks
          is_allocating,
          pc,
          job,            \* the locals of the call in progress
          records,        \* blocks of the allocator's own
          live

memory == <<current, pools, active, ready, records>>
vars == <<client, memory, heads, is_allocating, pc, job, live>>

(* size is what mem_fx_alloc is asked for; want says what the call of      *)
(* mem_fxalloc_alloc is for, and then what the one after an expansion is   *)
(* for; zone is the address space of a pool being made, and tokens counts  *)
(* the objects that a client's mem_page_map has asked for.                 *)
NoJob == [size |-> 0, want |-> "first", then |-> "first", zone |-> 0, tokens |-> 0]

Init ==
  /\ client \in BOOLEAN
  /\ current = 0 /\ pools = << >>
  /\ active = NULL /\ ready = NULL
  /\ heads = [s \in 1 .. FXCACHE_MAX |-> << >>]
  /\ is_allocating = FALSE
  /\ pc = "boot" /\ job = NoJob
  /\ records = {} /\ live = {}

Block(pool, start, size) == [pool |-> pool, start |-> start, size |-> size]

(* round_size *)
Rounded(size) == ((size + FXCACHE_UNIT - 1) \div FXCACHE_UNIT) * FXCACHE_UNIT

(* get_linked_list_index_for_size *)
IndexOf(size) == size \div FXCACHE_UNIT

-------------------------------------------------------------------------------
(* The ends of mem_fx_alloc: it returns a block, or NULL. *)

Done ==
  /\ pc' = IF pools = << >> THEN "boot" ELSE "idle"
  /\ job' = NoJob
  /\ is_allocating' = FALSE

Return(block) ==
  /\ Done
  /\ \/ Cardinality(live) < MaxLive /\ live' = live \cup {block}
     \/ UNCHANGED live

Fail == Done /\ UNCHANGED live

(* The call goes on, or the process stops. *)
Goto(where, locals) ==
  /\ pc' = where
  /\ job' = locals
  /\ is_allocating' = TRUE
  /\ UNCHANGED live

Stop(why) == pc' = why /\ UNCHANGED <<job, is_allocating, live>>

(* What mem_vspace_alloc_slice may make of a hint, from what is left.      *)
Used == FoldSeq(LAMBDA pool, sum : pool.size + sum, 0, pools)

PoolSizes(hint) ==
  {s \in 1 .. SpaceSize : /\ s % PAGE_SIZE = 0
                          /\ s >= hint \div 2 + 1 /\ s <= 2 * hint
                          /\ s + Used <= SpaceSize}

MappedAtFirst == PAGE_SIZE

NewPool == [current |-> 0, alloc |-> MappedAtFirst, size |-> job.zone]

-------------------------------------------------------------------------------
(* mem_fx_init: the first page pool.  If it cannot be had premain stops    *)
(* the process.                                                            *)

mem_fx_init ==
  /\ pc = "boot"
  /\ \/ \E s \in PoolSizes(2 * INITIAL_CHUNK) :
          pc' = "init_map" /\ job' = [NoJob EXCEPT !.zone = s]
     \/ pc' = "stopped" /\ UNCHANGED job
  /\ UNCHANGED <<client, memory, heads, is_allocating, live>>

InitMap ==
  /\ pc = "init_map"
  /\ \/ /\ client => job.tokens > 0
        /\ pools' = <<NewPool>>
        /\ ready' = 1
        /\ pc' = "idle"
     \/ /\ pc' = "stopped"
        /\ UNCHANGED <<pools, ready>>
  /\ job' = NoJob
  /\ UNCHANGED <<client, current, active, records, heads, is_allocating, live>>

(* mem_fx_alloc: from the cache, from the fixed pool, or on to the pools.  *)
(* Only the root server allocates before mem_fx_init.                      *)
mem_fx_alloc(size) ==
  LET s == Rounded(size)
  IN /\ pc = "idle" \/ (pc = "boot" /\ ~client)
     /\ UNCHANGED <<client, pools, active, ready, records>>
     /\ IF IndexOf(s) >= FXCACHE_RANGE
          THEN Stop("out_of_bounds") /\ UNCHANGED <<current, heads>>
        ELSE IF heads[s] # << >>
          THEN /\ Return(Head(heads[s]))
               /\ heads' = [heads EXCEPT ![s] = Tail(@)]
               /\ UNCHANGED current
        ELSE IF active # NULL
          THEN Goto("serve", [NoJob EXCEPT !.size = s]) /\ UNCHANGED <<current, heads>>
        ELSE IF current + s <= INITIAL_CHUNK
          THEN /\ Return(Block(0, current, s))
               /\ current' = current + s
               /\ UNCHANGED heads
          ELSE Goto("expand", [NoJob EXCEPT !.size = s]) /\ UNCHANGED <<current, heads>>

(* expand_pool, up to the allocation of the next pool's record. *)
Expand ==
  /\ pc = "expand"
  /\ IF ready = NULL
       THEN Fail /\ UNCHANGED <<active, ready>>
       ELSE /\ active' = ready
            /\ ready' = NULL
            /\ Goto("serve", [job EXCEPT !.want = "record"])
  /\ UNCHANGED <<client, current, pools, records, heads>>

Cached == UNION {ToSet(heads[s]) : s \in DOMAIN heads}

mem_fx_free(block) ==
  /\ pc = "idle"
  /\ Cardinality(Cached) < MaxCached
  /\ heads' = [heads EXCEPT ![block.size] = <<block>> \o @]
  /\ live' = live \ {block}
  /\ UNCHANGED <<client, memory, is_allocating, pc, job>>

-------------------------------------------------------------------------------
(* mem_fxalloc_alloc. *)

Pool == pools[active]
Wanted == IF job.want = "record" THEN HEADER ELSE job.size

InPages(pool, size) == pool.current + size <= pool.alloc

Exhausted(pool, size) == pool.current + size > pool.size

(* mem_fxalloc_is_full *)
IsFull(pool) == pool.alloc >= pool.size

(* What follows when it returns NULL.  In the first case line 71 of        *)
(* mem_fxseq.c asks whether the pool at address NULL is full.              *)
NoBlock ==
  IF job.want = "again" THEN Stop("null_dereference")
  ELSE IF job.want = "first" /\ IsFull(Pool) THEN Goto("expand", [job EXCEPT !.then = "again"])
  ELSE Fail

Serve ==
  /\ pc = "serve"
  /\ LET block == Block(active, Pool.current, Wanted)
     IN IF InPages(Pool, Wanted)
          THEN /\ pools' = [pools EXCEPT ![active].current = @ + Wanted]
               /\ IF job.want = "record"
                    THEN records' = records \cup {block} /\ Goto("create", job)
                    ELSE UNCHANGED records /\ Return(block)
        ELSE IF Exhausted(Pool, Wanted)
          THEN NoBlock /\ UNCHANGED <<pools, records>>
          ELSE Goto("page_map", job) /\ UNCHANGED <<pools, records>>
  /\ UNCHANGED <<client, current, active, ready, heads>>

(* acquire_another_page, from its call of mem_page_map on.  The cookie it  *)
(* passes was never written: mem_page_map's assertion sees what the stack  *)
(* held.                                                                   *)
AfterNode_NotSkipped(pool) == pool.current

AfterNode(pool) == pool.current + NODE

PageMap ==
  /\ pc = "page_map"
  /\ \/ /\ ~client
        /\ pools' = [pools EXCEPT ![active].alloc = @ + PAGE_SIZE,
                                  ![active].current = AfterNode(Pool)]
        /\ records' = records \cup {Block(active, Pool.current, NODE)}
        /\ Goto("serve", job)
     \/ ~client /\ NoBlock /\ UNCHANGED <<pools, records>>
     \/ Stop("assertion") /\ UNCHANGED <<pools, records>>
  /\ UNCHANGED <<client, current, active, ready, heads>>

(* mem_fxalloc_create of the next pool.  If it fails the pool's record is  *)
(* lost and ready stays NULL.                                              *)
Create ==
  /\ pc = "create"
  /\ \/ \E s \in PoolSizes(2 * Pool.size) : Goto("create_map", [job EXCEPT !.zone = s])
     \/ Fail
  /\ UNCHANGED <<client, memory, heads>>

CreateMap ==
  /\ pc = "create_map"
  /\ ~client
  /\ \/ /\ pools' = Append(pools, NewPool)
        /\ ready' = Len(pools) + 1
        /\ Goto("serve", [job EXCEPT !.want = job.then, !.zone = 0])
     \/ Fail /\ UNCHANGED <<pools, ready>>
  /\ UNCHANGED <<client, current, active, records, heads>>

(* object_alloc in a client's mem_page_map, for a frame and perhaps for a  *)
(* page table, begins with mem_fx_alloc.  During mem_fx_init the fixed     *)
(* pool serves it; later mem_fx_alloc is what called mem_page_map.         *)
ObjectAlloc ==
  /\ client
  /\ pc \in {"init_map", "page_map", "create_map"}
  /\ IF is_allocating
       THEN Stop("reentered") /\ UNCHANGED <<current, records>>
       ELSE /\ job.tokens < 2
            /\ job' = [job EXCEPT !.tokens = @ + 1]
            /\ current' = current + TOKEN
            /\ records' = records \cup {Block(0, current, TOKEN)}
            /\ UNCHANGED <<is_allocating, live, pc>>
  /\ UNCHANGED <<client, pools, active, ready, heads>>

Next ==
  \/ mem_fx_init \/ InitMap
  \/ \E size \in Sizes : mem_fx_alloc(size)
  \/ \E block \in live : mem_fx_free(block)
  \/ Expand \/ Serve \/ PageMap \/ Create \/ CreateMap
  \/ ObjectAlloc

Spec == Init /\ [][Next]_vars

-------------------------------------------------------------------------------
AllBlocks == live \cup Cached \cup records

(* Pools, lists and locals have their types; in particular a pool's        *)
(* pointers stay in order.                                                 *)
TypeOK ==
  /\ client \in BOOLEAN /\ is_allocating \in BOOLEAN
  /\ current \in 0 .. INITIAL_CHUNK
  /\ \A k \in 1 .. Len(pools) :
       /\ pools[k].current \in 0 .. pools[k].alloc
       /\ pools[k].alloc \in 0 .. pools[k].size
       /\ pools[k].alloc % PAGE_SIZE = 0
  /\ {active, ready} \subseteq 1 .. Len(pools) \cup {NULL}
  /\ pc \in {"boot", "init_map", "idle", "expand", "serve", "page_map", "create",
             "create_map", "stopped", "assertion", "reentered", "out_of_bounds",
             "null_dereference"}
  /\ job \in [size : 0 .. FXCACHE_MAX, want : {"record", "first", "again"},
             then : {"first", "again"}, zone : 0 .. SpaceSize, tokens : 0 .. 2]

(* No two blocks overlap, whether in use, in the cache or the allocator's  *)
(* own, and all lie before the pointer the next block is taken from.       *)
Bytes(block) == {<<block.pool, b>> : b \in block.start .. block.start + block.size - 1}

BlocksApart ==
  /\ \A a \in AllBlocks, b \in AllBlocks : a # b => Bytes(a) \cap Bytes(b) = {}
  /\ live \cap Cached = {} /\ \A s \in DOMAIN heads : IsInjective(heads[s])
  /\ \A a \in AllBlocks :
       a.start + a.size <= IF a.pool = 0 THEN current ELSE pools[a.pool].current

(* Every block lies in mapped pages, a page's own record included, which   *)
(* may begin in the page before it.                                        *)
BlocksMapped ==
  \A a \in AllBlocks : a.pool # 0 => a.start + a.size <= pools[a.pool].alloc

(* When a pool has no address space for a request it also counts as full,  *)
(* so mem_fxseq_alloc goes on to the next pool and is never stuck with one *)
(* that is neither full nor of use.                                        *)
ExhaustedMeansFull ==
  (pc = "serve" /\ ~InPages(Pool, Wanted) /\ Exhausted(Pool, Wanted)) => IsFull(Pool)

(* A pool that was just made active serves the next pool's record and then *)
(* the request from its first page: neither can fail, and line 71 of       *)
(* mem_fxseq.c, which would read through NULL, is not reached.             *)
FreshPoolServes ==
  /\ pc # "null_dereference"
  /\ pc = "page_map" => job.want = "first"

(* assert(!is_allocating) (mem_fx.c:39): expand_pool is written for calls  *)
(* that come back to it ("should make allocations possible again",         *)
(* mem_fxseq.c:19), and none may meet this assertion.                      *)
NotReentered == pc # "reentered"
===============================================================================
