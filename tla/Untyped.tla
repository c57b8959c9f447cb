-------------------------------- MODULE Untyped --------------------------------
(***************************************************************************)
(* apps/init/src/untyped.c: the root server's pool of untyped memory.      *)
(* Memory given at boot is kept as chunks of 4 MiB and of 4 KiB; when the  *)
(* 4 KiB chunks run low one of 4 MiB is split (a refill).                  *)
(*                                                                         *)
(* Every node added needs memory from mem_fx_alloc, and mem_fx_alloc may   *)
(* map pages, whose frames and page tables come from this same pool: the   *)
(* code is entered again half way through a refill.  A turn of a splitting *)
(* loop is therefore two steps, around the call of mem_fx_alloc, and the   *)
(* nested calls are steps of their own.                                    *)
(*                                                                         *)
(* Memory is counted in units of 4 KiB.  A chunk is <<region, unit>>, the  *)
(* place of its first unit; the nodes of avail_4ms and avail_4ks are       *)
(* sequences of chunks with the list's first node at the head.             *)
(***************************************************************************)
EXTENDS Integers, SequencesExt

CONSTANTS BITS_4KIB, BITS_4MIB,
          CACHE_4K_COUNT,  \* refill at this many 4 KiB chunks or fewer
          Regions,         \* untypeds in the boot information,
          BootSizes,       \* and their sizes in bits
          Slots,           \* capability slots the process has for this
          MaxNested,       \* pages and page tables one mem_fx_alloc may map
          NULL

PerLarge == 2 ^ (BITS_4MIB - BITS_4KIB)

(* A chunk of 4 MiB, and any larger region, is cut up without a remainder. *)
SizesAssumption ==
  /\ Regions \in Nat \ {0} /\ Slots \in Nat
  /\ BITS_4KIB \in Nat /\ BITS_4MIB \in Nat /\ BootSizes \subseteq Nat
  /\ PerLarge \in Nat \ {0}
  /\ \A size \in BootSizes :
       /\ size >= BITS_4KIB => 2 ^ (size - BITS_4KIB) \in Nat
       /\ size >= BITS_4MIB =>
            \E k \in 1 .. 2 ^ (size - BITS_4KIB) : 2 ^ (size - BITS_4KIB) = k * PerLarge

VARIABLES boot,            \* region -> size bits
          booted,          \* regions added so far
          avail_4ms, avail_4ks, avail_4ks_count, refill_running,
          pc,              \* where the outermost call stands, or how it stopped
          job,             \* the splitting loop's locals
          call,            \* which allocation the refill runs for
          ret,             \* what the last allocation returned
          held,            \* 4 KiB chunks in use by callers
          objects,         \* chunks with live kernel objects in them
          slots,           \* free capability slots
          nested           \* chunks that the mem_fx_alloc in progress has taken

lists == <<avail_4ms, avail_4ks, avail_4ks_count>>
vars == <<boot, booted, lists, refill_running, pc, job, call, ret, held, objects,
          slots, nested>>

Booting == booted < Regions
InMemFx == pc \in {"fx", "user_fx"}          \* mem_fx_is_allocating()

NoJob == [kind |-> "none", region |-> 1, next |-> 0, end |-> 0, split |-> FALSE]

Init ==
  /\ boot \in [1 .. Regions -> BootSizes]
  /\ booted = 0
  /\ avail_4ms = << >> /\ avail_4ks = << >> /\ avail_4ks_count = 0
  /\ refill_running = FALSE
  /\ pc = "boot" /\ job = NoJob /\ call = "none" /\ ret = NULL
  /\ held = {} /\ objects = {}
  /\ slots = Slots
  /\ nested = {}

-------------------------------------------------------------------------------
(* Adding memory, at boot and in a refill.                                 *)

Units(r) == IF boot[r] < BITS_4KIB THEN 0 ELSE 2 ^ (boot[r] - BITS_4KIB)

(* untyped_add_memory on the next region: how it is to be cut up.  Pieces  *)
(* of less than 4 KiB are wasted.                                          *)
AddRegion ==
  /\ pc = "boot"
  /\ LET r == booted + 1
         size == boot[r]
     IN IF size < BITS_4KIB
          THEN /\ booted' = r
               /\ pc' = IF r = Regions THEN "idle" ELSE "boot"
               /\ UNCHANGED job
          ELSE /\ job' = [kind |-> IF size >= BITS_4MIB THEN "4m" ELSE "4k",
                          region |-> r, next |-> 0, end |-> Units(r),
                          split |-> size \notin {BITS_4KIB, BITS_4MIB}]
               /\ pc' = "turn"
               /\ UNCHANGED booted
  /\ UNCHANGED <<boot, lists, refill_running, call, ret, held, objects, slots, nested>>

(* An error: at boot premain stops the process; a refill is left as it is, *)
(* with refill_running set, and the allocation returns NULL.               *)
GiveUp ==
  /\ pc' = IF Booting THEN "stopped" ELSE "idle"
  /\ job' = NoJob
  /\ ret' = NULL

(* A turn of a splitting loop up to mem_fx_alloc: a slot for the piece, if *)
(* the memory is being split, and one for aux.  A slot taken for the piece *)
(* is given back neither when there is none for aux nor when the kernel    *)
(* does not make the piece.                                                *)
Needs == IF job.split THEN 2 ELSE 1

Turn ==
  /\ pc = "turn"
  /\ job.next < job.end
  /\ \/ /\ slots < Needs
        /\ slots' = 0
        /\ GiveUp
     \/ /\ job.split /\ slots >= 1
        /\ slots' = slots - 1
        /\ GiveUp
     \/ /\ slots >= Needs
        /\ slots' = slots - Needs
        /\ pc' = "fx"
        /\ UNCHANGED <<job, ret>>
  /\ UNCHANGED <<boot, booted, lists, refill_running, call, held, objects, nested>>

Step(kind) == IF kind = "4m" THEN PerLarge ELSE 1

(* mem_fx_alloc returned a node: it is filled in and pushed. *)
Push_HeadReadEarlier(chunk) ==
  /\ avail_4ks' = <<chunk>> \o SetToSeq(nested) \o avail_4ks
  /\ avail_4ks_count' = avail_4ks_count + 1

Push(chunk) ==
  /\ avail_4ks' = <<chunk>> \o avail_4ks
  /\ avail_4ks_count' = avail_4ks_count + 1

AddNode ==
  /\ pc = "fx"
  /\ LET chunk == <<job.region, job.next>>
     IN IF job.kind = "4m"
          THEN /\ avail_4ms' = <<chunk>> \o avail_4ms
               /\ UNCHANGED <<avail_4ks, avail_4ks_count>>
          ELSE Push(chunk) /\ UNCHANGED avail_4ms
  /\ job' = [job EXCEPT !.next = @ + Step(job.kind)]
  /\ pc' = "turn"
  /\ nested' = {}
  /\ UNCHANGED <<boot, booted, refill_running, call, ret, held, objects, slots>>

(* mem_fx_alloc failed: aux is freed, the piece's own slot is not. *)
AddFails ==
  /\ pc = "fx"
  /\ slots' = slots + 1
  /\ GiveUp
  /\ nested' = {}
  /\ UNCHANGED <<boot, booted, lists, refill_running, call, held, objects>>

RegionDone ==
  /\ pc = "turn" /\ Booting
  /\ job.next = job.end
  /\ booted' = booted + 1
  /\ pc' = IF booted + 1 = Regions THEN "idle" ELSE "boot"
  /\ job' = NoJob
  /\ UNCHANGED <<boot, lists, refill_running, call, ret, held, objects, slots, nested>>

-------------------------------------------------------------------------------
(* Allocation.                                                             *)

Stop(why) == pc' = why /\ UNCHANGED <<ret, held, objects, avail_4ks>>

(* The first chunk of the list goes to the caller, who for                 *)
(* untyped_allocate_retyped also gets an object in it; should the kernel   *)
(* refuse to make one the chunk goes back by untyped_free_4k.              *)
Take(how, then) ==
  IF avail_4ks = << >>
    THEN IF avail_4ks_count # 0
           THEN Stop("assertion")
           ELSE ret' = NULL /\ pc' = then /\ UNCHANGED <<held, objects, avail_4ks>>
    ELSE IF avail_4ks_count = 0
           THEN Stop("assertion")
           ELSE /\ pc' = then
                /\ \/ /\ avail_4ks' = Tail(avail_4ks)
                      /\ ret' = Head(avail_4ks)
                      /\ held' = held \cup {ret'}
                      /\ objects' = IF how = "raw" THEN objects ELSE objects \cup {ret'}
                   \/ /\ how = "typed"
                      /\ ret' = NULL
                      /\ UNCHANGED <<held, objects, avail_4ks>>

MayRefill == avail_4ks_count <= CACHE_4K_COUNT /\ ~refill_running /\ ~InMemFx

(* untyped_allocate_4k from outside mem_fx: by alloc_small_table ("raw")   *)
(* or by untyped_allocate_retyped ("typed").                               *)
Allocate(how) ==
  /\ pc = "idle"
  /\ IF ~MayRefill
       THEN Take(how, "idle") /\ UNCHANGED <<avail_4ms, refill_running, job, call>>
     ELSE IF (avail_4ks_count = 0) # (avail_4ks = << >>)
       THEN Stop("assertion") /\ UNCHANGED <<avail_4ms, refill_running, job, call>>
     ELSE IF avail_4ms = << >>
       THEN /\ ret' = NULL
            /\ UNCHANGED <<pc, avail_4ms, avail_4ks, refill_running, job, call, held, objects>>
       ELSE /\ refill_running' = TRUE
            /\ job' = [kind |-> "4k", region |-> Head(avail_4ms)[1],
                       next |-> Head(avail_4ms)[2],
                       end |-> Head(avail_4ms)[2] + PerLarge, split |-> TRUE]
            /\ avail_4ms' = Tail(avail_4ms)
            /\ pc' = "turn"
            /\ call' = how
            /\ UNCHANGED <<avail_4ks, ret, held, objects>>
  /\ UNCHANGED <<boot, booted, avail_4ks_count, slots, nested>>

(* "go and allocate normally now" *)
RefillDone ==
  /\ pc = "turn" /\ ~Booting
  /\ job.next = job.end
  /\ refill_running' = FALSE
  /\ job' = NoJob
  /\ Take(call, "idle")
  /\ UNCHANGED <<boot, booted, avail_4ms, avail_4ks_count, call, slots, nested>>

(* untyped_free_4k: revoking the chunk's untyped deletes what is in it,    *)
(* the copies its user handed out included.                                *)
Cleared(chunk) == objects' = objects \ {chunk}

Release(chunk) ==
  /\ avail_4ks' = <<chunk>> \o avail_4ks
  /\ held' = held \ {chunk}
  /\ Cleared(chunk)
  /\ UNCHANGED <<boot, booted, avail_4ms, avail_4ks_count, refill_running, pc, job,
                 call, ret, slots>>

Free(chunk) == pc = "idle" /\ Release(chunk) /\ UNCHANGED nested

-------------------------------------------------------------------------------
(* mem_fx_alloc: called by anyone between calls of this module, or by a    *)
(* splitting loop.  It maps pages, and while at it may give one back.      *)

UserMemFx ==
  /\ pc = "idle"
  /\ pc' = "user_fx"
  /\ UNCHANGED <<boot, booted, lists, refill_running, job, call, ret, held, objects,
                 slots, nested>>

UserMemFxEnds ==
  /\ pc = "user_fx"
  /\ pc' = "idle"
  /\ nested' = {}
  /\ UNCHANGED <<boot, booted, lists, refill_running, job, call, ret, held, objects, slots>>

(* A refill here would call mem_fx_alloc again, which asserts that it is   *)
(* not running already (mem_fx.c:39).                                      *)
NestedAllocate ==
  /\ InMemFx /\ ~Booting
  /\ Cardinality(nested) < MaxNested
  /\ IF MayRefill THEN Stop("reentered") ELSE Take("typed", pc)
  /\ nested' = nested \cup (held' \ held)
  /\ UNCHANGED <<boot, booted, avail_4ms, avail_4ks_count, refill_running, job, call, slots>>

(* mem_page_map fails after it had the frame, or the frame and the table:  *)
(* it gives them back.                                                     *)
NestedFree(chunk) ==
  /\ InMemFx /\ ~Booting
  /\ chunk \in nested
  /\ nested' = nested \ {chunk}
  /\ Release(chunk)

Next ==
  \/ AddRegion \/ RegionDone
  \/ Turn \/ AddNode \/ AddFails
  \/ \E how \in {"raw", "typed"} : Allocate(how)
  \/ RefillDone
  \/ \E chunk \in held : Free(chunk)
  \/ UserMemFx \/ UserMemFxEnds
  \/ NestedAllocate
  \/ \E chunk \in nested : NestedFree(chunk)

Spec == Init /\ [][Next]_vars

-------------------------------------------------------------------------------
Places == (1 .. Regions) \X Nat

(* The lists, the loop's locals and the callers' chunks have their types. *)
TypeOK ==
  /\ booted \in 0 .. Regions
  /\ avail_4ms \in Seq(Places) /\ avail_4ks \in Seq(Places)
  /\ avail_4ks_count \in Nat
  /\ refill_running \in BOOLEAN
  /\ pc \in {"boot", "turn", "fx", "idle", "user_fx", "stopped", "assertion", "reentered"}
  /\ job.next <= job.end
  /\ call \in {"none", "raw", "typed"}
  /\ ret \in Places \cup {NULL}
  /\ held \subseteq Places /\ objects \subseteq Places
  /\ slots \in 0 .. Slots
  /\ nested \subseteq held

(* The units behind the nodes of avail_4ms, and those a loop has yet to    *)
(* turn into nodes.                                                        *)
LargeUnits == {<<chunk[1], chunk[2] + u>> : chunk \in ToSet(avail_4ms), u \in 0 .. PerLarge - 1}
JobUnits == {<<job.region, u>> : u \in job.next .. job.end - 1}

(* Memory has one owner: no chunk is in a list twice, in a list and in     *)
(* use, or part of a larger chunk that is still to be split, whatever      *)
(* nested calls took out of the list half way through a refill.            *)
MemoryOnce ==
  /\ IsInjective(avail_4ks) /\ IsInjective(avail_4ms)
  /\ ToSet(avail_4ks) \cap held = {}
  /\ (ToSet(avail_4ks) \cup held) \cap (LargeUnits \cup JobUnits) = {}
  /\ LargeUnits \cap JobUnits = {}

(* No memory is lost: every unit of the regions added so far has an owner, *)
(* unless a refill failed half way (the flag it leaves set says so).       *)
NothingLost ==
  (pc \notin {"stopped", "assertion"} /\ (refill_running => job.kind # "none")) =>
    \A r \in 1 .. booted : \A u \in 0 .. Units(r) - 1 :
      <<r, u>> \in ToSet(avail_4ks) \cup held \cup LargeUnits \cup JobUnits

(* A chunk in the list has no objects left in it: the next user's retype   *)
(* finds it empty.                                                         *)
FreeChunksEmpty == ToSet(avail_4ks) \cap objects = {}

(* mem_fx_alloc is never entered while it runs: a nested allocation does   *)
(* not start a refill, however low the pool is.                            *)
MemFxNotReentered == pc # "reentered"

(* "reflects the length of avail_4ks" (untyped.c:27), which the assertions *)
(* of untyped_allocate_4k (107, 140, 144) rely on: none of them fails.     *)
CountAssertionsHold == pc # "assertion"
===============================================================================
