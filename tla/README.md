# A formal model of selkie

selkie is an operating-system personality on the seL4 microkernel: a root
server that owns the machine's memory and starts programs, a library with which
every process manages its own capability slots, addresses and pages, a few
small servers and clients, and a port of the Lua interpreter. This directory holds
TLA+ modules that model it, TLC configurations that check them on small
instances, and TLAPS proofs.

Paths below are relative to `src/`. `PROJECT.json` maps every definition to the lines it models.

## 1. Inventory

### Processes

| Process | Code | State | Operations |
|---|---|---|---|
| root server | `apps/init` | untyped pool, small-object tables, thread records, its own endpoints | start-up (`premain`), object alloc/free, process create/start/stop/destroy |
| sandbox | `apps/sandbox` | its own endpoint, the registrar's capability | relays alloc and free to the root server; takes the registrar's capability and hands it to later clients; starts a program |
| registrar | `apps/registrar` | hash map from names to capabilities, sorted list | register, look up, enumerate. `main.c` does not compile at this commit (`free_nodes` is undeclared, two handlers have no body) |
| ioroot, helloworld | `apps/ioroot`, `apps/helloworld` | none | clients |

No process has more than one thread. There are three sources of interleaving:
processes that exchange IPC messages; **re-entrance inside the allocators of one
process**; and, inside Lua, the collector, the finalizers and the coroutines that run
between a program's operations. Allocating a page needs a frame object, making a frame
may need a refill of the untyped pool, the refill needs small blocks for its list nodes, and
those blocks may need a page. `assert` is always compiled in and stops the process. An expected
failure is reported by a raised error (`errx`) and a NULL or FALSE result.

### Library components, bottom up

| Component | Code | State | Operations | Calls | Correct when |
|---|---|---|---|---|---|
| capability slots | `libs/libresource/src/cslot.c` | list of ranges: low, hint, bitmap of 256 | alloc, slab alloc, free, copy/mint/mutate/retype/delete/revoke | kernel; `mem_fx_alloc` at set-up | a slot has one owner; none is lost behind the hint; a free slot is empty; exhaustion is reported only when real |
| address space | `mem_vspace.c` | doubly linked list of zones | set-up, approximate and exact alloc, free | none | zones never overlap; sizes within the header's contract; fails only when no gap is large enough |
| untyped memory | `apps/init/src/untyped.c` | lists of 4 MiB and 4 KiB chunks, a count, a refill flag | boot, alloc (with refill), free, retype | slots, `mem_fx` | no chunk is owned twice or lost; freed chunks are empty; a nested call never re-enters `mem_fx` |
| small kernel objects | `apps/init/src/small.c`, `objectsrv.c` | ring of tables with bitmap, counts, search index | object alloc, token free | untyped, slots, `mem_fx` | counters, bitmaps and capability slots agree; searches end |
| pages | `mem_page.c` | page tables and their user counts; a cookie per page | map, shared map, free | `object_alloc`, kernel | a table lives exactly as long as its users; a failed call leaks nothing |
| small blocks | `mem_fx.c`, `mem_fxcache.c`, `mem_fxseq.c`, `mem_fxalloc.c` | fixed pool, chain of page pools, cache by size | init, alloc, free | address space, pages | blocks are apart and mapped; a new pool exists before the old one is full |
| whole-page blocks | `mem_fxlarge.c` | list of zones of 168 pages | alloc and free of one or two pages | address space, pages, `mem_fx` | blocks share no page; counts are exact |
| arena | `mem_arena.c` | pages in a row | create, grow, destroy | pages | no caller in the repository |
| IPC | `libs/libipc` | receive slots, message registers | call, reply, server loop | slots, kernel | slots are empty again after each message; a capability is taken or deleted |
| object and exec clients | `libs/libinit` | tokens | object alloc/free, process calls over IPC | IPC, `mem_fx` | a token stands for one remote object |
| program loading | `libs/libelfloader` | page directory, page tables, mappings | load, destroy | all of the above | a failure at any step gives back exactly what was taken |
| registrar map | `apps/registrar/src/hashmap.c` | buckets | set, get, remove, iterate | `mem_fx` | is a function from names to values; iteration visits each key once |
| error state | `libs/libbedrock` | one global error | raise, consume, report | – | an error is consumed before the next is raised |

### Lua (`libs/liblua/src`)

| Component | Code | State | Correct when |
|---|---|---|---|
| garbage collector | `lgc.c`, `lfunc.c` | colours, lists by kind of weakness, sweep position, open upvalues | nothing the program can come to is freed; finalizers run once; a full collection frees what nothing keeps |
| tables | `ltable.c` | array part, chained hash part, last free node | a table is the function that was written; a traversal comes to each key once |
| compiler | `lparser.c`, `lcode.c` | function states, blocks, pending gotos, jump lists, registers | the code does what the program's text means |
| virtual machine | `lvm.c` | stack, call infos, upvalues | every instruction stays in its frame; a captured variable outlives its frame |
| calls, errors, coroutines | `ldo.c`, `lcorolib.c` | call infos and stacks of threads, one C stack | an error or a yield that cuts the C stack is seen by no program |
| libraries | `lstrlib.c`, `ltablib.c`, `ldump.c`, `lundump.c`, `lzio.c` | a matcher's captures, a sort's bounds, a stream | section 3, run `lua_lib` |
| API, lexer, strings, auxiliary library | `lapi.c`, `llex.c`, `lstring.c`, `lauxlib.c` | – | – |

No application links Lua yet; it is built as a static library, with `lua_assert` switched off
(`llimits.h:89`). What its assertions say is checked here all the same.

What is hard here: nested calls (above), partial failure in multi-step
operations, hints and cached counts that shadow a bitmap or a list, unsigned
arithmetic at the ends of ranges, capabilities that travel beside messages, and in Lua everything
that a second party may do between two steps of the first. There is no persistent state, hence no
crash recovery, and no timer, hence no timeouts; seL4's calls are neither lost nor
duplicated. The repository has no tests. `PROJECT.json`
lists the hazards line by line.

## 2. Modules

```
SlotPool       <-implements-  CSlot   <-extends, a search loop by loop-  RangeScan
AddressSpace   <-implements-  VSpace
ObjectService  <-implements-  Rpc
Coroutines     <-implements-  LuaDo

ResourceParts  composes  Untyped  SmallTable  FxLarge  MemPage  FxPool  HashMap
ElfExec
LuaGC
LuaCode <- LuaParse  ;  LuaCode <- LuaMeaning <- LuaVM   (MCLuaVM joins parser and machine)
LuaLib         composes  LuaSort  LuaTable  LuaTab  LuaPack  LuaDump  LuaPattern (with LuaMatch)

CSlotProofs (and RangeScan's)     VSpaceProofs    UntypedProofs
RpcProofs      ElfExecProofs      LuaSortProofs   LuaDoProofs
ResourcePartsProofs (over UntypedProofs)
```

### The resource layer

* **SlotPool** – abstract: a set of slots held by callers. A grant gives out a row of
  free slots; a refusal of a single slot is allowed only when all slots are held.
* **CSlot** – `cslot.c`. The list of ranges is the functions `low`, `avail`,
  `bits` over `1..n`; `n` is the root of the list, so the code's walk goes
  from `n` down to 1. One action per call, including the calls that fill or empty slots
  in the kernel (`cnode`). `held` is what the callers have. A double free ends in
  `halted`.
* **RangeScan** – the same file's search loops, one loop turn per step, in wrapping
  unsigned arithmetic, started from every bitmap, hint and count. It extends CSlot, whose state stays as the
  search finds it: a process with one range. The result is compared with CSlot's one-step `FirstRunIs` and
  `HintAfter`, so CSlot may take a search as a step.
* **AddressSpace** – abstract: a set of disjoint intervals, with `Take` and `GiveBack`.
* **VSpace** – `mem_vspace.c`. The linked list is a sequence; `next` and `prev` are
  neighbours. The two passes of the scan are `FirstFit` and `SmallestTooBig`.
  Dereferencing NULL and each assertion are values of `phase`.
* **Untyped** – `untyped.c`, with as much of `mem_fx` and `mem_page` as calls it
  back. A turn of a splitting loop is two steps around its call of `mem_fx_alloc`;
  between them `NestedAllocate` and `NestedFree` may run. The 4 KiB list is a sequence with its
  real (never decremented) count beside it.
* **SmallTable** – `small.c` and the small half of `objectsrv.c`. The circular
  list is a sequence that starts at `cached_free`.
* **MemPage** – `mem_page.c`. A call is a frame on a stack and is suspended at
  each `object_alloc`; another call may then map a page for `mem_fx`. `kernel`
  is what the kernel has mapped, `objects` counts what was allocated.
* **FxPool** – the four `mem_fx*` files for blocks up to half a page. Every
  `mem_page_map` is a step, because `object_alloc` is called in it. The variable `client`
  chooses whose `object_alloc` it is: the root server's, or the one in
  `libinit/src/objectcli.c`, which allocates a token with `mem_fx_alloc`.
* **FxLarge** – `mem_fxlarge.c`, one action per call.
* **HashMap** – the registrar's `hashmap.c`. The map keeps the pointers it is given; a name
  lies at several places, and its client may free a place the map was told to forget. `blocks`
  counts what was had from `mem_fx`.
* **ResourceParts** – the six modules before it instantiated over the same variables, of which
  a behaviour runs one: each keeps tables of its own and meets the others only in what its
  module leaves to the environment (which calls fail, what is called in between).

Why a call may be one action: a process has one thread, so only a call
that leaves the module and may come back is split. `cslot`, `mem_vspace`,
`small` and `mem_fxlarge` are not re-entered (their callees never call them);
`untyped`, `mem_page` and `mem_fx` are, and are split there.

### Processes

* **ObjectService** – abstract: an object has one owner; one of them may become known to everybody, once.
* **Rpc** – `libipc`, the handlers of the root server and the sandbox, `objectcli.c` and the calls of the clients. A
  message is a record with at most one capability; the kernel moves it into the slot that the
  receiver's path names, if that slot is empty. A server's loop is the steps receive, handle, reply,
  `Turn` (empty the two slots); the sandbox's handler is split at its own call of the root server.
* **ElfExec** – `launch_process` of the sandbox, `elfexec.c`, `elfloader.c`, `elfparser.c` and
  `execsrv.c`: one launch of every image, each call refused or not. `Held` is what was taken, `thread` what
  the root server has made, `window` the one page of the loader that is mapped over each page of the
  program in turn, `mem` what the program finds there. `errx` is the one pending error.

### Lua

* **LuaGC** – one action for each step of the collector (`singlestep`, `luaC_fullgc`, a finalizer) and each operation of a
  program: writes with their barriers, closures, coroutines, dropped references.
  An upvalue is its place: a level of a thread's stack while it is open, then a cell that its closures share. The history
  `unswept` remembers what a sweep did not make white (finding 2). Ten heaps (MCLuaGC) of three objects: tables of every mode, one or two
  objects with finalizers, closures that share an open or a closed variable, dead coroutines, a coroutine that a finalizer brings back.
* **LuaTable** – `ltable.c` with its positions and chains; an object is named by its hash; `last` is what the program wrote.
* **LuaCode**, **LuaParse** – `lcode.c` and `lparser.c` as operators that thread the
  `FuncState` through; the tokens come grouped as a syntax tree.
* **LuaMeaning** – what a program means, on its syntax alone, with cells for variables and no
  register, jump or stack.
* **LuaVM** – the machine; a step is one instruction. **MCLuaVM** makes the programs.
* **Coroutines** – abstract: threads with frames of their own, and no C stack.
* **LuaDo** – `ldo.c` and `lcorolib.c`, with the checks of arguments their functions begin with: call infos and value
  stacks of the threads and one C stack (`cstack`), which an error or a yield cuts back. A frame of C knows the
  call info it works for, as the code's `ci` variables do. The refinement reads the frames off the call infos.
* **LuaMatch** – the pattern matcher and its callers on the text of patterns, with the `MatchState` that `gmatch` keeps between
  calls; **LuaPattern** – what a list of pattern items matches, as sets of runs, and the comparison of both.
* **LuaTab**, **LuaPack**, **LuaDump** – table functions; pack and unpack; dump, undump and the stream
  between them. **LuaSort** – `table.sort`, a step for each comparison, whose answer is any.
* **LuaLib** – each behaviour runs a sort or a table, or asks one of the other libraries one question.

Definitions whose names carry a suffix (`Take_BitsStay`, `HintBelow_Forgotten`)
are plausible slips of the definition of the same name. They are not part of the
models: each is put in the place of the right one to see that a property notices.

## 3. Runs

Run one with `tlc -workers 2 -config X.cfg M`. Each passes within a few minutes.

| Run | Instance | Distinct states | What it shows |
|---|---|---|---|
| `cslot` | two ranges of 4 slots, the second half used | 52,786 | bitmap = ownership; free slots are empty; exhaustion is real; SlotPool implemented |
| `range_scan` | every bitmap of 6 slots, hint 0..6, count 1..6; words of 16 | 7,738 | search is exact, never wraps, leaves the hint right, ends |
| `vspace` | 3 zones, 48 pages, image in the middle; six approximate and three exact sizes, one large enough to wrap | 149,990 | order, size contract, exhaustion only without a gap, AddressSpace implemented |
| `parts` | six components in turns, see below | 671,111 | one invariant of each: what it keeps tables of is what its callers have |
| `rpc` | 2 clients with 2 slots, 2 objects, 4 slots in the sandbox | 209,562 | ObjectService implemented; capabilities and cookies stay together; the servers' slots are empty when they wait; every call returns |
| `elf_exec` | files of 5 units, up to 2 segments, every header shape; pages of 2 units, tables of 2 pages | 460,245 | a failure at any step gives back what was taken and raises no second error; what runs is exactly the image, unless a segment's size wraps; a launch ends |
| `lua_gc` | ten heaps of three objects, 2 with finalizers, 3 operations of the program between any steps | 1,302,522 | as long as sweeps make all white: nothing visible is freed; no black object refers to a white one; the collector's assertions; a full collection condemns what nothing keeps. Finalizers once |
| `lua_code` | 2,392 programs | 86,179 | each program does what its text means; no assertion of the compiler fails; frames and upvalues keep apart |
| `lua_do` | main and two coroutines, 5 levels of C calls | 329,696 | Coroutines implemented; `coroutine.status` is true; no yield across a C function that has no continuation |
| `lua_lib` | 19 texts and all patterns of up to 4 items, dumped functions, formats of up to 3 options, arrays of up to 6; a table of 3 integer keys and 2 objects of colliding hashes | 452,081 | patterns, chunks, table functions, pack, sort and tables do what they should (below) |
| `untyped_count` | the untyped pool of `parts` | violation | see finding 1 |
| `gc_sweep` | the heaps of `lua_gc` | violation | see finding 2 |

The properties of `lua_lib`: `PatternsMatch` (find, match, gmatch and gsub against LuaPattern),
`ChunksLoadBack` (a dumped function loads as it was through every division of the stream
into blocks; a cut chunk and one with another header are refused; nothing else of a chunk is checked by the code, see section 5), `ElementsMove`, `PackedComesBack`, `SortSorts` (any answers of the
order function leave a permutation, those of an order leave it sorted), `SortEnds`;
of the table, `TableSound` (chains are sound, the length is a border), `HoldsLastWritten`, and `TraversalExact`.

### Why the bounds are enough

Each instance is the smallest in which the cases that differ occur together.
* `cslot`: more than one range (the walk), a range that ends early (the limit), runs of every length and
  one too long. `range_scan` covers the arithmetic inside a range; the proofs cover all sizes.
* `vspace`: three zones give every pattern of neighbours freed in every order;
  the sizes include one that fits a gap whole, one that splits, one not a multiple of a page,
  one for which no gap is left, and 256 of 512, for which twice the size wraps.
* `parts`. Untyped: size classes below 4 KiB, 4 KiB, between, 4 MiB, above; a refill with four turns,
  slots that run out or a kernel that refuses in the middle of one, and two nested calls per `mem_fx_alloc`, the most one
  mapping makes. SmallTable: up to three disjoint tables and a bitmap of two words, so that
  the search index matters. MemPage: a table whose user is still being mapped while a nested call maps
  another page of it, of another table, and of the loader's. FxPool: two page pools after the fixed one,
  requests of the least size, a middle one and half a page; at most one block that may be freed and one
  cached, other blocks are kept for good, which is how the pools fill up. FxLarge: five pages are odd, so that two-page
  blocks leave a hole; four zones, because `total_avail` makes the code take zones early. HashMap: three names at two
  places each, two of them in one chain, and an empty chain.
* `rpc`: two clients contend for the sandbox, and one of them may be the registrar; two objects let one be kept,
  freed or passed on while the other is made. A client may run out of slots, and the sandbox of its spare ones.
* `elf_exec`: two segments that share a page, leave one out, overlap or reach the IPC page; segments whose file part is
  empty, shorter than memory, or ends in a page; no memory; addresses that are the kernel's; sizes and offsets that wrap; two page tables, so that one may be made and the next refused.
* `lua_gc`: an operation between any two steps, sweeps and finalizers one object at a time; three operations are the
  writes that a missing barrier needs (take a reference, hide it, drop the other). What longer histories would make is among the
  heaps a behaviour starts from: a dead coroutine whose open variable was touched, two objects already marked for finalization. `SweepMax` is one, so that
  everything may happen between the sweep of any two objects.
* `lua_lib`, tables: an array part of up to three, a hash part of up to eight nodes, keys that collide with each other and with keys out of place.
* `lua_code`: families in which every choice of the interacting parts is taken: conditions in every context, closures in
  loops left in every way, assignments, calls with open results, constructors over the flush limit, gotos, protected calls. Limits of
  the instruction format (`MaxIndexRK`, `MaxArgC`, `MaxArgBx`) are set to 1 and 2, so that programs of a line exceed them.
  A program ends within `MaxSteps` instructions; one that does not would violate `CodeMeansProgram`.
* `lua_do`: a pcall under a yield under a resume under a pcall fits in five C calls; two coroutines resume each other and themselves.
* `lua_lib`, the rest: integers of 4 bits and bytes of 2, so that the ends of all types are asked for; `RANLIMIT` is 4, so that the
  random pivot is used; more captures and more depth than the limits allow.

### Fairness

* RangeScan (`WF_scanVars(ScanNext)`), LuaLib (`WF_vars(Sorts)`, for any order function) and ElfExec (`WF_vars` of every step of a launch; what the program
  does once it runs is not promised): straight C code of one thread, which goes on.
* Rpc: weak fairness of each server's steps and each client's return. They are processes that the
  kernel schedules; a message waits in a queue at the endpoint until its server receives. A client need never call.
* The other modules promise nothing that must eventually happen. `FullCollects` and `StatusTruth` are safety properties.

### Deadlock

It is checked where something can always happen: `lua_code` (a program that has ended stays so) and `lua_do`.
It is off where the system does stop: an assertion or NULL (`cslot`, `vspace`, `parts`), an answer that was given
(`range_scan`, `lua_lib`), a launch that is over (`elf_exec`), clients that stopped (`rpc`), a heap whose operations are used up (`lua_gc`). In `rpc`
the deadlock that matters, of servers that wait for each other, is excluded by `CallsReturn`.

## 4. Proofs

Checked by TLAPS for every value of the constants that meets the named assumptions.

* **CSlotProofs** – `TypeCorrect`, `HintCorrect`, `OwnershipCorrect`, `FreeSlotsEmptyCorrect`,
  `ExhaustionCorrect`, `PoolImplemented`. The properties are not inductive alone:
  that the bitmap is ownership after a free needs ranges to be disjoint (else a slot
  would have two bits), and that exhaustion is real needs each slot to be covered by a range
  and the hint to be a lower bound. The invariant `IInv` therefore adds `RangesDisjoint`,
  `SlotsCovered` and what set-up has done so far to the checked properties. `PoolImplemented`
  maps each call to `Grant`, `Refuse`, a give-back or a stutter. Assumptions:
  `BITMAP_ELEMENTS >= 2` and the assertions of `cslot_insert_long_range`.
  Of RangeScan it proves `NoWrap` (type correctness, hence the unsigned remainder never wraps)
  and `SearchCorrect`. `ScanInv` says that everything before the cursor was rejected
  for good: every run that starts there is interrupted by a used slot. `HintLeft` follows the hint
  through a search that fails and one that succeeds. Assumption: a word larger than the range.
* **VSpaceProofs** – `OrderCorrect`, `ImageCorrect`, `SliceAssertionsCorrect`, `SpaceImplemented`,
  `TypeCorrect`, `AnswersCorrect`. `IInv` adds to the order that the image's node is there and that `root`
  is first and has size zero. The argument goes through one lemma: every call changes the list by one
  insertion between a node's middle and its successor's begin, or one removal, or not at all.
  `AnswersCorrect` looks at one call: `CarveAnswers` takes the three ways out of the scan and compares what each
  gives, or the gaps when it gives nothing, with the rounded bounds of the request (`RoundDownBounds`).
  Assumptions: sizes are positive, the image lies in the allocatable range.
* **UntypedProofs** – `UntypedMemoryOnce`, `UntypedNothingLost`, `UntypedChunksEmpty`: the invariants of Untyped that
  `UntypedOwned` joins in `parts`, for any number and sizes of regions. That a chunk is free or in use but not both
  says nothing of a refill half way through, when the rest of a 4 MiB chunk is in no list. `IInv` says it unit by unit:
  no two 4 MiB chunks share one, and none is both behind a chunk and left to the loop (`Owners`); the loop's region is new
  at boot (`Used`) and has a whole number of 4 MiB chunks left (`Whole` in `Placed`); every unit of a region has an owner
  while no loop has failed (`Accounted`). The actions come down to six moves of memory between owners (`UseChunk`,
  `FreeChunk`, `CutSmall`, `CutLarge`, `TakeLarge`, `StartJob`), each proved about sets. Assumption: `SizesAssumption`,
  that sizes are numbers and a region of 4 MiB or more is a multiple of 4 MiB. TLAPS cannot prove that of powers of two
  without induction; TLC evaluates it. A second invariant, `Bounded`, has the rest of the types (`OwnedFollows`).
* **ResourcePartsProofs** – the six invariants of `parts`, each from an inductive invariant of its part:
  - `UntypedCorrect`: UntypedProofs instantiated over the shared variables.
  - `SmallTablesCorrect`. That both counters agree with the bitmaps follows only when no two tables share a slot, and that a token's
    slot has its bit clear only when each slot in use lies in exactly one table: `RingRight` says so, and that no bit
    lies before where the search begins. The list is turned by each allocation, which changes none of it (`Turned`).
    `total_free` is the number of free slots of all tables (`TotalRight`), so that a step is one slot more or less
    and no sum over the list is needed.
  - `LargeBlocksCorrect`. `ZonesRight` says that a zone's used pages are those of its blocks and `avail_count` the number of the
    others; `Stocked`, that a total above zero has a zone with a free page behind it, is what the allocation's assertions need: the
    total itself may be too small (section 5).
  - `PageTablesCorrect`. What the kernel has mapped and what was allocated are functions of the tables, the cookies and the
    calls on the stack (`KernelOf`, `ObjectsOf`); `Booked` says that a table's count is that of the valid pages in it which are this process's to count, and that it is there when the
    count is not zero; `Stacked` that suspended calls are for different pages, none of them mapped. Each suspended call is
    returned to in whatever state the nested ones left, which is why what was allocated is tied to the whole stack.
  - `FxBlocksCorrect`. `Placed` orders the blocks of a pool and puts them before its pointer; a new block begins where the pointer was,
    so it is apart from all others (`BlockAdded`), and the cache only moves blocks (`CachePopped`, `CachePushed`). That the assertion-free
    path is taken after an expansion needs the history of the pool: `FxControl` says which step of a call still finds
    its pool `Fresh`, and with it `FreshHasRoom`. `PageMore` is the arithmetic of `ExhaustedMeansFull`: before the end of a
    pool there is a whole page.
  - `MapCorrect`. A chain holds a key once and only keys of its hash (`MapRight`); an iteration has visited the keys of all smaller
    hashes (`Iteration`), which makes it exact when it ends.

  Assumptions, all evaluated by TLC: bitmaps are whole words (`TableAssumption`); a zone has as many pages as the largest
  request (`CountsAssumption`); pages lie in tables (`PagesAssumption`); chunks, units, a page's record and a pool's fit their page and the
  two tokens of a client's first page fit the fixed pool (`SizesAssumption` of FxPool, from `mem_fxalloc.c:40` and the structures'
  sizes); names and values are not NULL and hashes are numbers of buckets (`KeysAssumption`).
* **RpcProofs** – `RpcAssertionsHold`, `RpcCapabilitiesInPlace`, `CallsImplementService`, all from `CallsSound`. A
  capability is where its cookie says only when no call is under way, so `IInv` follows a call along its way: at each place it
  can be it says which slots are empty (`SlotsSound`), what the client, the sandbox and the root server have decided
  (`ClientsSound`, `SandboxSound`, `RootSound`), and who has the registrar's capability (`RegistrarSound`); a client
  waits at most once, in the queue or in service (`Queues`); and an object that exists is at exactly one of these places
  (`Ownership`), from which the refinement reads its owner. Assumptions: the processes have different names,
  `Nobody` is none of them and no object, and numbers of slots are numbers.
* **ElfExecProofs** – `FailureCorrect` and `ImageCorrect`, from `LaunchSound`, for entries that say anything 32-bit fields hold.
  `ImageCorrect` says that a program that starts has all of every segment in place except what follows the stored part of a segment whose size,
  with its correction, does not fit the word (`Whole`; finding 3); `FailureCorrect` allows one error that is not reported by a result, the
  assertions on a segment that is malformed or goes on among the kernel's addresses. `Accounts` names what is held at each step
  (`BlocksHeld`, `ObjectsHeld`, `OthersHeld`, `PagesHeld`, `ThreadHeld`) and that no error is pending except on
  the way out, which makes a launch that ends hold nothing. For the image, `Pictures` says of every address that its unit is
  zero and no segment has copied there, or what some segment that has put there (`Contents`), and that every address of a
  segment done with is mapped with that segment's rights. It is indexed by addresses while the loader works page by page and the
  copy stops at the end of each page: `CopyTurn` and `BssTurn` are proved once for a page, whichever of the two table paths it took.
  `TableFits` is arithmetic with wrapping: the comparisons of `elfparser_init` leave no table that reaches past the file.
  Assumptions: the file lies below the end of the word and the product of two 16-bit fields is below it
  (`FileAssumption`); the fields of an entry are numbers below the word (`SegmentsAssumption`), which is all that is assumed of segments.
* **LuaSortProofs** – `SortCorrect`: `table.sort` on arrays of any length, of any integers, with any random pivots. An order
  leaves the array sorted; whatever the order function answers, it leaves the same values and no index goes out of
  its interval. Sortedness at the end says nothing about the middle, so `IInv` says of any two elements that they are in
  order unless a loop, at work or on the stack, has both in its interval (`InOrder`); that no two loops share an
  element, so that what one moves stays right for the others (`Apart`); where the indices are, which is what
  the checks of `partition` are for (`Bounded`); and that each value occurs as often as before (`Holds`, by a bijection for an
  exchange). The step that needs it all is `DivideKeeps`, where one interval becomes two. Assumption: `RANLIMIT >= 4`, below
  which `choosePivot` would take a remainder by zero.

* **LuaDoProofs** – `Yields` and `Status`, from `Inductive`: any coroutines, programs, bounds. `nny` is one number per
  thread, saved in frames and restored from them when the C stack is cut, and the status of a coroutine is read off what the cut left in its
  thread. So `IInv` describes the C stack itself: which frame may stand on which (`Adjacent`, `Top`); that the frames
  of a thread lie together above the `lua_resume` that resumed it (`Owners`), for call infos that are
  still there, in their order (`Levels`); that `nny`, and what each `luaD_pcall` saved of it, counts the calls below
  that no yield crosses (`Counts`); that a call info without a continuation has its C frame (`Stuck`), which is why cutting at a
  `luaD_pcall` or at a `lua_resume` never leaves one behind; what one `luaV_execute` runs (`Executed`); and how a thread
  outside the chain was left (`Statuses`). The steps come down to a few changes of the machine, each proved about any machine:
  a call info set or added, a frame pushed or popped, a cut with a restored `nny`, a thread entered or left. Assumptions:
  `ThreadsAssumption` (the main thread is no coroutine, and what `coroutine.wrap` made is one) and `ProtectedAssumption` (what is
  called protected is a function and its arguments).

So every safety invariant of the runs of the resource layer and of the processes is proved, and of the runs of Lua `SortSorts`,
`YieldsAreSafe` and `StatusTruth`. Only model-checked are the other invariants of Lua, `ImplementsCoroutines` and liveness (`SearchEnds`, `CallsReturn`, `LaunchEnds`, `SortEnds`): TLAPS
proves no liveness under fairness and nothing about ENABLED. It cannot instantiate induction
theorems over data either, so that folds over a sequence and the recursive
operators of the compiler, the matcher and the collector are out of its reach; where a count could be said as the size of a set
instead (`CountersAgree`, `ObjectsAccounted`, `Sum` of HashMap), it is.

## 5. What the code does otherwise than it says

Two findings have runs:

1. **`avail_4ks_count` is not the length of `avail_4ks`** (`untyped.c:27`, `:99`, `:140`; run `untyped_count`). It is
   incremented by additions and never decremented, so that an empty list trips an assertion
   where NULL was meant.
2. **A finalizer's object may leave the list under the sweep** (`SweepWhitens` of LuaGC; `lgc.c:791`; run `gc_sweep`). `udata2finalize` moves
   the head of `tobefnz` to `allgc` while `sweepgc` may stand at its link; the sweep then goes on in the other list, objects behind keep
   the old colour, and not all are white when the sweep ends, as `lgc.h:57` says they are. `luaC_checkfinalizer` moves the sweep on in the same
   situation. The next cycle does not traverse an object left black. Without the condition `Swept` of the properties of `lua_gc`, TLC
   finds a heap of two objects with finalizers in which an emergency collection, in the finalizer of the second, condemns what only that object
   refers to (`NothingVisibleFreed`); a black object that refers to a white one (`Tricolour`); and garbage that a full collection
   leaves (`FullCollects`). The steps are those of the code but for `SweepMax`, which is one here: in the program the place of the sweep has to be
   reached in the middle of a list longer than `GCSWEEPMAX`.

Five more are stated as properties in their modules; each fails when it is added to the configuration of
its run:

3. **A segment's size may wrap** (`EnoughPages` of ElfExec; `elfparser.c:112`). The pages after the stored part are mapped up
   to `memory_size + alignment_correction`, a sum of 32 bits. When it wraps the loop ends at once and the program
   starts without those pages, whereas the comment above the loop wants enough of them. Nothing checks the size. Sizes that do not wrap but go on
   among the kernel's addresses fail an assertion instead; a segment without memory at an address inside a page maps that page.
4. **The last free region cannot be used** (`FinalZoneUsable` of VSpace; `mem_vspace.c:45`, `:59`). The scan offers the
   region after the last node, whose end is `VSPACE_END_PTR` as the comment at line 14
   says, but both slicing functions first read `from->next->prev`.
5. **`total_avail -= total_avail`** (`ExpandsOnlyWhenFull` of FxLarge; `mem_fxlarge.c:131`). Every allocation
   resets the total, and the next one takes a new zone though the first has room. No assertion fails because of it.
6. **A client's `mem_fx_alloc` re-enters itself** (`NotReentered` of FxPool; `objectcli.c:14`, `mem_fx.c:39`) as soon as the
   fixed pool is used up.
7. **A refused resume leaves its count** (`CcallsBalanced` of LuaDo; `ldo.c:654`, `:673`). `lua_resume` sets `nCcalls` of
   a coroutine from the caller's before `resume` finds that it is not suspended, and decrements it afterwards: a coroutine
   that is running counts from another depth, up to a spurious "C stack overflow".

Observations the models reproduce and no property states:

* A refill that fails half way leaves `refill_running` TRUE (`untyped.c:122-134`), and no refill
  ever runs again. `UntypedOwned` has to except the chunk that was being split. When it fails after it took a
  slot for a piece, that slot is not given back.
* A next pool that cannot be made leaves `ready` NULL (`mem_fxseq.c:20-30`), and no later call
  makes one.
* `acquire_another_page` hands `mem_page_map` a cookie that was never written
  (`mem_fxalloc.c:42`); what the stack held decides whether the assertion at
  `mem_page.c:120` fails. `PageMap` takes it as a choice.
* A size of exactly half a page has an index one past the cache's lists
  (`mem_fxcache.c:7` compares the index with the maximum size). The action `mem_fx_alloc`
  stops in `out_of_bounds`.
* `mem_page_map` fails although memory was to be had when a nested call maps the same page table
  first (`mem_page.c:19`); `TableFails` includes it, and nothing is leaked.
* The registrar's map: an iteration over a chain of two keys never ends (`hashmap_iter_next` resumes at the chain's head);
  `entry_count` stays 0; `hashmap_new` asks for the size of a bucket and `hashmap_free` returns that of a map. Nothing iterates.
* A compiled Lua program goes wrong in three shapes, which MCLuaVM leaves out: a `for` list of four or
  more expressions leaves the first free register too high (`lparser.c:437-447`); `if c then goto L ::L::` puts the label before the
  jump that skips the block (`lparser.c:1384-1416`); a numeral beyond the constants an operand can name, on the left of
  a foldable operator, is loaded after the right operand (`lcode.c`, `codebinexpval`).
* The value of an open upvalue of a dead thread outlives the first full collection after it was touched (`remarkupvals`, `lgc.c:312`);
  `FullCollects` counts it among what is kept (`Remarked`).
* `gmatch` keeps its `MatchState` between calls of the iterator. An error leaves `matchdepth` as it was in the middle of the match, and when the
  iterator is called once more the assertion at `lstrlib.c:603` fails. After a normal end it holds, which `PatternsMatch` asks.
* `lundump.c` checks the header of a chunk and that it does not end early; `luai_verifycode` is empty. A chunk whose body was changed, or with bytes
  behind it, may load; more names than upvalues are written outside the array (`lundump.c:196-198`); an unknown type of constant fails an assertion.
* `string.unpack("z", s)` accepts data without a terminator, and its next position is then beyond the data;
  `table.remove` of a table whose length is the largest integer can only remove the last element; a back reference
  to a position capture never matches.

## 6. Not modelled, and why

* `untyped_free_4m`, `mem_fxalloc_destroy`, `mem_arena`: no callers.
* Printing, serial I/O, and the formatting of `libbedrock/buffer.c`: no property is about them. Of messages, the label,
  the cookie and the capabilities are modelled; their lengths, which both ends take from one structure, are not. A client that
  has no free slot fails before any message, and `object_alloc` of Rpc is not enabled.
* `apps/registrar/src/main.c`: does not compile at this commit. Only its first call, that registers it, is in Rpc.
* Whether the kernel frees or refuses is a choice in every model; the kernel's own data structures are
  reduced to which slot is full and which page is mapped.
* The maths functions of `libbedrock`: taken from musl.
* Lua: the lexer, the string table and `lapi.c` (whose functions are the operations of the other modules); floats, metamethods, debug information,
  hooks, and in LuaDo tail calls; when the collector is due (the debt), `lua_close`, and a finalizer that calls
  `collectgarbage` (an emergency collection while it runs is modelled; one in the middle of another operation is not); the limits of the C stack and of the value stack; handlers of `xpcall` run in one step;
  `string.format`, `math`, `utf8`, `os` and `io`. Formats of pack are lists of options, patterns are lists
  of character codes.

## 7. What is left

1. **Proofs for Lua.** LuaTable's chains (`TableSound`, `HoldsLastWritten`) are the next: a chain as the set of its nodes, without
   the recursive walk. LuaDo's refinement of Coroutines: `AbstractFrames` of every thread through the changes of the machine
   that LuaDoProofs describes, whose values, unlike the counts, have to be followed too.
2. **LuaGC**: the tricolour invariant for any heap, with reachability as a predicate that is closed under references.
3. **The registrar**, once it compiles: names, its sorted list, and clients that enumerate while others register.
4. **Metamethods and floats** in LuaVM and LuaMeaning, and tail calls in LuaDo.
