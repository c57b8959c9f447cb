-------------------------------- MODULE MemPage --------------------------------
(***************************************************************************)
(* libs/libresource/src/mem_page.c: pages of the address space, and the    *)
(* page tables they need, one for PAGE_COUNT_PER_TABLE pages, counted by   *)
(* their users and given back with the last of them.                       *)
(*                                                                         *)
(* object_alloc is called half way through, for the frame and for the page *)
(* table.  In the root server it may refill the pool of untyped memory,    *)
(* and then the page allocator is called again to map pages for mem_fx,    *)
(* perhaps in the table that the outer call is about to map.  So a call is *)
(* a frame on a stack, and stops at each object_alloc.                     *)
(***************************************************************************)
EXTENDS Integers, SequencesExt

CONSTANTS PAGE_TABLE_COUNT, PAGE_COUNT_PER_TABLE,
          OutsideTables,   \* mapped by whoever loaded the program
          Pages,           \* pages of zones that are used,
          FxPages          \* and those among them of mem_fx, never freed

PagesAssumption ==
  /\ PAGE_TABLE_COUNT \in Nat /\ PAGE_COUNT_PER_TABLE \in Nat \ {0}
  /\ OutsideTables \subseteq 0 .. PAGE_TABLE_COUNT - 1
  /\ Pages \subseteq 0 .. PAGE_TABLE_COUNT * PAGE_COUNT_PER_TABLE - 1
  /\ FxPages \subseteq Pages

Tables == 0 .. PAGE_TABLE_COUNT - 1

(* address_to_table_index *)
TableOf(page) == page \div PAGE_COUNT_PER_TABLE

VARIABLES tables,    \* mem_page_tables[tid] # NULL
          counts,    \* mem_page_counts
          cookies,   \* page -> its cookie
          calls,     \* calls in progress, the innermost first
          kernel,    \* the kernel's side: page tables and pages mapped
          objects,   \* objects in use
          phase      \* "up", or "assertion"

vars == <<tables, counts, cookies, calls, kernel, objects, phase>>

Invalid == [ref |-> FALSE, mapped |-> FALSE, unref |-> FALSE]

mem_page_valid(page) == cookies[page].ref \/ cookies[page].mapped

Init ==
  /\ tables = [t \in Tables |-> FALSE]
  /\ counts = [t \in Tables |-> 0]
  /\ cookies = [p \in Pages |-> Invalid]
  /\ calls = << >>
  /\ kernel = [tables |-> OutsideTables, pages |-> {}]
  /\ objects = 0
  /\ phase = "up"

Call == Head(calls)

Fresh(page) == ~mem_page_valid(page) /\ \A k \in 1 .. Len(calls) : calls[k].page # page

Unchanged == UNCHANGED <<tables, counts, cookies, kernel, objects, phase>>

Assertion == phase' = "assertion" /\ UNCHANGED <<tables, counts, cookies, calls, kernel, objects>>

(* The frame that a call has of its own, and gives back when it fails. *)
Frames(call) == IF call.shared THEN 0 ELSE 1

-------------------------------------------------------------------------------
(* mem_page_map and mem_page_shared_map, from a caller, or for mem_fx      *)
(* while another call waits for object_alloc.  mem_fx's own calls do not   *)
(* lead back here: mem_fx_is_allocating stops refills.                     *)
mem_page_map(page) ==
  /\ phase = "up"
  /\ Fresh(page)
  /\ \/ calls = << >>
     \/ /\ Len(calls) = 1 /\ Call.page \notin FxPages
        /\ page \in FxPages
  /\ calls' = <<[page |-> page, shared |-> FALSE, at |-> "frame"]>> \o calls
  /\ Unchanged

(* The kernel finds a table for the page: ref_table. *)
Counted(t) == counts[t] + 1

MapInTable(call, rest) ==
  LET t == TableOf(call.page)
  IN IF tables[t] /\ counts[t] > PAGE_COUNT_PER_TABLE
       THEN Assertion
       ELSE /\ counts' = IF tables[t] THEN [counts EXCEPT ![t] = Counted(t)] ELSE counts
            /\ kernel' = [kernel EXCEPT !.pages = @ \cup {call.page}]
            /\ cookies' = [cookies EXCEPT ![call.page] =
                 [ref |-> ~call.shared, mapped |-> call.shared, unref |-> tables[t]]]
            /\ objects' = objects + Frames(call)
            /\ calls' = rest
            /\ UNCHANGED <<tables, phase>>

(* The first Page_Map: the kernel may refuse; without a table there is one *)
(* to be made, for which map_table calls object_alloc.                     *)
FirstMap(call, rest) ==
  LET t == TableOf(call.page)
  IN \/ calls' = rest /\ Unchanged
     \/ t \in kernel.tables /\ MapInTable(call, rest)
     \/ /\ t \notin kernel.tables
        /\ IF tables[t] \/ counts[t] # 0
             THEN Assertion
             ELSE /\ calls' = <<[call EXCEPT !.at = "table"]>> \o rest
                  /\ objects' = objects + Frames(call)
                  /\ UNCHANGED <<tables, counts, cookies, kernel, phase>>

mem_page_shared_map(page) ==
  /\ phase = "up"
  /\ calls = << >>
  /\ Fresh(page) /\ page \notin FxPages
  /\ FirstMap([page |-> page, shared |-> TRUE, at |-> "frame"], << >>)

(* object_alloc of the frame fails, or returns it. *)
FrameFails ==
  /\ phase = "up"
  /\ calls # << >> /\ Call.at = "frame"
  /\ calls' = Tail(calls)
  /\ Unchanged

FrameReturned ==
  /\ phase = "up"
  /\ calls # << >> /\ Call.at = "frame"
  /\ FirstMap(Call, Tail(calls))

-------------------------------------------------------------------------------
(* The rest of map_table, and the second Page_Map. *)

KeptFrame(call) == 0

(* No object for the table, or the kernel does not take it: it never takes *)
(* a second one where an inner call has put a table meanwhile.             *)
TableFails ==
  /\ phase = "up"
  /\ calls # << >> /\ Call.at = "table"
  /\ objects' = objects - Frames(Call) + KeptFrame(Call)
  /\ calls' = Tail(calls)
  /\ UNCHANGED <<tables, counts, cookies, kernel, phase>>

FirstCount == 1

EntryAfter == FALSE

(* The table is mapped, and the page in it.  If the kernel refuses the     *)
(* page, unref_table gives the table back.                                 *)
TableReturned ==
  /\ phase = "up"
  /\ calls # << >> /\ Call.at = "table"
  /\ LET t == TableOf(Call.page)
     IN /\ t \notin kernel.tables
        /\ \/ /\ tables' = [tables EXCEPT ![t] = TRUE]
              /\ counts' = [counts EXCEPT ![t] = FirstCount]
              /\ kernel' = [tables |-> kernel.tables \cup {t},
                            pages |-> kernel.pages \cup {Call.page}]
              /\ cookies' = [cookies EXCEPT ![Call.page] =
                   [ref |-> ~Call.shared, mapped |-> Call.shared, unref |-> TRUE]]
              /\ objects' = objects + 1
           \/ /\ objects' = objects - Frames(Call)
              /\ tables' = [tables EXCEPT ![t] = EntryAfter]
              /\ UNCHANGED <<counts, kernel, cookies>>
  /\ calls' = Tail(calls)
  /\ UNCHANGED phase

Uncounted(t) == counts[t] - 1

LastUser_OneLeft(t) == counts[t] <= 2

LastUser(t) == counts[t] = 1

(* mem_page_free: the frame goes first, then perhaps the table, and with a *)
(* table everything that is mapped in it.                                  *)
mem_page_free(page) ==
  LET t == TableOf(page)
      cookie == cookies[page]
  IN /\ phase = "up"
     /\ calls = << >>
     /\ mem_page_valid(page)
     /\ IF cookie.unref /\ (~tables[t] \/ counts[t] = 0)
          THEN Assertion
        ELSE IF cookie.unref /\ LastUser(t)
          THEN /\ counts' = [counts EXCEPT ![t] = Uncounted(t)]
               /\ tables' = [tables EXCEPT ![t] = EntryAfter]
               /\ kernel' = [tables |-> kernel.tables \ {t},
                             pages |-> {p \in kernel.pages : TableOf(p) # t}]
               /\ objects' = objects - 1 - (IF cookie.ref THEN 1 ELSE 0)
               /\ cookies' = [cookies EXCEPT ![page] = Invalid]
               /\ UNCHANGED <<calls, phase>>
          ELSE /\ counts' = IF cookie.unref THEN [counts EXCEPT ![t] = Uncounted(t)] ELSE counts
               /\ kernel' = [kernel EXCEPT !.pages = @ \ {page}]
               /\ objects' = objects - (IF cookie.ref THEN 1 ELSE 0)
               /\ cookies' = [cookies EXCEPT ![page] = Invalid]
               /\ UNCHANGED <<tables, calls, phase>>

Next ==
  \/ \E page \in Pages : mem_page_map(page) \/ mem_page_shared_map(page)
  \/ FrameFails \/ FrameReturned
  \/ TableFails \/ TableReturned
  \/ \E page \in Pages \ FxPages : mem_page_free(page)

Spec == Init /\ [][Next]_vars

-------------------------------------------------------------------------------
(* Cookies, counters and calls have their types. *)
TypeOK ==
  /\ tables \in [Tables -> BOOLEAN]
  /\ counts \in [Tables -> 0 .. PAGE_COUNT_PER_TABLE]
  /\ cookies \in [Pages -> [ref : BOOLEAN, mapped : BOOLEAN, unref : BOOLEAN]]
  /\ calls \in Seq([page : Pages, shared : BOOLEAN, at : {"frame", "table"}])
  /\ kernel \in [tables : SUBSET Tables, pages : SUBSET Pages]
  /\ objects \in Nat
  /\ phase \in {"up", "assertion"}

(* After any nesting of calls and any failure a table's count is the       *)
(* number of pages that will give it up, and mem_page_tables has exactly   *)
(* the tables that this process mapped, each with a user: none is          *)
(* forgotten, none is kept for nobody.                                     *)
Users(t) == {p \in Pages : TableOf(p) = t /\ cookies[p].unref}

TablesFollowUsers ==
  /\ \A t \in Tables : counts[t] = Cardinality(Users(t))
  /\ \A t \in Tables : tables[t] <=> t \notin OutsideTables /\ counts[t] > 0
  /\ kernel.tables = OutsideTables \cup {t \in Tables : tables[t]}

(* A page with a valid cookie is mapped and others are not: in particular  *)
(* no table goes while a page in it is in use.                             *)
ValidMeansMapped ==
  kernel.pages = {p \in Pages : mem_page_valid(p)}

(* No frame or page table is lost: every object in use belongs to a page,  *)
(* to a table or to a call in progress, whichever step of it fails.        *)
ObjectsAccounted ==
  objects = Cardinality({p \in Pages : cookies[p].ref})
            + Cardinality({t \in Tables : tables[t]})
            + Cardinality({k \in 1 .. Len(calls) : calls[k].at = "table" /\ ~calls[k].shared})

(* No assertion of mem_page.c fails ("otherwise, someone unmapped us       *)
(* without permission", line 16), though calls are nested.                 *)
AssertionsHold == phase # "assertion"
===============================================================================
