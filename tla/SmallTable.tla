------------------------------ MODULE SmallTable ------------------------------
(***************************************************************************)
(* apps/init/src/small.c, and the half of objectsrv.c that uses it: the    *)
(* root server's allocator of 16-byte kernel objects (endpoints and        *)
(* notifications).  A table cuts one 4 KiB chunk of untyped memory into    *)
(* objects and owns a slab of as many capability slots, one for each.      *)
(*                                                                         *)
(* The circular list of tables is a sequence that begins at cached_free:   *)
(* moving cached_free rotates it.  The memory that new tables need comes   *)
(* from allocators that may enter the page allocator but never this one,   *)
(* so a call is one action.                                                *)
(***************************************************************************)
EXTENDS Integers, SequencesExt

CONSTANTS SMALL_TABLE_SIZE,   \* objects in a table (256)
          WordBits,           \* bits of a word of the bitmap (64)
          Bases,              \* where cslot_alloc_slab may find a slab
          NULL

TableAssumption ==
  /\ WordBits \in Nat \ {0}
  /\ SMALL_TABLE_SIZE \in Nat \ {0}
  /\ SMALL_TABLE_SIZE % WordBits = 0
  /\ Bases \subseteq Nat \ {0}

BitmapLen == SMALL_TABLE_SIZE \div WordBits
Offsets == 0 .. SMALL_TABLE_SIZE - 1

VARIABLES ring,         \* tables, from cached_free on
          total_free,
          held,         \* slots of the objects callers have tokens of
          cnode,        \* slots with an object's capability in them
          phase,        \* "up", or "assertion"
          ret           \* the slot the last allocation returned, or NULL

vars == <<ring, total_free, held, cnode, phase, ret>>

Init ==
  /\ ring = << >>
  /\ total_free = 0
  /\ held = {} /\ cnode = {}
  /\ phase = "up"
  /\ ret = NULL

SlotsOf(table) == {table.chunk_base + o : o \in Offsets}

(* The list with its k-th table as cached_free. *)
From(tables, k) == SubSeq(tables, k, Len(tables)) \o SubSeq(tables, 1, k - 1)

Assertion == phase' = "assertion" /\ UNCHANGED <<ring, total_free, held, cnode, ret>>

Unchanged == UNCHANGED <<ring, total_free, held, cnode, phase>>

-------------------------------------------------------------------------------
(* alloc_small_table's table, if there is a slab for it. *)
NewTable(base) ==
  [chunk_base |-> base, free |-> SMALL_TABLE_SIZE, bitmap_free_index |-> 0,
   bits |-> Offsets]

SlabIsFree(base) ==
  \A table \in ToSet(ring) :
    (base .. base + SMALL_TABLE_SIZE - 1) \cap
      (table.chunk_base .. table.chunk_base + SMALL_TABLE_SIZE - 1) = {}

Word(table, i) == {o \in table.bits : o \div WordBits = i}

(* The first word from bitmap_free_index on with a bit set. *)
FirstWordIs(table, i) ==
  /\ i \in table.bitmap_free_index .. BitmapLen - 1
  /\ Word(table, i) # {}
  /\ \A j \in table.bitmap_free_index .. i - 1 : Word(table, j) = {}

FirstOffset(table, i) == CHOOSE o \in Word(table, i) : \A p \in Word(table, i) : o <= p

TotalTaken(total) == total - 1

FreeTaken(table) == table.free - 1

Refused_BitGone(table, i) ==
  [table EXCEPT !.bitmap_free_index = i, !.bits = @ \ {FirstOffset(table, i)}]

Refused(table, i) == [table EXCEPT !.bitmap_free_index = i]

(* The rest of small_table_alloc, with a table that should have room at    *)
(* the head of the list.  If the kernel refuses to make the object only    *)
(* the skipped words are remembered.                                       *)
AllocFrom(tables, total) ==
  LET table == Head(tables)
  IN IF table.free = 0 \/ ~\E i \in 0 .. BitmapLen - 1 : FirstWordIs(table, i)
       THEN Assertion
       ELSE \E i \in 0 .. BitmapLen - 1 :
         /\ FirstWordIs(table, i)
         /\ LET offset == FirstOffset(table, i)
                ptr == table.chunk_base + offset
            IN \/ /\ ring' = <<[table EXCEPT !.bitmap_free_index = i,
                                             !.bits = @ \ {offset},
                                             !.free = FreeTaken(table)]>> \o Tail(tables)
                  /\ total_free' = TotalTaken(total)
                  /\ held' = held \cup {ptr}
                  /\ cnode' = cnode \cup {ptr}
                  /\ ret' = ptr
                  /\ UNCHANGED phase
               \/ /\ ring' = <<Refused(table, i)>> \o Tail(tables)
                  /\ total_free' = total
                  /\ ret' = NULL
                  /\ UNCHANGED <<held, cnode, phase>>

(* object_alloc of a small object.  mem_fx_alloc may have no memory for    *)
(* the token; a new table may lack an untyped, memory or a slab, and then  *)
(* what it had already is given back.                                      *)
object_alloc ==
  /\ phase = "up"
  /\ \/ ret' = NULL /\ Unchanged
     \/ /\ total_free = 0
        /\ \E base \in Bases :
             /\ SlabIsFree(base)
             /\ AllocFrom(<<NewTable(base)>> \o ring, total_free + SMALL_TABLE_SIZE)
     \/ /\ total_free # 0
        /\ IF \E k \in 1 .. Len(ring) : ring[k].free # 0
             THEN \E k \in 1 .. Len(ring) :
                    /\ ring[k].free # 0
                    /\ \A j \in 1 .. k - 1 : ring[j].free = 0
                    /\ AllocFrom(From(ring, k), total_free)
             ELSE Assertion          \* once round the list: line 70

IndexFreed(table, word) ==
  IF word < table.bitmap_free_index THEN word ELSE table.bitmap_free_index

TotalFreed(total) == total + 1

(* small_table_free: the table is looked for from cached_free on, which    *)
(* moves to it if it now has more room.                                    *)
object_free_token(ptr) ==
  /\ phase = "up"
  /\ ret' = NULL
  /\ \E k \in 1 .. Len(ring) :
       LET table == ring[k]
           offset == ptr - table.chunk_base
           freed == [table EXCEPT !.bits = @ \cup {offset}, !.free = @ + 1,
                                  !.bitmap_free_index = IndexFreed(table, offset \div WordBits)]
           tables == [ring EXCEPT ![k] = freed]
       IN /\ ptr \in SlotsOf(table)
          /\ \A j \in 1 .. k - 1 : ptr \notin SlotsOf(ring[j])
          /\ cnode' = cnode \ {ptr}
          /\ IF offset \in table.bits
               THEN /\ phase' = "assertion"
                    /\ UNCHANGED <<ring, total_free, held>>
               ELSE /\ ring' = IF tables[1].free < freed.free THEN From(tables, k) ELSE tables
                    /\ total_free' = TotalFreed(total_free)
                    /\ held' = held \ {ptr}
                    /\ UNCHANGED phase

Next ==
  \/ object_alloc
  \/ \E ptr \in held : object_free_token(ptr)

Spec == Init /\ [][Next]_vars

-------------------------------------------------------------------------------
Tables == 1 .. Len(ring)

(* Tables have their types; in particular the index stays in the bitmap. *)
TypeOK ==
  /\ ring \in Seq([chunk_base : Bases, free : 0 .. SMALL_TABLE_SIZE,
                   bitmap_free_index : 0 .. BitmapLen - 1, bits : SUBSET Offsets])
  /\ total_free \in Nat
  /\ held \subseteq Nat /\ cnode \subseteq Nat
  /\ phase \in {"up", "assertion"}
  /\ ret \in Nat \cup {NULL}

FreeSlots == UNION {{table.chunk_base + o : o \in table.bits} : table \in ToSet(ring)}

(* Both counters agree with the bitmaps: total_free with the objects that  *)
(* are free in any table, and each table's count with its bits.            *)
CountersAgree ==
  /\ total_free = Cardinality(FreeSlots)
  /\ \A k \in Tables : ring[k].free = Cardinality(ring[k].bits)

(* No free object lies in a word before bitmap_free_index, where the       *)
(* search of small_table_alloc would not see it.                           *)
IndexBelowBits ==
  \A k \in Tables : \A o \in ring[k].bits : ring[k].bitmap_free_index <= o \div WordBits

(* A table's bit is clear exactly when some caller has the object, after   *)
(* refusals by the kernel too, so none is lost or handed out twice; and    *)
(* the slots with a capability in them are those of live objects, so the   *)
(* next retype finds its slot empty.                                       *)
BitsAreOwnership ==
  /\ \A k \in Tables, o \in Offsets :
       o \in ring[k].bits <=> ring[k].chunk_base + o \notin held
  /\ cnode = held

(* No assertion of small.c fails: a search around the list or through the  *)
(* words of a bitmap ends at a free object, and freeing finds the bit of a *)
(* live object clear.                                                      *)
AssertionsHold == phase # "assertion"
===============================================================================
