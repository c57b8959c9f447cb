------------------------------ MODULE HashMap ------------------------------
(***************************************************************************)
(* The registrar's map from names to registrations                         *)
(* (src/apps/registrar/src/hashmap.c): chains of buckets, the newest       *)
(* first.  The map keeps the pointers to the names it is given: a name has *)
(* several Places, and its client may free the place that the map was told *)
(* to forget.  Memory comes from mem_fx, which may have none.              *)
(***************************************************************************)
EXTENDS Naturals, Sequences, FiniteSets

CONSTANTS Keys, Values, Places, NULL,
          HASHMAP_BUCKETS,
          Hash             \* get_hash_for: [Keys -> 0..HASHMAP_BUCKETS-1]

VARIABLES buckets,     \* NULL before hashmap_new and after hashmap_free
          entry_count,
          blocks,      \* how many blocks of mem_fx the map holds
          given,       \* what the client set last and did not remove: [value, place]
          ret,         \* what the last call answered
          cursor,      \* the last key of the client's iteration, NULL outside one
          seen         \* the keys it has got

mapvars == <<buckets, entry_count, blocks, given, ret, cursor, seen>>

Numbers == 0..(HASHMAP_BUCKETS - 1)

\* Names and values are not NULL: hashmap_get, hashmap_set and hashmap_remove
\* assert it; nor is a table of buckets, which hashmap_new allocates.
KeysAssumption ==
    /\ HASHMAP_BUCKETS \in Nat \ {0}
    /\ Hash \in [Keys -> Numbers]
    /\ NULL \notin Keys \cup Places \cup Values
    /\ NULL \notin [Numbers -> Seq([key : Keys, place : Places, value : Values])]

Chain(key) == buckets[Hash[key]]
\* The place in its chain of a key that is in the map.
Found(key) == {n \in DOMAIN Chain(key) : Chain(key)[n].key = key}
Idle == buckets # NULL /\ cursor = NULL
None == [value |-> NULL, place |-> NULL]

Init ==
    /\ buckets = NULL /\ entry_count = 0 /\ blocks = 0
    /\ given = [k \in Keys |-> None]
    /\ ret = NULL /\ cursor = NULL /\ seen = <<>>

\* One of its two allocations may fail, and the map gives back the other.
hashmap_new ==
    /\ buckets = NULL
    /\ \/ /\ buckets' = [b \in Numbers |-> <<>>]
          /\ blocks' = 2 /\ entry_count' = 0
       \/ UNCHANGED <<buckets, blocks, entry_count>>
    /\ UNCHANGED <<given, ret, cursor, seen>>

hashmap_get(key) ==
    /\ Idle
    /\ ret' = IF Found(key) = {} THEN NULL
              ELSE Chain(key)[CHOOSE n \in Found(key) : TRUE].value
    /\ UNCHANGED <<buckets, entry_count, blocks, given, cursor, seen>>

\* Fault: the bucket of a key that is set again keeps the old pointer.
Updated_KeepsKey(bucket, place, value) == [bucket EXCEPT !.value = value]

\* "ensure that we don't use keys after free"
Updated(bucket, place, value) == [bucket EXCEPT !.place = place, !.value = value]

hashmap_set(key, place, value) ==
    /\ Idle
    /\ \/ /\ Found(key) # {}
          /\ buckets' = [buckets EXCEPT ![Hash[key]] =
                            [n \in DOMAIN @ |-> IF n \in Found(key) THEN Updated(@[n], place, value)
                                                ELSE @[n]]]
          /\ ret' = Chain(key)[CHOOSE n \in Found(key) : TRUE].value       \* *last
          /\ given' = [given EXCEPT ![key] = [value |-> value, place |-> place]]
          /\ UNCHANGED blocks
       \/ /\ Found(key) = {}
          /\ buckets' = [buckets EXCEPT ![Hash[key]] =
                            <<[key |-> key, place |-> place, value |-> value]>> \o @]
          /\ ret' = NULL
          /\ given' = [given EXCEPT ![key] = [value |-> value, place |-> place]]
          /\ blocks' = blocks + 1
       \/ /\ Found(key) = {}                \* no memory
          /\ ret' = NULL
          /\ UNCHANGED <<buckets, blocks, given>>
    /\ UNCHANGED <<entry_count, cursor, seen>>

\* last->next = bucket->next, or the chain's head
Without(chain, n) == SubSeq(chain, 1, n - 1) \o SubSeq(chain, n + 1, Len(chain))

hashmap_remove(key) ==
    /\ Idle
    /\ \/ \E n \in Found(key) :
             /\ buckets' = [buckets EXCEPT ![Hash[key]] = Without(@, n)]
             /\ ret' = Chain(key)[n].value
             /\ blocks' = blocks - 1
       \/ Found(key) = {} /\ ret' = NULL /\ UNCHANGED <<buckets, blocks>>
    /\ given' = [given EXCEPT ![key] = None]
    /\ UNCHANGED <<entry_count, cursor, seen>>

Entries(f) == UNION {{b} \X DOMAIN f[b] : b \in Numbers}
Sum(f) == Cardinality(Entries(f))

hashmap_free ==
    /\ Idle
    /\ blocks' = blocks - Sum(buckets) - 2
    /\ buckets' = NULL
    /\ given' = [k \in Keys |-> None]
    /\ ret' = NULL
    /\ UNCHANGED <<entry_count, cursor, seen>>

\* The key of the first bucket from a number on, NULL when they are empty.
HeadFrom(b) ==
    LET full == {m \in b..(HASHMAP_BUCKETS - 1) : buckets[m] # <<>>}
    IN  IF full = {} THEN NULL ELSE buckets[CHOOSE m \in full : \A k \in full : m <= k][1].key

After(key) == Hash[key] + 1

Visit(key) == cursor' = key /\ seen' = IF key = NULL THEN seen ELSE Append(seen, key)

hashmap_iter_first ==
    /\ Idle
    /\ cursor' = HeadFrom(0)
    /\ seen' = IF HeadFrom(0) = NULL THEN <<>> ELSE <<HeadFrom(0)>>
    /\ UNCHANGED <<buckets, entry_count, blocks, given, ret>>

\* The code looks at the head of the last key's chain, and not at the bucket
\* of the last key.
hashmap_iter_next ==
    /\ cursor # NULL
    /\ Len(seen) <= Cardinality(Keys)      \* bound: an iteration may go on forever
    /\ Visit(IF Len(Chain(cursor)) > 1 THEN Chain(cursor)[2].key ELSE HeadFrom(After(cursor)))
    /\ UNCHANGED <<buckets, entry_count, blocks, given, ret>>

\* The client gives the iteration up.
Stop == cursor # NULL /\ cursor' = NULL /\ seen' = <<>>
        /\ UNCHANGED <<buckets, entry_count, blocks, given, ret>>

Next == \/ hashmap_new \/ hashmap_free
        \/ \E key \in Keys : hashmap_get(key) \/ hashmap_remove(key)
        \/ \E key \in Keys, place \in Places, value \in Values : hashmap_set(key, place, value)
        \/ hashmap_iter_first \/ hashmap_iter_next \/ Stop

Spec == Init /\ [][Next]_mapvars

-----------------------------------------------------------------------------
\* The map holds exactly what its client set last and did not remove, under
\* the client's own pointers: a pointer it was told to forget is gone
\* (hashmap_set, hashmap_remove).
HoldsWhatWasSet ==
    IF buckets = NULL THEN \A key \in Keys : given[key] = None
    ELSE \A key \in Keys :
             {[value |-> Chain(key)[n].value, place |-> Chain(key)[n].place] : n \in Found(key)}
                 = {given[key]} \ {None}

\* All its memory is accounted for, through failures and hashmap_free.
BlocksAccounted == blocks = IF buckets = NULL THEN 0 ELSE 2 + Sum(buckets)

\* An iteration that ends has visited each key once, when no two keys share a
\* chain (with two it never ends, hashmap_iter_next).
IterationVisitsAll ==
    (buckets # NULL /\ \A b \in Numbers : Len(buckets[b]) <= 1) =>
        /\ Cardinality({seen[n] : n \in DOMAIN seen}) = Len(seen)
        /\ cursor # NULL /\ HeadFrom(After(cursor)) = NULL =>
               {seen[n] : n \in DOMAIN seen} = {key \in Keys : given[key] # None}
=============================================================================
