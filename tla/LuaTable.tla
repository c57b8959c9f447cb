------------------------------ MODULE LuaTable ------------------------------
(***************************************************************************)
(* The tables of Lua (ltable.c): an array part and a hash part, whose      *)
(* nodes are chained from the main positions of their keys (Brent's        *)
(* variation), grown by rehash when no free node is left, and traversed    *)
(* by luaH_next while the program clears fields and the collector leaves   *)
(* dead keys behind.                                                       *)
(*                                                                         *)
(* A key is an integer or an object, which its hash stands for; a float of *)
(* integer value is the integer.  Positions of nodes are absolute.         *)
(***************************************************************************)
EXTENDS Integers, Sequences, FiniteSets

CONSTANTS
    Ints,     \* integer keys
    Strings,  \* the hashes of objects that hash by a power of two
    Pointers, \* the hashes of objects that hash by a modulus
    ArrayMax  \* bound: size asked of luaH_resizearray

Nil == 0
Set1 == 1
None == -1
Keys == {<<"i", i>> : i \in Ints} \cup {<<"s", s>> : s \in Strings}
        \cup {<<"p", p>> : p \in Pointers}
NilKey == <<"nil">>

VARIABLES
    t,     \* the table: array, node, dummy, lastfree
    it,    \* the last key of a traversal, NilKey before the first, or <<"off">>
    seen,  \* keys the traversal came to
    owed,  \* keys there when it began and not cleared since
    last   \* history: what the program wrote to each key last

vars == <<t, it, seen, owed, last>>

Node(k, v, nx) == [key |-> k, val |-> v, next |-> nx, dead |-> FALSE]
NewNode == Node(NilKey, Nil, None)

Init ==
    /\ t = [array |-> <<>>, node |-> <<NewNode>>, dummy |-> TRUE, lastfree |-> 1]
    /\ it = <<"off">> /\ seen = {} /\ owed = {}
    /\ last = [k \in Keys |-> Nil]
-----------------------------------------------------------------------------
\* Nodes are counted from 1.
ceillog2(x) == Cardinality({n \in 0..5 : 2^n < x})

sizearray(x) == Len(x.array)
sizenode(x) == Len(x.node)

mainposition(x, k) ==
    1 + CASE k[1] \in {"i", "s"} -> k[2] % sizenode(x)
          [] k[1] = "p" -> LET m == sizenode(x) - 1
                           IN  k[2] % (IF m % 2 = 0 THEN m + 1 ELSE m)

InArray(x, k) == k[1] = "i" /\ k[2] > 0 /\ k[2] <= sizearray(x)

\* The nodes of a chain from a position on, a dead key being no key's.
RECURSIVE Chain(_, _)
Chain(x, n) == IF n = None THEN <<>> ELSE <<n>> \o Chain(x, x.node[n].next)
FoundIn(x, c, k) ==
    LET S == {i \in DOMAIN c : x.node[c[i]].key = k /\ ~x.node[c[i]].dead}
    IN  IF S = {} THEN None ELSE c[CHOOSE i \in S : \A j \in S : i <= j]
FindNode(x, k) == FoundIn(x, Chain(x, mainposition(x, k)), k)

luaH_get(x, k) ==
    IF InArray(x, k) THEN x.array[k[2]]
    ELSE LET n == FindNode(x, k) IN IF n = None THEN Nil ELSE x.node[n].val

\* Down from lastfree to a node that never had a key since the last rehash.
FreePos(x) ==
    LET S == {n \in 1..(x.lastfree - 1) : x.node[n].key = NilKey}
    IN  IF x.dummy \/ S = {} THEN None ELSE CHOOSE n \in S : \A m \in S : m <= n

\* Rehash: the sizes of both parts from the keys in use.
UsedKeys(x) == {<<"i", i>> : i \in {i \in DOMAIN x.array : x.array[i] # Nil}}
               \cup {x.node[n].key : n \in {n \in DOMAIN x.node : x.node[n].val # Nil}}
ArrayIndices(K) == {k[2] : k \in {k \in K : k[1] = "i" /\ k[2] > 0}}
computesizes(A) ==
    LET fits == {i \in {ceillog2(k) : k \in A} :
                    Cardinality({k \in A : k <= 2^i}) > 2^i \div 2}
    IN  IF fits = {} THEN 0 ELSE 2^(CHOOSE i \in fits : \A j \in fits : j <= i)

EmptyNodes == [n \in 0..4 |-> [i \in 1..2^n |-> NewNode]]
setnodevector(x, size) ==
    IF size = 0
    THEN [x EXCEPT !.node = <<NewNode>>, !.dummy = TRUE, !.lastfree = 1]
    ELSE LET n == ceillog2(size)
         IN  [x EXCEPT !.node = EmptyNodes[n], !.dummy = FALSE,
                       !.lastfree = 2^n + 1]

\* A mutant: the search for the node before stops at the first of the chain.
Previous_First(x, first, n) == first

\* The node before a position in its chain.
Previous(x, first, n) ==
    LET c == Chain(x, first)
    IN  c[CHOOSE i \in DOMAIN c : x.node[c[i]].next = n]

RECURSIVE luaH_set(_, _, _), luaH_newkey(_, _, _), luaH_resize(_, _, _)
RECURSIVE Reinsert(_, _, _)

\* A taken main position: its node moves to the free one when it is another
\* chain's, else the new key goes there and is chained after it.
luaH_newkey(x, k, v) ==
    LET mp == mainposition(x, k)
        f == FreePos(x)
        y == [x EXCEPT !.lastfree = f]
        other == mainposition(x, x.node[mp].key)
        K == UsedKeys(x) \cup {k}
        asize == computesizes(ArrayIndices(K))
        inarray == {i \in ArrayIndices(K) : i <= asize}
    IN  IF x.node[mp].val = Nil /\ ~x.dummy
        THEN [x EXCEPT !.node[mp] = Node(k, v, @.next)]
        ELSE IF f = None
        THEN luaH_set(luaH_resize(x, asize, Cardinality(K) - Cardinality(inarray)), k, v)
        ELSE IF other # mp
        THEN [y EXCEPT !.node[Previous(x, other, mp)].next = f,
                       !.node[f] = x.node[mp],
                       !.node[mp] = Node(k, v, None)]
        ELSE [y EXCEPT !.node[f] = Node(k, v, x.node[mp].next),
                       !.node[mp].next = f]

luaH_set(x, k, v) ==
    IF InArray(x, k) THEN [x EXCEPT !.array[k[2]] = v]
    ELSE LET n == FindNode(x, k)
         IN  IF n # None THEN [x EXCEPT !.node[n].val = v] ELSE luaH_newkey(x, k, v)

\* What the hash part held goes back in, from its last node to its first.
Reinsert(x, nodes, j) ==
    IF j = 0 THEN x
    ELSE IF nodes[j].val = Nil THEN Reinsert(x, nodes, j - 1)
    ELSE Reinsert(luaH_set(x, nodes[j].key, nodes[j].val), nodes, j - 1)

\* The slice of the array that vanishes goes to the hash part first.
RECURSIVE Vanish(_, _, _)
Vanish(x, array, i) ==
    IF i > Len(array) THEN x
    ELSE Vanish(IF array[i] = Nil THEN x ELSE luaH_set(x, <<"i", i>>, array[i]), array, i + 1)

\* A mutant: the array shrinks before its slice was put in the hash part.
luaH_resize_LosesSlice(x, nasize, nhsize) ==
    Reinsert(setnodevector([x EXCEPT !.array = [i \in 1..nasize |->
                    IF i <= sizearray(x) THEN x.array[i] ELSE Nil]], nhsize),
             x.node, sizenode(x))

luaH_resize(x, nasize, nhsize) ==
    LET a == [x EXCEPT !.array = [i \in 1..nasize |->
                    IF i <= sizearray(x) THEN x.array[i] ELSE Nil]]
        b == setnodevector(a, nhsize)
    IN  Reinsert(Vanish(b, x.array, nasize + 1), x.node, sizenode(x))

\* luaH_next: the index after a key's, the array part first; the key of an
\* entry that was cleared is still found, even a dead one.
HashIndex(x, k) ==
    LET c == Chain(x, mainposition(x, k))
        S == {i \in DOMAIN c : x.node[c[i]].key = k}
    IN  IF S = {} THEN None ELSE c[CHOOSE i \in S : \A j \in S : i <= j]
\* A mutant: a dead key is not looked for by its address.
findindex_Living(x, k) ==
    IF k = NilKey THEN 0
    ELSE IF InArray(x, k) THEN k[2]
    ELSE LET n == FindNode(x, k) IN IF n = None THEN None ELSE sizearray(x) + n

findindex(x, k) ==
    IF k = NilKey THEN 0
    ELSE IF InArray(x, k) THEN k[2]
    ELSE LET n == HashIndex(x, k) IN IF n = None THEN None ELSE sizearray(x) + n

EntryAt(x, i) == IF i <= sizearray(x)
                 THEN [key |-> <<"i", i>>, val |-> x.array[i]]
                 ELSE LET n == x.node[i - sizearray(x)]
                      IN  [key |-> n.key, val |-> n.val]
luaH_next(x, k) ==
    LET first == findindex(x, k)
        S == {i \in (first + 1)..(sizearray(x) + sizenode(x)) : EntryAt(x, i).val # Nil}
    IN  IF first = None THEN <<"error">>
        ELSE IF S = {} THEN <<"end">>
        ELSE EntryAt(x, CHOOSE i \in S : \A j \in S : i <= j).key

\* luaH_getn: a boundary in the array part, or one beyond it.
IntAt(x, i) == luaH_get(x, <<"i", i>>)
RECURSIVE Between(_, _, _), Unbound(_, _, _)
Between(x, i, j) ==
    LET m == (i + j) \div 2
    IN  IF j - i <= 1 THEN i
        ELSE IF IntAt(x, m) = Nil THEN Between(x, i, m) ELSE Between(x, m, j)
Unbound(x, i, j) ==
    IF IntAt(x, j) = Nil THEN Between(x, i, j) ELSE Unbound(x, j, j * 2)

luaH_getn(x) ==
    LET j == sizearray(x)
    IN  IF j > 0 /\ x.array[j] = Nil THEN Between(x, 0, j)
        ELSE IF x.dummy THEN j
        ELSE Unbound(x, j, j + 1)
-----------------------------------------------------------------------------
\* Whether a write makes a new key: an entry that was cleared is no new one.
MakesKey(k) == ~InArray(t, k) /\ FindNode(t, k) = None

\* A new key makes the traversal that runs meaningless; a write to a field that
\* is there, or clearing it, does not.
Assign ==
    \E k \in Keys, v \in {Nil, Set1} :
        /\ t' = luaH_set(t, k, v) /\ last' = [last EXCEPT ![k] = v]
        /\ IF MakesKey(k) \/ (v # Nil /\ luaH_get(t, k) = Nil)
           THEN it' = <<"off">> /\ seen' = {} /\ owed' = {}
           ELSE /\ owed' = IF v = Nil THEN owed \ {k} ELSE owed
                /\ UNCHANGED <<it, seen>>

luaH_resizearray ==
    \E n \in (sizearray(t) + 1)..ArrayMax :
        /\ t' = luaH_resize(t, n, IF t.dummy THEN 0 ELSE sizenode(t))
        /\ it' = <<"off">> /\ seen' = {} /\ owed' = {} /\ UNCHANGED last

\* removeentry of the collector, on an empty entry whose object is not marked.
removeentry ==
    \E n \in DOMAIN t.node :
        /\ t.node[n].val = Nil /\ t.node[n].key[1] \in {"s", "p"} /\ ~t.node[n].dead
        /\ t' = [t EXCEPT !.node[n].dead = TRUE]
        /\ UNCHANGED <<it, seen, owed, last>>

Begin ==
    /\ it = <<"off">>
    /\ it' = NilKey /\ seen' = {} /\ owed' = UsedKeys(t)
    /\ UNCHANGED <<t, last>>

lua_next ==
    /\ it \in Keys \cup {NilKey}
    /\ it' = luaH_next(t, it)
    /\ seen' = IF it' \in Keys THEN seen \cup {it'} ELSE seen
    /\ UNCHANGED <<t, owed, last>>

End ==
    /\ it = <<"end">>
    /\ it' = <<"off">> /\ seen' = {} /\ owed' = {}
    /\ UNCHANGED <<t, last>>

Next == Assign \/ luaH_resizearray \/ removeentry \/ Begin \/ lua_next \/ End

Spec == Init /\ [][Next]_vars
-----------------------------------------------------------------------------
\* Every key holds what was last written to it, through any moves of nodes,
\* rehashes and dead keys (luaH_newkey, luaH_resize, removeentry).
HoldsLastWritten == \A k \in Keys : luaH_get(t, k) = last[k]

\* A traversal (lua_next) never fails, comes to no key twice, and when it ends has come to
\* every key that was there all the time; fields may be cleared, and their keys
\* die, while it runs.
Traverses ==
    /\ it' # <<"error">>
    /\ it \in Keys => luaH_next(t, it) # it
    /\ it' # it /\ it' \in Keys => it' \notin seen
    /\ it' = <<"end">> => owed \subseteq seen
TraversalExact == [][Traverses]_vars

\* Chains end, every key is on the chain of its main position and nowhere else,
\* and the array's keys are not in the hash part (luaH_newkey).
RECURSIVE Ends(_, _)
Ends(n, bound) == n = None \/ (bound > 0 /\ Ends(t.node[n].next, bound - 1))
ChainsSound ==
    \A n \in DOMAIN t.node :
        /\ Ends(n, sizenode(t))
        /\ t.node[n].val # Nil =>
              FindNode(t, t.node[n].key) = n /\ ~InArray(t, t.node[n].key)

\* luaH_getn returns a border: a field that is there before one that is not.
LengthIsBorder ==
    LET n == luaH_getn(t)
    IN  (n = 0 \/ IntAt(t, n) # Nil) /\ IntAt(t, n + 1) = Nil

\* The table is one that lookups and the length operator can rely on.
TableSound == ChainsSound /\ LengthIsBorder
=============================================================================
