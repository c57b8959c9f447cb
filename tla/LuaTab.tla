------------------------------- MODULE LuaTab ------------------------------
(***************************************************************************)
(* Functions of the table library that move elements                       *)
(* (src/libs/liblua/src/ltablib.c).  A table is a function from all the    *)
(* integers of the machine to values, 0 for nil.                           *)
(***************************************************************************)
EXTENDS Integers, Sequences, SequencesExt

CONSTANT IntegerBits     \* the width of lua_Integer

LUA_MAXINTEGER == 2^(IntegerBits - 1) - 1
Ints == (-2^(IntegerBits - 1))..LUA_MAXINTEGER
Wrap(n) == ((n + 2^(IntegerBits - 1)) % 2^IntegerBits) - 2^(IntegerBits - 1)

Nil == 0
NoError == ""
TabOk(t, result) == [err |-> NoError, t |-> t, result |-> result]
TabError(t, message) == [err |-> message, t |-> t, result |-> Nil]

\* "t[to[k]] = t[from[k]]", for each k in this order, one after the other.
MoveEach(t, moves) ==
    FoldLeft(LAMBDA tab, m : [tab EXCEPT ![m.to] = tab[m.from]], t, moves)

\* table.insert: args is the number of arguments, len the length operator's
\* answer.
tinsert(t, len, args, pos, v) ==
    LET e == Wrap(len + 1)
        up == [k \in 1..(e - pos) |-> [to |-> e - k + 1, from |-> e - k]]
    IN  CASE args = 2 -> TabOk([t EXCEPT ![e] = v], Nil)
          [] args = 3 -> IF 1 <= pos /\ pos <= e
                         THEN TabOk([MoveEach(t, up) EXCEPT ![pos] = v], Nil)
                         ELSE TabError(t, "position out of bounds")
          [] OTHER -> TabError(t, "wrong number of arguments")

tremove(t, size, pos) ==
    LET down == [k \in 1..(size - pos) |-> [to |-> pos + k - 1, from |-> pos + k]]
        last == IF pos < size THEN size ELSE pos
    IN  IF pos = size \/ (1 <= pos /\ pos <= Wrap(size + 1))
        THEN TabOk([MoveEach(t, down) EXCEPT ![last] = Nil], t[pos])
        ELSE TabError(t, "position out of bounds")

\* Fault: an overlapping range is always copied upwards.
InOrder_Upwards(up, f, e, t) == up

\* The order of the copies within one table: upwards when it is possible.
InOrder(up, f, e, t) == IF t > e \/ t <= f THEN up ELSE Reverse(up)

\* From src[f], ..., src[e] to dest[t], ...; same: dest is src.
tmove(src, dest, same, f, e, t) ==
    LET n == e - f + 1
        up == [k \in 1..n |-> [from |-> f + k - 1, to |-> t + k - 1]]
    IN  IF e < f THEN TabOk(dest, Nil)
        ELSE IF ~(f > 0 \/ e < LUA_MAXINTEGER + f) THEN TabError(dest, "too many elements to move")
        ELSE IF ~(t <= LUA_MAXINTEGER - n + 1) THEN TabError(dest, "destination wrap around")
        ELSE IF same THEN TabOk(MoveEach(dest, InOrder(up, f, e, t)), Nil)
        ELSE TabOk(FoldLeft(LAMBDA tab, m : [tab EXCEPT ![m.to] = src[m.from]], dest, up), Nil)

\* The loops go from i to before the last element, which is taken apart: i
\* would wrap around behind the last integer.
RECURSIVE Elements(_, _, _)
Elements(t, i, e) ==
    IF i < e THEN <<t[i]>> \o Elements(t, Wrap(i + 1), e) ELSE IF i = e THEN <<t[i]>> ELSE <<>>

\* unpack: the elements it leaves on the stack, which has room for some.
unpack(t, i, e, room) ==
    LET n == (e - i) % 2^IntegerBits      \* unsigned
    IN  IF i > e THEN TabOk(t, <<>>)
        ELSE IF n >= room THEN TabError(t, "too many results to unpack")
        ELSE TabOk(t, Elements(t, i, e))

\* concat: texts are the values that are strings or numbers; the separator is
\* the element sep.
tconcat(t, sep, i, last, texts) ==
    LET fields == Elements(t, i, last)
    IN  IF \E k \in DOMAIN fields : fields[k] \notin texts
        THEN TabError(t, "invalid value in table for 'concat'")
        ELSE TabOk(t, FlattenSeq([k \in DOMAIN fields |->
                                    IF k < Len(fields) THEN <<fields[k], sep>> ELSE <<fields[k]>>]))

-----------------------------------------------------------------------------
\* What the functions promise to their callers: move copies the range as it
\* was, whatever overlaps, or changes nothing; its range may touch either end
\* of the integers (tmove; the order of copying, and the two checks).
MoveIs(src, other, same, f, e, t) ==
    LET dest == IF same THEN src ELSE other
        r == tmove(src, dest, same, f, e, t)
        \* the elements, counted without a machine's width
        n == e - f + 1
        fits == n <= LUA_MAXINTEGER /\ t + n - 1 <= LUA_MAXINTEGER
    IN  IF e < f THEN r.err = NoError /\ r.t = dest
        ELSE IF ~fits THEN r.err # NoError /\ r.t = dest
        ELSE /\ r.err = NoError
             /\ r.t = [k \in Ints |-> IF k \in t..(t + n - 1) THEN src[f + k - t] ELSE dest[k]]

\* For a sequence of len values insert and remove are those of sequences,
\* and they are each other's inverse; a position outside it changes nothing.
\* When the length is the last integer, only the last element can be removed
\* (tinsert, tremove).
InsertRemoveIs(t, len, pos, v) ==
    LET s == [k \in 1..len |-> t[k]]
        Table(q) == [k \in Ints |-> IF k \in DOMAIN q THEN q[k]
                                    ELSE IF k \in 1..len THEN Nil ELSE t[k]]
        in == tinsert(t, len, 3, pos, v)
        out == tremove(t, len, pos)
    IN  /\ IF pos \in 1..(len + 1) /\ len < LUA_MAXINTEGER
           THEN /\ in.err = NoError /\ in.t = Table(InsertAt(s, pos, v))
                /\ len + 1 < LUA_MAXINTEGER => tremove(in.t, len + 1, pos) = TabOk(t, v)
                /\ pos = len + 1 => tinsert(t, len, 2, 0, v) = in
           ELSE in.err # NoError /\ in.t = t
        /\ IF pos \in 1..len /\ (len < LUA_MAXINTEGER \/ pos = len)
           THEN out = TabOk(Table(RemoveAt(s, pos)), t[pos])
           ELSE IF (pos = len + 1 /\ len < LUA_MAXINTEGER) \/ (pos = 0 /\ len = 0)
           THEN out = TabOk([t EXCEPT ![pos] = Nil], t[pos])
           ELSE out.err # NoError /\ out.t = t

\* A range is unpacked, or joined, element by element from either end of the
\* integers to the other, or refused as a whole (unpack, tconcat).
RangeIs(t, i, e, room, sep) ==
    LET n == IF e < i THEN 0 ELSE e - i + 1
        joined == tconcat(t, sep, i, e, {t[k] : k \in Ints} \ {Nil})
    IN  /\ unpack(t, i, e, room) = IF n > room THEN TabError(t, "too many results to unpack")
                                   ELSE TabOk(t, [k \in 1..n |-> t[i + k - 1]])
        /\ IF \E k \in i..e : t[k] = Nil THEN joined.err # NoError
           ELSE /\ Len(joined.result) = IF n = 0 THEN 0 ELSE 2 * n - 1
                /\ \A k \in DOMAIN joined.result :
                       joined.result[k] = IF k % 2 = 0 THEN sep ELSE t[i + (k \div 2)]
=============================================================================
