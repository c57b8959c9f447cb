------------------------------ MODULE LuaPack ------------------------------
(***************************************************************************)
(* string.pack, packsize and unpack (src/libs/liblua/src/lstrlib.c).  A    *)
(* format is a sequence of options <<letter, number>>, the number -1 when  *)
(* the text has none; a byte is a number below 2^NB, and a value is a      *)
(* sequence, <<n>> for a number.  A float is taken for an n that all the   *)
(* float types hold exactly, and its bytes for markers of n.               *)
(***************************************************************************)
EXTENDS Integers, Sequences, SequencesExt

CONSTANTS NB,             \* bits of a character
          SZINT,          \* sizeof(lua_Integer)
          SizeofShort, SizeofInt, SizeofLong, SizeofSize, SizeofFloat, SizeofDouble,
          MAXINTSIZE, MAXALIGN

Kint == 1     Kuint == 2    Kfloat == 3     Kchar == 4        Kstring == 5
Kzstr == 6    Kpadding == 7 Kpaddalign == 8 Knop == 9

Base == 2^NB
lua_Integer == (-2^(NB * SZINT - 1))..(2^(NB * SZINT - 1) - 1)
Unsigned(n) == n % 2^(NB * SZINT)
Signed(u) == IF u < 2^(NB * SZINT - 1) THEN u ELSE u - 2^(NB * SZINT)

Header == [islittle |-> TRUE, maxalign |-> 1]

Option(opt, size, h) == [opt |-> opt, size |-> size, h |-> h, err |-> ""]
BadOption(h, message) == [Option(Knop, 0, h) EXCEPT !.err = message]

\* The number of an option, when it is a size of an integer.
Limited(opt, number, df, h) ==
    LET sz == IF number = -1 THEN df ELSE number
    IN  IF sz \in 1..MAXINTSIZE THEN Option(opt, sz, h) ELSE BadOption(h, "out of limits")

getoption(h, o) ==
    CASE o[1] = "b" -> Option(Kint, 1, h)
      [] o[1] = "B" -> Option(Kuint, 1, h)
      [] o[1] = "h" -> Option(Kint, SizeofShort, h)
      [] o[1] = "H" -> Option(Kuint, SizeofShort, h)
      [] o[1] = "l" -> Option(Kint, SizeofLong, h)
      [] o[1] = "L" -> Option(Kuint, SizeofLong, h)
      [] o[1] = "j" -> Option(Kint, SZINT, h)
      [] o[1] = "J" -> Option(Kuint, SZINT, h)
      [] o[1] = "T" -> Option(Kuint, SizeofSize, h)
      [] o[1] = "f" -> Option(Kfloat, SizeofFloat, h)
      [] o[1] \in {"d", "n"} -> Option(Kfloat, SizeofDouble, h)
      [] o[1] = "i" -> Limited(Kint, o[2], SizeofInt, h)
      [] o[1] = "I" -> Limited(Kuint, o[2], SizeofInt, h)
      [] o[1] = "s" -> Limited(Kstring, o[2], SizeofSize, h)
      [] o[1] = "c" -> IF o[2] = -1 THEN BadOption(h, "missing size") ELSE Option(Kchar, o[2], h)
      [] o[1] = "z" -> Option(Kzstr, 0, h)
      [] o[1] = "x" -> Option(Kpadding, 1, h)
      [] o[1] = "X" -> Option(Kpaddalign, 0, h)
      [] o[1] = " " -> Option(Knop, 0, h)
      [] o[1] \in {"<", "="} -> Option(Knop, 0, [h EXCEPT !.islittle = TRUE])
      [] o[1] = ">" -> Option(Knop, 0, [h EXCEPT !.islittle = FALSE])
      [] o[1] = "!" ->
             LET sz == Limited(Knop, o[2], MAXALIGN, h)
             IN  IF sz.err # "" THEN sz ELSE Option(Knop, 0, [h EXCEPT !.maxalign = sz.size])
      [] OTHER -> BadOption(h, "invalid format option")

Padding(align, totalsize) == (align - (totalsize % align)) % align

\* "enforce maximum alignment"
Aligned(align, h) == IF align > h.maxalign THEN h.maxalign ELSE align

\* The next option of the format, with its padding; rest is what follows it.
getdetails(h, totalsize, fmt) ==
    LET Bad(message) ==
            [opt |-> Knop, size |-> 0, ntoalign |-> 0, err |-> message, h |-> h, rest |-> <<>>]
        \* o is aligned like an element of the size; the format goes on after n options
        Details(o, size, align, to, n) ==
            IF size > 1 /\ o.opt # Kchar /\ \A k \in 0..MAXINTSIZE : align # 2^k
            THEN Bad("format asks for alignment not power of 2")
            ELSE [opt |-> o.opt, size |-> o.size, err |-> "", h |-> to,
                  ntoalign |-> IF size <= 1 \/ o.opt = Kchar THEN 0 ELSE Padding(align, totalsize),
                  rest |-> SubSeq(fmt, n + 1, Len(fmt))]
        \* 'X' gets alignment from following option
        Pads(o, next) ==
            IF next.err # "" \/ next.opt = Kchar \/ next.size = 0
            THEN Bad("invalid next option for option 'X'")
            ELSE Details(o, next.size, Aligned(next.size, o.h), next.h, 2)
        First(o) ==
            CASE o.err # "" -> Bad(o.err)
              [] o.err = "" /\ o.opt = Kpaddalign ->
                     IF Len(fmt) = 1 THEN Bad("invalid next option for option 'X'")
                     ELSE Pads(o, getoption(o.h, fmt[2]))
              [] OTHER -> Details(o, o.size, Aligned(o.size, o.h), o.h, 1)
    IN  First(getoption(h, Head(fmt)))

Pad(n) == [k \in 1..n |-> 0]

\* Low bytes first, then turned around.
Endian(bytes, islittle) == IF islittle THEN bytes ELSE Reverse(bytes)

\* Fault: no sign extension behind the bytes of a lua_Integer.
packint_NoSign(n, islittle, size, neg) ==
    Endian([i \in 1..size |-> (n \div Base^(i - 1)) % Base], islittle)

packint(n, islittle, size, neg) ==
    Endian([i \in 1..size |-> IF neg /\ i > SZINT THEN Base - 1 ELSE (n \div Base^(i - 1)) % Base],
           islittle)

FloatBytes(n, size) == [k \in 1..size |-> 1000 * size + 100 * n + k]
copywithendian(bytes, islittle) == Endian(bytes, islittle)

\* The bytes of a value under an option, or an error.
PackValue(o, v) ==
    LET Put(bytes) == [err |-> "", out |-> bytes]
        Refuse(message) == [err |-> message, out |-> <<>>]
        lim == 2^(o.size * NB - 1)
    IN  CASE o.opt = Kint ->
               IF o.size < SZINT /\ ~(-lim <= v[1] /\ v[1] < lim) THEN Refuse("integer overflow")
               ELSE Put(packint(Unsigned(v[1]), o.h.islittle, o.size, v[1] < 0))
          [] o.opt = Kuint ->
               IF o.size < SZINT /\ ~(Unsigned(v[1]) < 2 * lim) THEN Refuse("unsigned overflow")
               ELSE Put(packint(Unsigned(v[1]), o.h.islittle, o.size, FALSE))
          [] o.opt = Kfloat -> Put(copywithendian(FloatBytes(v[1], o.size), o.h.islittle))
          [] o.opt = Kchar ->
               IF Len(v) > o.size THEN Refuse("string longer than given size")
               ELSE Put(v \o Pad(o.size - Len(v)))
          [] o.opt = Kstring ->
               IF o.size < SizeofSize /\ Len(v) >= 2 * lim THEN Refuse("does not fit in given size")
               ELSE Put(packint(Len(v), o.h.islittle, o.size, FALSE) \o v)
          [] o.opt = Kzstr ->
               IF 0 \in ToSet(v) THEN Refuse("string contains zeros") ELSE Put(Append(v, 0))

NoArgument == {Kpadding, Kpaddalign, Knop}

RECURSIVE PackOn(_, _, _, _, _)
PackOn(h, totalsize, fmt, args, out) ==
    LET extra(o) == CASE o.opt = Kstring -> Len(Head(args))
                      [] o.opt = Kzstr -> Len(Head(args)) + 1
                      [] OTHER -> 0
        GoOn(o, more, left, bytes) ==
            PackOn(o.h, totalsize + o.ntoalign + o.size + more, o.rest, left,
                   out \o Pad(o.ntoalign) \o bytes)
        Put(o, one) == IF one.err # "" THEN [err |-> one.err, out |-> <<>>]
                       ELSE GoOn(o, extra(o), Tail(args), one.out)
        Item(o) ==
            IF o.err # "" THEN [err |-> o.err, out |-> <<>>]
            ELSE IF o.opt \in NoArgument
            THEN GoOn(o, 0, args, IF o.opt = Kpadding THEN Pad(1) ELSE <<>>)
            ELSE IF args = <<>> THEN [err |-> "no value", out |-> <<>>]
            ELSE Put(o, PackValue(o, Head(args)))
    IN  IF fmt = <<>> THEN [err |-> "", out |-> out] ELSE Item(getdetails(h, totalsize, fmt))
str_pack(fmt, args) == PackOn(Header, 0, fmt, args, <<>>)

RECURSIVE SizeOn(_, _, _)
SizeOn(h, totalsize, fmt) ==
    LET Item(o) ==
            IF o.err # "" THEN [err |-> o.err, size |-> 0]
            ELSE IF o.opt \in {Kstring, Kzstr} THEN [err |-> "variable-length format", size |-> 0]
            ELSE SizeOn(o.h, totalsize + o.ntoalign + o.size, o.rest)
    IN  IF fmt = <<>> THEN [err |-> "", size |-> totalsize] ELSE Item(getdetails(h, totalsize, fmt))
str_packsize(fmt) == SizeOn(Header, 0, fmt)

unpackint(bytes, islittle, size, issigned) ==
    LET limit == IF size <= SZINT THEN size ELSE SZINT
        half == 2^(size * NB - 1)
        Extended(res) ==
            IF size < SZINT /\ issigned /\ res >= half THEN res - 2 * half ELSE Signed(res)
        Checked(str, x) ==
            IF \E i \in (limit + 1)..size : str[i] # IF ~issigned \/ x >= 0 THEN 0 ELSE Base - 1
            THEN [err |-> "does not fit into Lua Integer", x |-> 0]
            ELSE [err |-> "", x |-> x]
        Low(str) ==
            Checked(str, Extended(FoldLeft(LAMBDA x, i : x * Base + str[limit + 1 - i], 0,
                                           [i \in 1..limit |-> i])))
    IN  Low(Endian(bytes, islittle))

\* The value at the start of the data, with the data it takes.
UnpackValue(o, data) ==
    LET Value(v, taken) == [err |-> "", v |-> v, taken |-> taken]
        Fails(message) == [err |-> message, v |-> <<>>, taken |-> 0]
        bytes == SubSeq(data, 1, o.size)
        strlen(zero) == IF zero = 0 THEN Len(data) ELSE zero - 1
        Zstr(len) == Value(SubSeq(data, 1, len), len + 1)
        Number(int) == IF int.err # "" THEN Fails(int.err) ELSE Value(<<int.x>>, o.size)
        String(int) ==
            IF int.err # "" THEN Fails(int.err)
            ELSE IF o.size + int.x > Len(data) THEN Fails("data string too short")
            ELSE Value(SubSeq(data, o.size + 1, o.size + int.x), o.size + int.x)
        Bytes(int) == IF o.opt = Kstring THEN String(int) ELSE Number(int)
    IN  CASE o.opt \in {Kint, Kuint, Kstring} ->
                 Bytes(unpackint(bytes, o.h.islittle, o.size, o.opt = Kint))
          [] o.opt = Kfloat ->
                 Value(<<(copywithendian(bytes, o.h.islittle)[1] - 1000 * o.size) \div 100>>, o.size)
          [] o.opt = Kchar -> Value(bytes, o.size)
          [] o.opt = Kzstr -> Zstr(strlen(SelectInSeq(data, LAMBDA c : c = 0)))

RECURSIVE UnpackOn(_, _, _, _, _)
UnpackOn(h, pos, fmt, data, vals) ==
    LET Fails(message) == [err |-> message, vals |-> <<>>, next |-> 0]
        Take(o, from, one) ==
            IF one.err # "" THEN Fails(one.err)
            ELSE UnpackOn(o.h, from + one.taken, o.rest, data, Append(vals, one.v))
        At(o, from) ==
            IF from + o.size > Len(data) THEN Fails("data string too short")
            ELSE IF o.opt \in NoArgument THEN UnpackOn(o.h, from + o.size, o.rest, data, vals)
            ELSE Take(o, from, UnpackValue(o, SubSeq(data, from + 1, Len(data))))
        Item(o) == IF o.err # "" THEN Fails(o.err) ELSE At(o, pos + o.ntoalign)
    IN  IF fmt = <<>> THEN [err |-> "", vals |-> vals, next |-> pos + 1]
        ELSE Item(getdetails(h, pos, fmt))
str_unpack(fmt, data) == UnpackOn(Header, 0, fmt, data, <<>>)

-----------------------------------------------------------------------------
\* What a value has to be for an option to take it.
Representable(o, v) ==
    CASE o.opt = Kint -> o.size >= SZINT \/ v[1] \in (-2^(o.size * NB - 1))..(2^(o.size * NB - 1) - 1)
      [] o.opt = Kuint -> o.size >= SZINT \/ v[1] \in 0..(2^(o.size * NB) - 1)
      [] o.opt = Kchar -> Len(v) <= o.size
      [] o.opt = Kstring -> o.size >= SizeofSize \/ Len(v) < 2^(o.size * NB)
      [] o.opt = Kzstr -> 0 \notin ToSet(v)
      [] OTHER -> TRUE

\* What is packed comes back: unpack gives the values that pack was given,
\* and the place behind them; packsize is right; the beginning of packed data
\* is refused (but for a string with a zero at its end, for which
\* unpack takes what there is); one option takes exactly
\* the values it can represent, and two after '!' lie where they should
\* (str_pack, str_unpack, str_packsize).
ComesBack(fmt, args) ==
    LET Same(v, w) == w \in {v, v \o Pad(Len(w) - Len(v))}
        zeroes == fmt # <<>> /\ fmt[Len(fmt)][1] = "z"
        Whole(out, back, size) ==
            /\ back.err = "" /\ back.next = Len(out) + 1
            /\ Len(back.vals) = Len(args) /\ \A k \in DOMAIN args : Same(args[k], back.vals[k])
            /\ size.err = "" => size.size = Len(out)
        NoLess(out) ==
            \A n \in 0..(Len(out) - 1) :
                \/ str_unpack(fmt, SubSeq(out, 1, n)).err # ""
                \/ zeroes /\ n + Len(args[Len(args)]) >= Len(out) - 1
        Single(packed, o) ==
            packed.err = "" <=> o.err = "" /\ Representable(o, args[1])
        \* where the second of two options lies, in a format of this size
        Placed(m, x, next, size) ==
            next.opt \in {Kint, Kuint, Kfloat} =>
                \E to \in {IF next.size < m THEN next.size ELSE m} :
                    \E at \in x..(x + to - 1) : at % to = 0 /\ size = at + next.size
        Right(packed, size) ==
            /\ packed.err = "" =>
                   /\ Whole(packed.out, str_unpack(fmt, packed.out), size)
                   /\ NoLess(packed.out)
            /\ Len(fmt) = 1 /\ Len(args) = 1 => Single(packed, getoption(Header, fmt[1]))
            /\ Len(fmt) = 3 /\ fmt[1][1] = "!" /\ fmt[2][1] # "X" /\ size.err = "" =>
                   Placed(getoption(Header, fmt[1]).h.maxalign, getoption(Header, fmt[2]).size,
                          getoption(Header, fmt[3]), size.size)
    IN  Right(str_pack(fmt, args), str_packsize(fmt))
=============================================================================
