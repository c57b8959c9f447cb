------------------------------ MODULE LuaDump ------------------------------
(***************************************************************************)
(* Precompiled chunks: luaU_dump and luaU_undump                           *)
(* (src/libs/liblua/src/ldump.c, lundump.c) over the buffered stream of    *)
(* lzio.c.  A byte is a pair <<v, k>>: the k-th byte of a variable that    *)
(* holds v.  A pointer to a string is a sequence of at most one string,    *)
(* and a string is a sequence of numbers.  A function prototype is a       *)
(* record with the fields of Proto that a chunk keeps.                     *)
(***************************************************************************)
EXTENDS Integers, Sequences, SequencesExt

CONSTANTS SizeInt, SizeT, SizeInstruction, SizeInteger, SizeNumber,  \* sizeof
          Escape,             \* 0xFF: a string's size does not fit one byte
          LUAI_MAXSHORTLEN    \* the longest string that is interned

LUA_TNIL == 0      LUA_TBOOLEAN == 1
LUA_TNUMFLT == 3   LUA_TNUMINT == 19
LUA_TSHRSTR == 4   LUA_TLNGSTR == 20

LUA_SIGNATURE == <<27, 76, 117, 97>>
LUAC_DATA == <<25, 147, 13, 10, 26, 10>>
LUAC_VERSION == 83
LUAC_FORMAT == 0
LUAC_INT == 22136      \* 0x5678
LUAC_NUM == 3705       \* 370.5, in tenths

Bytes(x, size) == [k \in 1..size |-> <<x, k>>]

-----------------------------------------------------------------------------
(* ldump.c: D is the DumpState.  The writer takes `room` blocks and then   *)
(* fails.                                                                  *)

DumpBlock(b, D) ==
    IF D.status # 0 \/ b = <<>> THEN D
    ELSE IF D.room = 0 THEN [D EXCEPT !.status = 1]
    ELSE [D EXCEPT !.out = @ \o b, !.room = @ - 1]

DumpVector(v, size, D) == DumpBlock(FlattenSeq([i \in DOMAIN v |-> Bytes(v[i], size)]), D)
DumpByte(y, D) == DumpVector(<<y>>, 1, D)
DumpInt(x, D) == DumpVector(<<x>>, SizeInt, D)
DumpNumber(x, D) == DumpVector(<<x>>, SizeNumber, D)
DumpInteger(x, D) == DumpVector(<<x>>, SizeInteger, D)

\* Fault: the size that is the escape itself is written as one byte.
DumpString_Boundary(s, D) ==
    IF s = <<>> THEN DumpByte(0, D)
    ELSE LET size == Len(s[1]) + 1
             sized == IF size <= Escape THEN DumpByte(size, D)
                      ELSE DumpVector(<<size>>, SizeT, DumpByte(Escape, D))
         IN  DumpVector(s[1], 1, sized)

DumpString(s, D) ==
    IF s = <<>> THEN DumpByte(0, D)
    ELSE LET size == Len(s[1]) + 1
             sized == IF size < Escape THEN DumpByte(size, D)
                      ELSE DumpVector(<<size>>, SizeT, DumpByte(Escape, D))
         IN  DumpVector(s[1], 1, sized)

DumpCode(f, D) == DumpVector(f.code, SizeInstruction, DumpInt(Len(f.code), D))

DumpConstant(o, D) ==
    LET typed == DumpByte(o.t, D)
    IN  CASE o.t = LUA_TNIL -> typed
          [] o.t = LUA_TBOOLEAN -> DumpByte(o.v[1], typed)
          [] o.t = LUA_TNUMFLT -> DumpNumber(o.v[1], typed)
          [] o.t = LUA_TNUMINT -> DumpInteger(o.v[1], typed)
          [] o.t \in {LUA_TSHRSTR, LUA_TLNGSTR} -> DumpString(<<o.v>>, typed)
DumpConstants(f, D) == FoldLeft(LAMBDA d, o : DumpConstant(o, d), DumpInt(Len(f.k), D), f.k)

DumpUpvalues(f, D) ==
    FoldLeft(LAMBDA d, u : DumpByte(u.idx, DumpByte(u.instack, d)),
             DumpInt(Len(f.upvalues), D), f.upvalues)

\* What of the debug information is dumped.
Kept(v, D) == IF D.strip THEN <<>> ELSE v

DumpDebug(f, D) ==
    LET lineinfo == Kept(f.lineinfo, D)
        locvars == Kept(f.locvars, D)
        names == Kept(f.upvalues, D)
        lines == DumpVector(lineinfo, SizeInt, DumpInt(Len(lineinfo), D))
        vars == FoldLeft(LAMBDA d, x :
                             DumpInt(x.endpc, DumpInt(x.startpc, DumpString(x.varname, d))),
                         DumpInt(Len(locvars), lines), locvars)
    IN  FoldLeft(LAMBDA d, u : DumpString(u.name, d), DumpInt(Len(names), vars), names)

RECURSIVE DumpFunction(_, _, _)
DumpProtos(f, D) ==
    FoldLeft(LAMBDA d, p : DumpFunction(p, f.source, d), DumpInt(Len(f.p), D), f.p)

DumpFunction(f, psource, D) ==
    LET source == DumpString(IF D.strip \/ f.source = psource THEN <<>> ELSE f.source, D)
        lines == DumpInt(f.lastlinedefined, DumpInt(f.linedefined, source))
        head == DumpByte(f.maxstacksize, DumpByte(f.is_vararg, DumpByte(f.numparams, lines)))
    IN  DumpDebug(f, DumpProtos(f, DumpUpvalues(f, DumpConstants(f, DumpCode(f, head)))))

DumpHeader(D) ==
    LET format == DumpByte(LUAC_FORMAT, DumpByte(LUAC_VERSION, DumpVector(LUA_SIGNATURE, 1, D)))
        sizes == FoldLeft(LAMBDA d, size : DumpByte(size, d), DumpVector(LUAC_DATA, 1, format),
                          <<SizeInt, SizeT, SizeInstruction, SizeInteger, SizeNumber>>)
    IN  DumpNumber(LUAC_NUM, DumpInteger(LUAC_INT, sizes))

\* room: how many blocks the writer takes.
luaU_dump(f, strip, room) ==
    LET D == [out |-> <<>>, room |-> room, status |-> 0, strip |-> strip]
    IN  DumpFunction(f, <<>>, DumpByte(Len(f.upvalues), DumpHeader(D)))

-----------------------------------------------------------------------------
(* lzio.c: z.n and z.p are the rest of the reader's last block.            *)

luaZ_init(blocks) == [rest |-> <<>>, reader |-> blocks]

\* The reader's next block; an empty one is the end.
luaZ_fill(z) ==
    IF z.reader = <<>> \/ Head(z.reader) = <<>> THEN [eoz |-> TRUE, z |-> z]
    ELSE [eoz |-> FALSE, z |-> [rest |-> Head(z.reader), reader |-> Tail(z.reader)]]

\* b: the bytes read so far.
RECURSIVE ReadOn(_, _, _)
ReadOn(z, b, n) ==
    LET take(from, m) == ReadOn([from EXCEPT !.rest = SubSeq(@, m + 1, Len(@))],
                                b \o SubSeq(from.rest, 1, m), n - m)
        copy(from) == take(from, IF n <= Len(from.rest) THEN n ELSE Len(from.rest))
        refill(fill) == IF fill.eoz THEN [missing |-> n, b |-> b, z |-> z] ELSE copy(fill.z)
    IN  IF n = 0 THEN [missing |-> 0, b |-> b, z |-> z]
        ELSE IF z.rest = <<>> THEN refill(luaZ_fill(z))
        ELSE copy(z)
luaZ_read(z, n) == ReadOn(z, <<>>, n)

-----------------------------------------------------------------------------
(* lundump.c: S is the LoadState; an error is kept in S, and from then on  *)
(* every load gives zeroes, as nothing of them is used.  Besides its       *)
(* errors, a load may fail an assertion, or write "outside" an array.      *)

Failing(S, why) == IF S.err = "" THEN [S EXCEPT !.err = why] ELSE S

\* What bytes of different variables make: a number beyond any chunk's length.
Garbage == 999
ValueOf(b, size, i) ==      \* the i-th variable of the bytes b
    LET x == b[(i - 1) * size + 1][1]
    IN  IF \A k \in 1..size : b[(i - 1) * size + k] = <<x, k>> THEN x ELSE Garbage

\* A load gives what it has read, and the state after it.
Loaded(x, S) == [x |-> x, S |-> S]

LoadVector(S, n, size) ==
    LET nothing == [i \in 1..n |-> 0]
        read(r) == IF r.missing # 0
                   THEN Loaded(nothing, Failing([S EXCEPT !.z = r.z], "truncated"))
                   ELSE Loaded([i \in 1..n |-> ValueOf(r.b, size, i)], [S EXCEPT !.z = r.z])
    IN  IF S.err # "" THEN Loaded(nothing, S) ELSE read(luaZ_read(S.z, n * size))

LoadVar(S, size) == LET one(r) == Loaded(r.x[1], r.S) IN one(LoadVector(S, 1, size))
LoadByte(S) == LoadVar(S, 1)
LoadInt(S) == LoadVar(S, SizeInt)
LoadNumber(S) == LoadVar(S, SizeNumber)
LoadInteger(S) == LoadVar(S, SizeInteger)

LoadString(S) ==
    LET pointer(r) == Loaded(<<r.x>>, r.S)
        str(size) == IF size.x = 0 THEN Loaded(<<>>, size.S)
                     ELSE pointer(LoadVector(size.S, size.x - 1, 1))
        escaped(byte) == IF byte.x = Escape THEN LoadVar(byte.S, SizeT) ELSE byte
    IN  str(escaped(LoadByte(S)))

\* As many numbers as was just loaded.
LoadNumbers(n, size) == LoadVector(n.S, n.x, size)

\* One field after the other; Load sees those that came before.
LoadFields(S, fields, Load(_, _, _)) ==
    LET more(r, field, one) == Loaded(r.x @@ (field :> one.x), one.S)
    IN  FoldLeft(LAMBDA r, field : more(r, field, Load(r.S, field, r.x)), Loaded(<<>>, S), fields)

LoadCode(S) == LoadNumbers(LoadInt(S), SizeInstruction)

\* The type is that of the object made: luaS_newlstr makes a short string,
\* luaS_createlngstrobj a long one.
StringConstant(str) ==
    [t |-> IF Len(str) <= LUAI_MAXSHORTLEN THEN LUA_TSHRSTR ELSE LUA_TLNGSTR, v |-> str]
NilConstant == [t |-> LUA_TNIL, v |-> <<>>]

LoadConstant(S) ==
    LET numeric(t, r) == Loaded([t |-> t, v |-> <<r.x>>], r.S)
        string(r) == Loaded(IF r.x = <<>> THEN NilConstant ELSE StringConstant(r.x[1]), r.S)
        constant(t) == CASE t.x = LUA_TBOOLEAN -> numeric(t.x, LoadByte(t.S))
                         [] t.x = LUA_TNUMFLT -> numeric(t.x, LoadNumber(t.S))
                         [] t.x = LUA_TNUMINT -> numeric(t.x, LoadInteger(t.S))
                         [] t.x \in {LUA_TSHRSTR, LUA_TLNGSTR} -> string(LoadString(t.S))
                         [] t.x = LUA_TNIL -> Loaded(NilConstant, t.S)
                         [] OTHER -> Loaded(NilConstant, Failing(t.S, "assertion"))
    IN  constant(LoadByte(S))

LoadUpvalue(S) ==
    LET Load(s, field, before) == IF field = "name" THEN Loaded(<<>>, s) ELSE LoadByte(s)
    IN  LoadFields(S, <<"instack", "idx", "name">>, Load)

LoadLocvar(S) ==
    LET Load(s, field, before) == IF field = "varname" THEN LoadString(s) ELSE LoadInt(s)
    IN  LoadFields(S, <<"varname", "startpc", "endpc">>, Load)

\* The name of the i-th upvalue: nothing compares i with their number.
LoadName(S, i, room) ==
    LET into(r) == IF i <= room THEN r ELSE Loaded(r.x, Failing(r.S, "outside"))
    IN  into(LoadString(S))

Minimum(x, y) == IF x < y THEN x ELSE y

\* Not fewer bytes than the stream has left, no block being longer than the
\* one before it.
Left(z) == Len(z.rest) + IF z.reader = <<>> THEN 0 ELSE Len(z.reader) * Len(Head(z.reader))

\* As many as was just loaded, each from the state the one before left.  Each
\* takes a byte at least, so that an error has come when no byte is left.
LoadMany(Load(_, _), n) ==
    LET more(one, r) == Loaded(Append(r.x, one.x), one.S)
        next(r, i) == IF r.S.err # "" THEN r ELSE more(Load(r.S, i), r)
        upto[i \in 0..n.x] == IF i = 0 THEN Loaded(<<>>, n.S) ELSE next(upto[i - 1], i)
    IN  upto[Minimum(n.x, Left(n.S.z) + 1)]

LoadConstants(S) == LoadMany(LAMBDA s, i : LoadConstant(s), LoadInt(S))
LoadUpvalues(S) == LoadMany(LAMBDA s, i : LoadUpvalue(s), LoadInt(S))
LoadNames(S, room) == LoadMany(LAMBDA s, i : LoadName(s, i, room), LoadInt(S))

\* The debug information: lines, variables, and the names of upvalues.
DebugFields == <<"lineinfo", "locvars", "names">>
LoadDebug(S, field, room) == CASE field = "lineinfo" -> LoadNumbers(LoadInt(S), SizeInt)
                               [] field = "locvars" -> LoadMany(LAMBDA s, i : LoadLocvar(s), LoadInt(S))
                               [] field = "names" -> LoadNames(S, room)

RECURSIVE LoadFunction(_, _)
LoadProtos(S, source) == LoadMany(LAMBDA s, i : LoadFunction(s, source), LoadInt(S))

FunctionFields == <<"linedefined", "lastlinedefined", "numparams", "is_vararg", "maxstacksize",
                    "code", "k", "upvalues", "p">> \o DebugFields

LoadFunction(S, psource) ==
    LET Load(s, field, source, before) ==
            CASE field \in {"linedefined", "lastlinedefined"} -> LoadInt(s)
              [] field \in {"numparams", "is_vararg", "maxstacksize"} -> LoadByte(s)
              [] field = "code" -> LoadCode(s)
              [] field = "k" -> LoadConstants(s)
              [] field = "upvalues" -> LoadUpvalues(s)
              [] field = "p" -> LoadProtos(s, source)
              [] OTHER -> LoadDebug(s, field, Len(before.upvalues))
        named(upvalues, names) == [i \in DOMAIN upvalues |->
            IF i \in DOMAIN names THEN [upvalues[i] EXCEPT !.name = names[i]] ELSE upvalues[i]]
        whole(f, source) ==
            Loaded([k \in DOMAIN f.x \ {"names"} |->
                       IF k = "upvalues" THEN named(f.x.upvalues, f.x.names) ELSE f.x[k]]
                       @@ ("source" :> source), f.S)
        rest(s, source) ==
            whole(LoadFields(s, FunctionFields, LAMBDA t, field, before : Load(t, field, source, before)),
                  source)
        begin(own) == rest(own.S, IF own.x = <<>> THEN psource ELSE own.x)  \* reuse parent's source
    IN  begin(LoadString(S))

Check(r, x, msg) == IF r.x = x THEN r.S ELSE Failing(r.S, msg)
checkliteral(S, s, msg) == Check(LoadVector(S, Len(s), 1), s, msg)

checkHeader(S) ==
    LET signature == checkliteral(S, Tail(LUA_SIGNATURE), "not a")
        version == Check(LoadByte(signature), LUAC_VERSION, "version mismatch in")
        format == Check(LoadByte(version), LUAC_FORMAT, "format mismatch in")
        sizes == FoldLeft(LAMBDA s, size : Check(LoadByte(s), size, "size mismatch in"),
                          checkliteral(format, LUAC_DATA, "corrupted"),
                          <<SizeInt, SizeT, SizeInstruction, SizeInteger, SizeNumber>>)
        int == Check(LoadInteger(sizes), LUAC_INT, "endianness mismatch in")
    IN  Check(LoadNumber(int), LUAC_NUM, "float format mismatch in")

\* The stream is behind the first character, by which its reader knew that
\* it is a chunk.  f is of no use when err is not empty.  luai_verifycode is
\* empty, and the number of upvalues only in an assertion.
luaU_undump(blocks) ==
    LET checked(n, f) == IF Len(f.x.upvalues) = n.x THEN f.S ELSE Failing(f.S, "assertion")
        made(n, f) == [err |-> checked(n, f).err, nupvalues |-> n.x, f |-> f.x]
        load(n) == made(n, LoadFunction(n.S, <<>>))
    IN  load(LoadByte(checkHeader([z |-> luaZ_init(blocks), err |-> ""])))

-----------------------------------------------------------------------------
\* The function without its debug information.
RECURSIVE Stripped(_)
Stripped(f) ==
    [f EXCEPT !.source = <<>>, !.lineinfo = <<>>, !.locvars = <<>>,
              !.upvalues = [k \in DOMAIN f.upvalues |-> [f.upvalues[k] EXCEPT !.name = <<>>]],
              !.p = [k \in DOMAIN f.p |-> Stripped(f.p[k])]]

\* The bytes as the reader may give them: all at once, in blocks of one or of
\* n bytes.
Blocks(bytes, n) ==
    [k \in 1..((Len(bytes) + n - 1) \div n) |->
        SubSeq(bytes, (k - 1) * n + 1, IF k * n <= Len(bytes) THEN k * n ELSE Len(bytes))]

Undumped(bytes, n) == luaU_undump(Blocks(Tail(bytes), n))

Unlimited == 1000000

\* A dumped function loads as it was, however its bytes are cut into blocks,
\* or as it was without its debug information (luaU_dump, luaU_undump).
LoadsBack(f) ==
    \A strip \in BOOLEAN :
        LET dumped == luaU_dump(f, strip, Unlimited)
        IN  \A n \in {1, 3, Len(dumped.out)} :
                Undumped(dumped.out, n)
                    = [err |-> "", nupvalues |-> Len(f.upvalues),
                       f |-> IF strip THEN Stripped(f) ELSE f]

\* A part of a chunk is not a function, a chunk of another machine or version
\* is refused, and what is behind a chunk is not read.  Of a chunk that was
\* changed behind its header nothing is promised: no line of the code looks for
\* more than what it reads next.  When the writer fails dump says so, and has written the
\* beginning of the chunk and nothing behind it.
RefusesDamage(f) ==
    LET chunk == luaU_dump(f, FALSE, Unlimited).out
        header == DumpHeader([out |-> <<>>, room |-> Unlimited, status |-> 0, strip |-> FALSE]).out
        Changed(k, x) == Undumped([chunk EXCEPT ![k] = <<x, 1>>], 2).err
    IN  /\ \A n \in 1..(Len(chunk) - 1) : Undumped(SubSeq(chunk, 1, n), 2).err = "truncated"
        /\ \A k \in 2..Len(header) : Changed(k, 0 - 2) \notin {"", "outside", "assertion"}
        /\ Undumped(chunk \o chunk, 2) = Undumped(chunk, 2)
        /\ \A room \in 0..12 :
               LET cut == luaU_dump(f, FALSE, room)
               IN  /\ cut.status # 0
                   /\ cut.out = SubSeq(chunk, 1, Len(cut.out)) /\ Len(cut.out) < Len(chunk)
=============================================================================
