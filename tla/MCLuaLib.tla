------------------------------ MODULE MCLuaLib -----------------------------
(* Small questions to the libraries: all of these kinds and sizes.          *)
EXTENDS LuaLib

UpTo(S, n) == UNION {[1..k -> S] : k \in 0..n}

MCArrays == UpTo(1..3, 5) \cup {<<6, 5, 4, 3, 2, 1>>, <<1, 2, 3, 4, 5, 6>>, <<2, 1, 2, 1, 2, 1>>,
                                <<3, 1, 2, 3, 1, 2>>, <<1, 1, 1, 1, 1, 1>>}

-----------------------------------------------------------------------------
(* Patterns over "a" and "b"; the other characters are "1" and "(".         *)
A == 97
B == 98
Characters == {A, B, 49, 40}
MCTexts == UpTo({A, B}, 3) \cup {<<A, A, B, B>>, <<A, B, A, B>>, <<49, 40, A>>}

Lit(c) == Str!One(<<c>>, {c}, <<>>)
Dots(rep) == Str!One(<<46>>, Characters, rep)
Opens == Str!Special("open", <<40>>, 0)
Closes == Str!Special("close", <<41>>, 0)
Here == Str!Special("here", <<40, 41>>, 0)
Back(n) == Str!Special("back", <<37, 48 + n>>, n)
AtEnd == Str!Special("end", <<36>>, 0)
Front(text, is) == [Str!Special("frontier", <<37, 102>> \o text, 0) EXCEPT !.is = is]

Classes == {Lit(A), Lit(B), Dots(<<>>), Dots(<<42>>), Dots(<<45>>),
            Str!One(<<A>>, {A}, <<42>>), Str!One(<<B>>, {B}, <<43>>),
            Str!One(<<A>>, {A}, <<63>>), Str!One(<<B>>, {B}, <<45>>),
            Str!One(<<91, A, 45, B, 93>>, {A, B}, <<63>>),              \* [a-b]?
            Str!One(<<91, 94, A, 93>>, {0, B, 49, 40}, <<42>>),   \* [^a]*
            Str!One(<<37, 97>>, {A, B}, <<>>),                          \* %a
            Str!One(<<91, 37, 76, B, 93>>, {0, B, 49, 40}, <<43>>)}     \* [%Lb]+
Specials == {Opens, Closes, Here, Back(1), Back(2), AtEnd,
             Str!Special("balance", <<37, 98, A, B>>, 0),
             Front(<<91, A, 93>>, {A}), Front(<<91, 94, A, 93>>, {0, B, 49, 40})}
Few == {Opens, Closes, Here, Back(1), Lit(A), Str!One(<<A>>, {A}, <<42>>),
        Str!One(<<B>>, {B}, <<45>>), Dots(<<63>>)}
MCPatterns == {pat \in UpTo(Classes \cup Specials, 2) \cup [1..3 -> Few \cup {AtEnd}] \cup [1..4 -> Few] :
                  Str!WellFormed(pat)}

-----------------------------------------------------------------------------
(* Functions with one of their parts varied; the names have all the lengths *)
(* around the escape and the longest short string.                          *)
Names == {<<>>} \cup {<<s>> : s \in {<<>>, <<1>>, <<1, 2>>, <<1, 2, 3>>, <<1, 2, 3, 1>>}}
Constant(t, v) == [t |-> t, v |-> v]
ConstantsPool == {Constant(Chunk!LUA_TNIL, <<>>), Constant(Chunk!LUA_TBOOLEAN, <<1>>),
                  Constant(Chunk!LUA_TNUMFLT, <<7>>), Constant(Chunk!LUA_TNUMINT, <<7>>)}
                 \cup {Chunk!StringConstant(name[1]) : name \in Names \ {<<>>}}

Plain(source) ==
    [source |-> source, linedefined |-> 1, lastlinedefined |-> 3, numparams |-> 1,
     is_vararg |-> 0, maxstacksize |-> 2, code |-> <<11, 12>>, k |-> <<>>,
     upvalues |-> <<>>, p |-> <<>>, lineinfo |-> <<1, 2>>, locvars |-> <<>>]
Upvalue(idx, name) == [instack |-> 1, idx |-> idx, name |-> name]
Locvar(name) == [varname |-> name, startpc |-> 0, endpc |-> 2]
Main == <<<<5, 6>>>>
Leaves(source) ==
    {[Plain(source) EXCEPT !.k = k] : k \in UpTo(ConstantsPool, 2)}
      \cup {[Plain(source) EXCEPT !.upvalues = <<Upvalue(0, name), Upvalue(1, other)>>,
                                  !.locvars = <<Locvar(other)>>, !.code = <<>>] :
               name, other \in Names}
MCFunctions ==
    {Plain(source) : source \in Names} \cup Leaves(<<>>) \cup Leaves(Main)
      \cup {[Plain(Main) EXCEPT !.p = <<f, [Plain(Main) EXCEPT !.p = <<g>>]>>] :
               f \in Leaves(Main), g \in {Plain(Main), Plain(<<<<9>>>>)}}

-----------------------------------------------------------------------------
Letters == {"b", "B", "h", "j", "J", "T", "n", "f", "z", "x", "<", ">"}
Sized == {<<"i", 1>>, <<"i", 3>>, <<"I", 3>>, <<"I", 4>>, <<"s", 1>>, <<"s", -1>>, <<"c", 2>>}
Options == {<<l, -1>> : l \in Letters} \cup Sized
MCFormats == UpTo(Options, 2)
               \cup {<<<<"!", m>>, o, q>> : m \in {2, 4}, o \in Options, q \in Options}
               \cup {<<<<"!", -1>>, o, <<"X", -1>>, q>> : o, q \in {<<"b", -1>>, <<"j", -1>>, <<"s", 1>>, <<"I", 4>>}}
               \cup {<<<<"i", 5>>>>, <<<<"c", -1>>>>, <<<<"X", -1>>>>, <<<<"?", -1>>>> }

Numbers == {-8, -3, -2, -1, 0, 1, 2, 3, 4, 7}
Contents == {<<>>, <<1>>, <<2, 1>>, <<0, 3>>, <<1, 2, 3, 2>>}
\* The arguments that the options of a format take.
ValuesFor(o) ==
    CASE o[1] \in {"z", "s", "c"} -> {<<v>> : v \in Contents}
      [] o[1] \in {"n", "f"} -> {<<<<0>>>>, <<<<3>>>>}
      [] o[1] \in {"x", "<", ">", "!", "X", "?"} -> {<<>>}
      [] OTHER -> {<<<<n>>>> : n \in Numbers}
RECURSIVE MCArguments(_)
MCArguments(fmt) ==
    IF fmt = <<>> THEN {<<>>}
    ELSE IF fmt[1][1] = "X" /\ Len(fmt) > 1 THEN MCArguments(Tail(Tail(fmt)))
    ELSE {v \o rest : v \in ValuesFor(fmt[1]), rest \in MCArguments(Tail(fmt))}
=============================================================================
