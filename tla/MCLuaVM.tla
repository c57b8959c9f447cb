------------------------------- MODULE MCLuaVM -------------------------------
(***************************************************************************)
(* The programs for LuaVM: families in which every choice of the parts that *)
(* interact in the compiler is taken.  Left out are the three shapes that   *)
(* the README names, which this version of the compiler gets wrong.         *)
(***************************************************************************)
EXTENDS LuaVM, LuaParse

Node(op, kids, names, n) == [op |-> op, kids |-> kids, names |-> names, n |-> n]
Op(op, kids) == Node(op, kids, <<>>, 0)

\* Expressions.
L(n) == Node("int", <<>>, <<>>, n)
S(s) == Node("str", <<>>, <<s>>, 0)
V(x) == Node("name", <<>>, <<x>>, 0)
True == Op("true", <<>>)
False == Op("false", <<>>)
None == Op("nil", <<>>)
Dots == Op("dots", <<>>)
Paren(x) == Op("paren", <<x>>)
Dot(t, x) == Node("dot", <<t>>, <<x>>, 0)
Ix(t, k) == Op("index", <<t, k>>)
Ap(f, args) == Op("call", <<f>> \o args)
Fn(params, sts) == Node("func", sts, params, 0)
FnV(params, sts) == Node("func", sts, params, 1)
Item(x) == Op("item", <<x>>)
Named(k, x) == Node("named", <<x>>, <<k>>, 0)
Pair(k, x) == Op("pair", <<k, x>>)
Tab(fields) == Op("table", fields)
Bin(op, x, y) == Op(op, <<x, y>>)
Plus(x, y) == Bin("ADD", x, y)

\* Statements.
Let(xs, es) == Node("local", es, xs, 0)
LetFn(f, params, sts) == Node("localfunc", <<Fn(params, sts)>>, <<f>>, 0)
Set(xs, es) == Node("assign", xs \o es, <<>>, Len(xs))
Do(sts) == Op("do", sts)
Run1(x) == Op("call", <<x>>)
Say(args) == Run1(Ap(V("emit"), args))
Give(es) == Op("return", es)
Blk(sts) == Op("block", sts)
When(x, sts) == Op("if", <<x, Blk(sts)>>)
Either(x, sts, other) == Op("if", <<x, Blk(sts), Blk(other)>>)
Loop1(x, sts) == Op("while", <<x>> \o sts)
Until(sts, x) == Op("repeat", <<x>> \o sts)
For(x, es, sts) == Node("fornum", Append(es, Blk(sts)), <<x>>, 0)
EachIn(xs, es, sts) == Node("forlist", Append(es, Blk(sts)), xs, 0)
Goto(l) == Node("goto", <<>>, <<l>>, 0)
Label(l) == Node("label", <<>>, <<l>>, 0)
Break == Op("break", <<>>)

\* G of each of s.
Each(s, G(_)) == [i \in DOMAIN s |-> G(s[i])]
\* The programs G(a, b) for a in s and b in t.
Across(s, t, G(_, _)) ==
  [i \in 1..Len(s) * Len(t) |-> G(s[(i - 1) \div Len(t) + 1], t[((i - 1) % Len(t)) + 1])]

-----------------------------------------------------------------------------
(* Conditions: values and jumps in every place that takes an expression.   *)

\* f says what it is given and returns it.
Tell == LetFn("f", <<"x">>, <<Say(<<V("x")>>), Give(<<V("x")>>)>>)
Atoms == <<V("a"), Ap(V("f"), <<V("b")>>), None, L(7),
           Bin("NE", V("a"), Ap(V("f"), <<L(2)>>)), Ix(V("t"), L(1))>>
Logic(x, y) == <<Bin("AND", x, y), Bin("OR", x, y), Op("NOT", <<Bin("AND", x, y)>>),
                 Bin("OR", Op("NOT", <<x>>), y)>>
Depth1 == FlattenSeq(Across(Atoms, Atoms, Logic))
Depth2 == Each(SubSeq(Depth1, 1, 48), LAMBDA x : Bin("AND", Bin("OR", V("a"), x), V("b")))
          \o Each(SubSeq(Depth1, 49, 96), LAMBDA x : Bin("OR", Bin("AND", x, V("b")), Op("NOT", <<Op("NOT", <<x>>)>>)))
          \o Each(SubSeq(Depth1, 97, 144), LAMBDA x : Bin("EQ", x, Bin("GE", Paren(Bin("OR", x, L(4))), V("b"))))

Context(i, x) ==
  CASE i = 1 -> <<Let(<<"r">>, <<x>>), Give(<<V("r"), V("a")>>)>>
    [] i = 2 -> <<Either(x, <<Say(<<L(1)>>)>>, <<Say(<<L(2)>>)>>), Give(<<Op("NOT", <<x>>)>>)>>
    [] i = 3 -> <<Loop1(x, <<Say(<<L(1)>>), Set(<<V("a"), V("b"), Ix(V("t"), L(1))>>, <<None>>), When(x, <<Break>>)>>)>>
    [] i = 4 -> <<Until(<<Let(<<"b">>, <<V("a")>>), Set(<<V("g")>>, <<Fn(<<>>, <<Give(<<V("b")>>)>>)>>),
                          When(V("done"), <<Break>>), Set(<<V("done")>>, <<True>>)>>, x),
                  Give(<<Ap(V("g"), <<>>)>>)>>
    [] i = 5 -> <<Set(<<Ix(V("t"), V("b")), V("a")>>, <<x, Ap(V("f"), <<x, L(1)>>)>>), Give(<<Ix(V("t"), L(1)), V("a")>>)>>
    [] OTHER -> <<Give(<<Plus(Op("LEN", <<V("t")>>), Ap(V("f"), <<Paren(Bin("AND", x, L(2)))>>)), x>>)>>

Condition(x, i) ==
  <<Tell, Let(<<"a", "b", "t">>, <<False, L(1), Tab(<<Item(L(5)), Item(None)>>)>>)>> \o Context(i, x)

Conditions == Across(Depth1, <<1, 2, 3, 4, 5, 6>>, Condition) \o Across(Depth2, <<2>>, Condition)

-----------------------------------------------------------------------------
(* Variables caught by closures, and the ways to leave their blocks.       *)

\* The closure catches the loop's variable, the block's, one outside, or all.
Caught == <<<<"i">>, <<"x">>, <<"o">>, <<"x", "o">>, <<"i", "x">>>>
Leave(how) ==
  CASE how = "break" -> <<When(Bin("EQ", V("i"), L(2)), <<Break>>)>>
    [] how = "continue" -> <<When(Bin("EQ", V("i"), L(1)), <<Say(<<L(0)>>), Goto("next")>>)>>
    [] how = "goto" -> <<When(Bin("GT", V("i"), L(1)), <<Goto("out")>>)>>
    [] how = "return" -> <<When(Bin("EQ", V("i"), L(2)), <<Give(<<V("x")>>)>>)>>
    [] how = "error" -> <<When(Bin("EQ", V("i"), L(2)), <<Run1(Ap(V("error"), <<V("x")>>))>>)>>
    [] how = "tail" -> <<When(Bin("EQ", V("i"), L(2)), <<Give(<<Ap(Ix(V("fs"), L(1)), <<>>)>>)>>)>>
    [] OTHER -> <<>>
Catch(names) ==
  Set(<<Ix(V("fs"), Plus(Op("LEN", <<V("fs")>>), L(1)))>>,
      <<Fn(<<>>, Append(Each(names, LAMBDA n : Set(<<V(n)>>, <<Plus(V(n), L(1))>>)),
                        Give(Each(names, LAMBDA n : V(n)))))>>)
Body1(names, how) ==
  <<Do(<<Let(<<"x">>, <<Plus(V("i"), L(10))>>), Catch(names)>> \o Leave(how) \o <<Say(<<V("x"), V("o")>>)>>),
    Label("next")>>
Counted(sts) == <<Let(<<"i">>, <<Plus(V("n"), L(1))>>), Set(<<V("n")>>, <<V("i")>>)>> \o sts
Repeated(loop, sts) ==
  CASE loop = "for" -> For("i", <<L(1), L(3)>>, sts)
    [] loop = "down" -> For("i", <<L(3), L(1), Op("UNM", <<L(1)>>)>>, sts)
    [] loop = "each" -> EachIn(<<"i", "v">>, <<Ap(V("ipairs"), <<Tab(<<Item(L(4)), Item(L(6))>>)>>)>>, sts)
    [] loop = "while" -> Loop1(Bin("LT", V("n"), L(3)), <<Do(Counted(sts))>>)
    [] loop = "until" -> Until(Counted(<<Do(sts)>>), Bin("GE", V("i"), L(3)))
    [] OTHER -> Do(<<Label("again")>> \o Counted(<<Do(sts), When(Bin("LT", V("i"), L(3)), <<Goto("again")>>)>>))

Loops == <<"for", "down", "each", "while", "until", "goto">>
Exits == <<"none", "break", "continue", "goto", "return", "error", "tail">>
CallAll == <<Say(<<Ap(Ix(V("fs"), L(1)), <<>>)>>), Say(<<Ap(Ix(V("fs"), L(1)), <<>>)>>),
             When(Ix(V("fs"), L(2)), <<Say(<<Ap(Ix(V("fs"), L(2)), <<>>)>>)>>), Give(<<V("o")>>)>>
Capture(names, how, loop) ==
  <<Let(<<"fs", "o">>, <<Tab(<<>>), L(20)>>), Set(<<V("n")>>, <<L(0)>>),
    Say(<<Ap(V("pcall"), <<Fn(<<>>, <<Repeated(loop, Body1(names, how)), Say(<<S("end")>>), Label("out")>>)>>)>>)>>
  \o CallAll
\* Leaving a loop by a goto jumps over no local, by a break needs a loop.
Captures == FlattenSeq(Each(Loops, LAMBDA loop : Across(Caught, Exits, LAMBDA c, e : Capture(c, e, loop))))

-----------------------------------------------------------------------------
(* Assignments, declarations, calls and their values.                      *)

Targets1 == <<V("a"), Ix(V("t"), V("a")), Dot(V("t"), "x"), V("glob"), V("t"), Ix(Dot(V("t"), "y"), L(1))>>
Values == <<<<L(2)>>, <<V("t"), V("a")>>, <<Ap(V("two"), <<>>)>>, <<L(5), Ap(V("two"), <<>>)>>,
            <<Dots>>, <<V("a"), Paren(Dots), L(6)>>, <<Plus(V("a"), L(1)), Ap(V("two"), <<>>), None, Dots>>>>
Shown == <<V("a"), V("glob"), Ap(V("pcall"), <<Fn(<<>>, <<Give(<<Ix(V("t"), L(1)), Ix(V("t"), L(2)), Dot(V("t"), "x")>>)>>)>>)>>
World == <<Let(<<"a", "t">>, <<L(1), Tab(<<Item(L(7)), Named("x", L(8)), Named("y", Tab(<<Item(L(9))>>))>>)>>),
           Node("localfunc", <<Fn(<<>>, <<Give(<<L(11), L(12)>>)>>)>>, <<"two">>, 0)>>
Assigned(up, xs, es) ==
  LET st == Set(xs, es)
  IN  World \o (IF up THEN <<Run1(Ap(FnV(<<>>, <<st>>), <<L(21), L(22)>>))>> ELSE <<st>>) \o <<Give(Shown)>>
Pairs1 == FlattenSeq(<<Across(Targets1, Targets1, LAMBDA x, y : <<x, y>>),
                       Each(Targets1, LAMBDA x : <<x>>),
                       Each(Targets1, LAMBDA x : <<x, V("a"), V("t")>>)>>)
Assignments == Across(Pairs1, Values, LAMBDA xs, es : Assigned(FALSE, xs, es))
               \o Across(Pairs1, SubSeq(Values, 5, 7), LAMBDA xs, es : Assigned(TRUE, xs, es))

Declared(n, es) ==
  LET xs == SubSeq(<<"p", "q", "r">>, 1, n)
  IN  World \o <<Let(xs, es), Let(<<"z", "w">>, <<>>), Let(<<"v">>, <<None>>), Give(Each(xs, LAMBDA x : V(x)) \o <<V("z"), V("v")>>)>>
Declarations == Across(<<1, 2, 3>>, Values, Declared)

\* Callees with their parameters, and the ways to use what they return.
Callees == <<Fn(<<>>, <<>>), Fn(<<"x">>, <<Give(<<V("x")>>)>>), Fn(<<"x", "y">>, <<Give(<<V("y"), V("x"), L(3)>>)>>),
             FnV(<<>>, <<Give(<<Dots>>)>>), FnV(<<"x">>, <<Let(<<"y", "z">>, <<Dots>>), Give(<<V("y"), Ap(V("two"), <<Dots>>)>>)>>),
             FnV(<<"x", "y">>, <<Give(<<Ap(V("two"), <<Dots>>)>>)>>), V("emit"), L(1)>>
Arguments == <<<<>>, <<L(1)>>, <<L(1), L(2), L(4)>>, <<Ap(V("two"), <<>>)>>, <<L(1), Dots>>, <<Dots, Ap(V("two"), <<Dots>>)>>>>
Used(c) ==
  <<<<Run1(c), Give(<<V("a")>>)>>, <<Let(<<"r", "s">>, <<c>>), Give(<<V("r"), V("s")>>)>>, <<Give(<<c>>)>>,
    <<Give(<<Paren(c), c>>)>>, <<Let(<<"t">>, <<Tab(<<Item(c), Named("n", c), Item(c)>>)>>), Give(<<Op("LEN", <<V("t")>>), Ix(V("t"), L(2))>>)>>,
    <<When(c, <<Give(<<Op("NOT", <<c>>)>>)>>)>>, <<Give(<<Plus(c, c)>>)>>>>
Called(f, args) ==
  LET c == Ap(V("f"), args)
  IN  Each(Used(c), LAMBDA u : World \o <<Let(<<"f">>, <<f>>), Give(<<Ap(FnV(<<>>, u), <<L(31), L(32)>>)>>)>>)
Calls == FlattenSeq(Across(Callees, Arguments, Called))

\* Constructors, flushed two items at a time.
Field1 == <<Item(L(1)), Item(Ap(V("two"), <<>>)), Item(None), Named("x", V("a")), Pair(L(2), Ap(V("two"), <<>>)), Item(Dots)>>
Constructors == FlattenSeq(<<Across(Field1, Field1, LAMBDA x, y : <<x, y>>),
                             Across(Field1, Field1, LAMBDA x, y : <<Item(L(4)), x, y, x>>),
                             Across(Field1, Field1, LAMBDA x, y : <<Item(V("a")), x, Item(L(5)), Item(S("k")), y>>)>>)
Constructed(fields) ==
  World \o <<Let(<<"c">>, <<Tab(fields)>>),
             Give(Each(<<L(1), L(2), L(3), L(4), L(5), L(6), S("x")>>, LAMBDA k : Ix(V("c"), k)))>>
Tables == Each(Constructors, Constructed)

-----------------------------------------------------------------------------
(* Gotos and labels: legal or not, forwards and backwards.                 *)

Jumped(from, to) ==
  LET at(i) == (IF to = i THEN <<Label("l")>> ELSE <<>>)
               \o (IF from = i THEN <<When(Bin("LT", V("n"), L(2)), <<Set(<<V("n")>>, <<Plus(V("n"), L(1))>>), Goto("l")>>)>> ELSE <<>>)
      g(x) == Set(<<V("g")>>, <<Fn(<<>>, <<Set(<<V(x)>>, <<Plus(V(x), L(1))>>), Give(<<V(x)>>)>>)>>)
  IN  <<Set(<<V("n")>>, <<L(0)>>)>> \o at(1) \o <<Let(<<"a">>, <<Plus(V("n"), L(1))>>)>> \o at(2)
      \o <<Do(at(3) \o <<Let(<<"b">>, <<V("a")>>), g("b")>> \o at(4) \o <<Say(<<V("b"), Ap(V("g"), <<>>)>>)>> \o at(5))>>
      \o at(6) \o <<Until(<<Let(<<"c">>, <<V("a")>>)>> \o at(7) \o <<g("c")>> \o at(8), Bin("OR", V("c"), Ap(V("g"), <<>>)))>>
      \o <<Say(<<Ap(V("g"), <<>>)>>)>> \o at(9) \o <<Let(<<"d">>, <<V("a")>>), Say(<<V("d")>>)>> \o at(10)
Places1 == <<1, 2, 3, 4, 5, 6, 7, 8, 9, 10>>
Gotos == Across(Places1, Places1, Jumped)
         \o Across(Places1, Places1, LAMBDA i, j : <<When(True, <<Goto("l")>>)>> \o Jumped(0, i) \o Jumped(j, 0))

-----------------------------------------------------------------------------
(* Loops by number, methods, errors, operators and concatenations.         *)

Bounds1 == <<<<L(1), L(2)>>, <<L(2), L(1)>>, <<L(1), L(1), L(2)>>, <<L(3), L(0), Op("UNM", <<L(2)>>)>>, <<L(1), None>>, <<S("x"), L(2)>>>>
Numbers == Each(Bounds1, LAMBDA es : <<For("i", es, <<Say(<<V("i")>>), Set(<<V("i")>>, <<L(9)>>)>>), Give(<<V("i")>>)>>)

Faults == <<Run1(Ap(V("nofn"), <<>>)), Give(<<Dot(V("nil1"), "x")>>), Set(<<Dot(V("nil1"), "x")>>, <<L(1)>>), Give(<<Plus(L(1), V("nil1"))>>),
            Give(<<Bin("LT", L(1), Tab(<<>>))>>), Set(<<Ix(V("t"), None)>>, <<L(1)>>), Give(<<Bin("IDIV", L(1), L(0))>>),
            Give(<<Bin("CONCAT", S("a"), None)>>), Run1(Ap(V("error"), <<L(3)>>)), Give(<<Op("LEN", <<L(1)>>)>>), Give(<<Op("method", <<L(1)>>)>>)>>
Faulty(st, i) ==
  LET f == Fn(<<"t">>, <<Let(<<"x">>, <<V("t")>>), Set(<<V("g")>>, <<Fn(<<>>, <<Give(<<V("x")>>)>>)>>),
                          [st EXCEPT !.kids = [k \in DOMAIN @ |-> IF @[k].op = "method" THEN [@[k] EXCEPT !.names = <<"m">>] ELSE @[k]]]>>)
  IN  CASE i = 1 -> <<Say(<<Ap(V("pcall"), <<f, Tab(<<>>)>>)>>), Give(<<Op("LEN", <<Ap(V("g"), <<>>)>>)>>)>>
        [] i = 2 -> <<Let(<<"y">>, <<L(4)>>), Give(<<Ap(V("pcall"), <<Fn(<<"a">>, <<Let(<<"z">>, <<V("a")>>),
                        Say(<<Ap(V("pcall"), <<f, Tab(<<>>)>>), V("z")>>), Run1(Ap(f, <<Tab(<<Item(L(1))>>)>>))>>), L(5)>>), V("y")>>)>>
        [] i = 3 -> <<Give(<<Ap(V("pcall"), <<V("pcall"), f, Tab(<<>>)>>)>>)>>
        [] OTHER -> <<Say(<<L(1)>>), Run1(Ap(f, <<Tab(<<>>)>>)), Say(<<L(2)>>)>>
Errors == Across(Faults, <<1, 2, 3, 4>>, Faulty)

Methods == <<
  <<Let(<<"o">>, <<Tab(<<Named("n", L(1))>>)>>),
    Node("function", <<V("o"), FnV(<<"k">>, <<Set(<<Dot(V("self"), "n")>>, <<Plus(Dot(V("self"), "n"), V("k"))>>), Give(<<V("self")>>)>>)>>, <<"add">>, 0),
    Say(<<Dot(Node("method", <<Node("method", <<V("o"), L(2)>>, <<"add">>, 0), L(3), L(4)>>, <<"add">>, 0), "n")>>),
    Node("function", <<Dot(V("o"), "twice"), Fn(<<"f", "x">>, <<Give(<<Ap(V("f"), <<Ap(V("f"), <<V("x")>>)>>)>>)>>)>>, <<>>, 0),
    Give(<<Ap(Dot(V("o"), "twice"), <<Fn(<<"x">>, <<Give(<<Plus(V("x"), Dot(V("o"), "n"))>>)>>), L(1)>>)>>)>>,
  <<LetFn("fact", <<"n">>, <<When(Bin("LE", V("n"), L(1)), <<Give(<<L(1)>>)>>), Give(<<Bin("MUL", V("n"), Ap(V("fact"), <<Bin("SUB", V("n"), L(1))>>))>>)>>),
    LetFn("sum", <<"n", "acc">>, <<When(Bin("EQ", V("n"), L(0)), <<Give(<<V("acc")>>)>>),
                                   Give(<<Ap(V("sum"), <<Bin("SUB", V("n"), L(1)), Plus(V("acc"), V("n"))>>)>>)>>),
    Give(<<Ap(V("fact"), <<L(3)>>), Ap(V("sum"), <<L(2), L(0)>>)>>)>>,
  <<LetFn("counter", <<"n">>, <<Give(<<Fn(<<>>, <<Give(<<Fn(<<>>, <<Set(<<V("n")>>, <<Plus(V("n"), L(1))>>), Give(<<V("n")>>)>>)>>)>>)>>)>>),
    Let(<<"c", "d">>, <<Ap(V("counter"), <<L(1)>>), Ap(V("counter"), <<L(5)>>)>>),
    Let(<<"x", "y">>, <<Ap(V("c"), <<>>), Ap(V("c"), <<>>)>>),
    Give(<<Ap(V("x"), <<>>), Ap(V("y"), <<>>), Ap(Ap(V("d"), <<>>), <<>>)>>)>>,
  <<EachIn(<<"v">>, <<Fn(<<"s", "c">>, <<When(Bin("LT", V("c"), V("s")), <<Give(<<Plus(V("c"), L(1))>>)>>)>>), L(2), L(0)>>, <<Say(<<V("v")>>)>>)>>,
  <<Let(<<"f">>, <<Fn(<<"s", "c">>, <<When(Op("NOT", <<V("c")>>), <<Give(<<V("s")>>)>>)>>)>>), EachIn(<<"v">>, <<V("f"), L(2)>>, <<>>)>>,
  <<EachIn(<<"i", "v">>, <<Ap(V("ipairs"), <<Tab(<<Item(L(7)), Item(L(8))>>)>>)>>, <<Set(<<V("i"), V("v")>>, <<V("v"), V("i")>>), Say(<<V("i"), V("v")>>)>>)>>,
  <<Goto("nowhere")>>, <<Break>>, <<Set(<<V("f")>>, <<Fn(<<>>, <<Give(<<Dots>>)>>)>>)>>, <<Label("l"), Label("l")>>,
  <<Label("l"), Do(<<Label("l")>>)>>, <<>>>>

Operands == <<L(7), L(0), Op("UNM", <<L(3)>>), V("a"), S("s")>>
Operator(x, y) ==
  Each(<<"SUB", "MUL", "MOD", "IDIV", "LT", "GE", "EQ">>, LAMBDA op : World \o <<Give(<<Bin(op, x, Bin("ADD", y, L(2)))>>)>>)
  \o <<World \o <<Give(<<Bin("CONCAT", x, Bin("CONCAT", y, Bin("CONCAT", S("z"), x)))>>)>>,
       World \o <<Give(<<Op("UNM", <<Paren(x)>>), Op("NOT", <<y>>)>>)>>>>
Operators == FlattenSeq(Across(Operands, Operands, Operator))

Texts == Conditions \o Captures \o Assignments \o Declarations \o Calls \o Tables
              \o Gotos \o Numbers \o Errors \o Methods \o Operators

MCPrograms ==
    LET both(p) == [result |-> Parse(p),
                    means |-> IF LegalProgram(p) THEN Meaning(p)
                              ELSE [x |-> "rejected", v |-> <<>>, out |-> <<>>]]
    IN  Each(Texts, both)
=============================================================================
