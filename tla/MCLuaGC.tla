------------------------------ MODULE MCLuaGC ------------------------------
(***************************************************************************)
(* Heaps of three objects besides the main thread for LuaGC.               *)
(***************************************************************************)
EXTENDS LuaGC, TLC

Of3(a, b, c) == ("main" :> "thread") @@ ("a" :> a) @@ ("b" :> b) @@ ("c" :> c)
None == [x \in {} |-> Nil]
Node(k, v) == [key |-> k, val |-> v, dead |-> FALSE]
Bare(k, st) == [kind |-> k, stack |-> st, array |-> None, node |-> None, mode |-> None,
                user |-> None, final |-> {}, upval |-> None, cell |-> None,
                open |-> {}, touched |-> {}]
Heap(k, st, ar, no, mo, us, fi) ==
    [Bare(k, st) EXCEPT !.array = ar, !.node = no, !.mode = mo, !.user = us, !.final = fi]
WithUpvalues(k, st, up, ce, op, to) ==
    [Bare(k, st) EXCEPT !.upval = up, !.cell = ce, !.open = op, !.touched = to]

\* Two objects to finalize, the second of which refers to a third.
TwoToFinalize ==
    Heap(Of3("udata", "udata", "table"), None, None, None, None, "b" :> "c", {"a", "b"})

MCWorlds == {
    \* tables: one on the stack leads to the others
    Heap(Of3("table", "table", "udata"), "main" :> <<"a", Nil>>,
         "a" :> "b", "b" :> Node("a", "c"), None, None, {"c"}),
    \* an ephemeron whose key refers to its value, the value having a finalizer
    Heap(Of3("table", "udata", "udata"), "main" :> <<"a", "b">>,
         None, "a" :> Node("b", "c"), "a" :> "k", None, {"c"}),
    \* weak values, one kept by an object to be finalized
    Heap(Of3("table", "udata", "udata"), "main" :> <<"a", Nil>>,
         "a" :> "b", "a" :> Node("c", "b"), "a" :> "v", "b" :> "c", {"b"}),
    TwoToFinalize,
    \* closures of a coroutine's variable and the prototype's cache
    Bare(Of3("proto", "lcl", "thread"), "main" :> <<"a", "c">>),
    Bare(Of3("proto", "lcl", "table"), "main" :> <<"a", "c">>),
    \* two closures that share a variable of a dead coroutine, and a third object
    \* that only the variable refers to
    WithUpvalues(Of3("lcl", "lcl", "thread"), "main" :> <<"a", "b">> @@ "c" :> <<"b", Nil>>,
             "a" :> <<"c", 1>> @@ "b" :> <<"c", 1>>, None, {<<"c", 1>>}, {<<"c", 1>>}),
    \* two closures that share a closed variable
    WithUpvalues(Of3("lcl", "lcl", "table"), "main" :> <<"a", "b">>,
             "a" :> <<"a", 0>> @@ "b" :> <<"a", 0>>, "a" :> "c", {}, {}),
    \* a dead coroutine with a variable whose closures are gone
    WithUpvalues(Of3("table", "lcl", "thread"), "c" :> <<"a", Nil>>, None, None,
             {<<"c", 1>>}, {<<"c", 1>>}),
    \* a coroutine with an open upvalue that only an object to be finalized knows
    [WithUpvalues(Of3("udata", "lcl", "thread"), "c" :> <<"a", "b">>, "b" :> <<"c", 1>>, None,
              {<<"c", 1>>}, {<<"c", 1>>}) EXCEPT !.user = "a" :> "c", !.final = {"a"}]}
=============================================================================
