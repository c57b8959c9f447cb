------------------------------ MODULE LuaMeaning -----------------------------
(***************************************************************************)
(* What a Lua program means, told on its syntax alone: variables are cells, *)
(* a block is run statement by statement, a call binds its parameters.  No  *)
(* register, jump or stack occurs here.  LuaVM runs the code the compiler   *)
(* makes of the same program, and the two must tell the same.               *)
(*                                                                         *)
(* The store s: cells, the values of the variables; tabs, the tables;       *)
(* fns, the functions with the environment they were created in; out, what  *)
(* the program has said.  An environment maps a name to its cell.           *)
(* A result is [s, v, x]: x is "ok" with values v, "error" with the error   *)
(* value, and for statements also "break", "goto" and "return".             *)
(***************************************************************************)
EXTENDS LuaCode, SequencesExt

Ok(s, v) == [s |-> s, v |-> v, x |-> "ok"]
Raise(s, v) == [s |-> s, v |-> <<v>>, x |-> "error"]
Then(r, F(_)) == IF r.x = "ok" THEN F(r) ELSE r

Message == <<"message", 0>>          \* an error message: a string of its own

First(v) == IF v = <<>> THEN Nil ELSE v[1]
Truth(v) == v \notin {Nil, Bool(FALSE)}

\* n values of a list, completed with nil.
Adjust(v, n) == [i \in 1..n |-> IF i <= Len(v) THEN v[i] ELSE Nil]

\* A table as a function on its keys; the length of a sequence.
Get(t, k) == IF k \in DOMAIN t THEN t[k] ELSE Nil
Put(t, k, v) == IF v = Nil THEN [j \in DOMAIN t \ {k} |-> t[j]] ELSE (k :> v) @@ t
Border(t) == CHOOSE n \in 0..Cardinality(DOMAIN t) :
               (\A i \in 1..n : Num(i) \in DOMAIN t) /\ Num(n + 1) \notin DOMAIN t

\* What an observer can tell of a value: which table or function it is stays hidden.
Show(v) == IF v[1] \in {"tab", "fn"} THEN <<v[1], 0>> ELSE v
ShowAll(vs) == [i \in DOMAIN vs |-> Show(vs[i])]

Host(name) == <<"host", name>>
HostNames == {"emit", "error", "pcall", "ipairs"}
Globals == [k \in {Str(n) : n \in HostNames} |-> Host(k[2])]

-----------------------------------------------------------------------------
(* Operators.                                                              *)

IsNum(v) == v[1] = "int"
IsText(v) == v[1] \in {"int", "str"}
Text(v) == IF IsNum(v) THEN ToString(v[2]) ELSE v[2]

Apply2(op, x, y) ==    \* the value in a singleton, or {} when the operation fails
  CASE op = "EQ" -> {Bool(x = y)}
    [] op = "NE" -> {Bool(x # y)}
    [] op = "CONCAT" -> IF IsText(x) /\ IsText(y) THEN {Str(Text(x) \o Text(y))} ELSE {}
    [] ~(IsNum(x) /\ IsNum(y)) -> {}
    [] op = "LT" -> {Bool(x[2] < y[2])}
    [] op = "LE" -> {Bool(x[2] <= y[2])}
    [] op = "GT" -> {Bool(x[2] > y[2])}
    [] op = "GE" -> {Bool(x[2] >= y[2])}
    [] OTHER -> IF Divisible(op, y[2]) THEN {Num(Arith(op, x[2], y[2]))} ELSE {}

Apply1(op, x, tabs) ==
  CASE op = "NOT" -> {Bool(~Truth(x))}
    [] op = "UNM" -> IF IsNum(x) THEN {Num(-x[2])} ELSE {}
    [] x[1] = "tab" -> {Num(Border(tabs[x[2]]))}
    [] x[1] = "str" -> {Num(Len(x[2]))}
    [] OTHER -> {}

Outcome(s, vals) == IF vals = {} THEN Raise(s, Message) ELSE Ok(s, <<CHOOSE v \in vals : TRUE>>)

Index(s, t, k) == IF t[1] = "tab" THEN Ok(s, <<Get(s.tabs[t[2]], k)>>) ELSE Raise(s, Message)
Assign(s, t, k, v) ==
  IF t[1] = "tab" /\ k # Nil THEN Ok([s EXCEPT !.tabs[t[2]] = Put(@, k, v)], <<>>)
  ELSE Raise(s, Message)

NewCells(s, vals) == [s EXCEPT !.cells = @ \o vals]
Bind(env, names, n) == [x \in {names[i] : i \in DOMAIN names} |->
                          n + CHOOSE i \in DOMAIN names : names[i] = x
                                /\ \A j \in i + 1..Len(names) : names[j] # x] @@ env

-----------------------------------------------------------------------------
(* Expressions and calls.                                                  *)

RECURSIVE Eval(_, _, _, _), EvalAll(_, _, _, _), Items(_, _, _, _, _, _, _), Call(_, _, _),
          Run(_, _, _, _, _)

One(x, env, va, s) == Then(Eval(x, env, va, s), LAMBDA r : Ok(r.s, <<First(r.v)>>))

\* The values of a list: one of each expression, all of the last.
EvalAll(xs, env, va, s) ==
  IF xs = <<>> THEN Ok(s, <<>>)
  ELSE IF Len(xs) = 1 THEN Eval(xs[1], env, va, s)
  ELSE Then(One(xs[1], env, va, s), LAMBDA a :
         Then(EvalAll(Tail(xs), env, va, a.s), LAMBDA r : Ok(r.s, a.v \o r.v)))

\* The fields of constructor t from i on, n positional ones before them.
Items(xs, i, n, t, env, va, s) ==
  IF i > Len(xs) THEN Ok(s, <<t>>)
  ELSE LET x == xs[i]
           last == i = Len(xs)
           key == IF x.op = "pair" THEN One(x.kids[1], env, va, s) ELSE Ok(s, <<Str(x.names[1])>>)
           all(r) == [j \in {Num(n + k) : k \in DOMAIN r.v} |-> r.v[j[2] - n]]
           kept(f) == [k \in {j \in DOMAIN f : f[j] # Nil} |-> f[k]]
       IN  IF x.op = "item"
           THEN Then(IF last THEN Eval(x.kids[1], env, va, s) ELSE One(x.kids[1], env, va, s),
                  LAMBDA r : Items(xs, i + 1, n + 1, t, env, va,
                                   [r.s EXCEPT !.tabs[t[2]] = kept(all(r)) @@ @]))
           ELSE Then(key, LAMBDA k :
                  Then(One(x.kids[Len(x.kids)], env, va, k.s), LAMBDA v :
                    Then(Assign(v.s, t, k.v[1], v.v[1]), LAMBDA r :
                      Items(xs, i + 1, n, t, env, va, r.s))))

Eval(x, env, va, s) ==
  CASE x.op = "int" -> Ok(s, <<Num(x.n)>>)
    [] x.op = "str" -> Ok(s, <<Str(x.names[1])>>)
    [] x.op = "nil" -> Ok(s, <<Nil>>)
    [] x.op \in {"true", "false"} -> Ok(s, <<Bool(x.op = "true")>>)
    [] x.op = "dots" -> Ok(s, va)
    [] x.op = "name" ->
         Ok(s, <<IF x.names[1] \in DOMAIN env THEN s.cells[env[x.names[1]]]
                 ELSE Get(s.tabs[1], Str(x.names[1]))>>)
    [] x.op = "paren" -> One(x.kids[1], env, va, s)
    [] x.op = "func" -> Ok([s EXCEPT !.fns = Append(@, [node |-> x, env |-> env])],
                           <<<<"fn", Len(s.fns) + 1>>>>)
    [] x.op = "table" -> Items(x.kids, 1, 0, <<"tab", Len(s.tabs) + 1>>, env, va,
                               [s EXCEPT !.tabs = Append(@, <<>>)])
    [] x.op = "dot" -> Then(One(x.kids[1], env, va, s), LAMBDA t : Index(t.s, t.v[1], Str(x.names[1])))
    [] x.op = "index" -> Then(EvalAll(<<x.kids[1], [x EXCEPT !.op = "paren", !.kids = <<x.kids[2]>>]>>,
                                      env, va, s), LAMBDA r : Index(r.s, r.v[1], r.v[2]))
    [] x.op = "call" -> Then(One(x.kids[1], env, va, s), LAMBDA f :
                          Then(EvalAll(Tail(x.kids), env, va, f.s), LAMBDA a :
                            Call(a.s, f.v[1], a.v)))
    [] x.op = "method" -> Then(One(x.kids[1], env, va, s), LAMBDA o :
                            Then(Index(o.s, o.v[1], Str(x.names[1])), LAMBDA f :
                              Then(EvalAll(Tail(x.kids), env, va, f.s), LAMBDA a :
                                Call(a.s, f.v[1], o.v \o a.v))))
    [] x.op = "AND" -> Then(One(x.kids[1], env, va, s), LAMBDA a :
                         IF Truth(a.v[1]) THEN One(x.kids[2], env, va, a.s) ELSE a)
    [] x.op = "OR" -> Then(One(x.kids[1], env, va, s), LAMBDA a :
                         IF Truth(a.v[1]) THEN a ELSE One(x.kids[2], env, va, a.s))
    [] Len(x.kids) = 1 -> Then(One(x.kids[1], env, va, s), LAMBDA a :
                            Outcome(a.s, Apply1(x.op, a.v[1], a.s.tabs)))
    [] OTHER -> Then(One(x.kids[1], env, va, s), LAMBDA a :
                  Then(One(x.kids[2], env, va, a.s), LAMBDA b :
                    Outcome(b.s, Apply2(x.op, a.v[1], b.v[1]))))

\* The functions the host provides: they end at once, except pcall.
HostCall(s, name, args) ==
  LET i == args[2][2] + 1
      v == Get(s.tabs[args[1][2]], Num(i))
  IN  CASE name = "emit" -> Ok([s EXCEPT !.out = Append(@, ShowAll(args))], <<>>)
        [] name = "error" -> Raise(s, IF First(args)[1] = "str" THEN Message ELSE First(args))
        [] args = <<>> -> Raise(s, Message)
        [] name = "ipairs" -> Ok(s, <<Host("ipairsaux"), args[1], Num(0)>>)
        [] args[1][1] # "tab" -> Raise(s, Message)
        [] OTHER -> Ok(s, IF v = Nil THEN <<Nil>> ELSE <<Num(i), v>>)

Call(s, f, args) ==
  LET fn == s.fns[f[2]]
      x == fn.node
      n == Len(x.names)
      r == Run(x.kids, 1, <<Bind(fn.env, x.names, Len(s.cells))>>,
               IF x.n = 1 THEN SubSeq(args, n + 1, Len(args)) ELSE <<>>,
               NewCells(s, Adjust(args, n)))
      p == Call(s, args[1], Tail(args))
  IN  CASE f[1] = "fn" -> IF r.x = "error" THEN r ELSE Ok(r.s, IF r.x = "return" THEN r.v ELSE <<>>)
        [] f = Host("pcall") /\ args # <<>> ->
             Ok(p.s, <<Bool(p.x = "ok")>> \o p.v)
        [] f[1] = "host" -> HostCall(s, f[2], args)
        [] OTHER -> Raise(s, Message)

-----------------------------------------------------------------------------
(* Statements: the result has the environment for the next one in env.      *)

At0(r, env) == [s |-> r.s, v |-> r.v, x |-> r.x, env |-> env]
Stop(s, x, v, env) == [s |-> s, v |-> v, x |-> x, env |-> env]

InBlock(sts, env, va, s) == Run(sts, 1, <<env>>, va, s)

\* A loop goes on after r unless the body left it; a break ends it well.
Loop(r, env, Again(_)) ==
  IF r.x = "ok" THEN Again(r) ELSE IF r.x = "break" THEN Stop(r.s, "ok", <<>>, env) ELSE At0(r, env)

RECURSIVE While(_, _, _, _), Repeat(_, _, _, _), ForEach(_, _, _, _, _, _, _), ForIn(_, _, _, _, _),
          If(_, _, _, _, _), Store(_, _, _, _, _, _)

While(x, env, va, s) ==
  LET c == One(x.kids[1], env, va, s)
  IN  IF c.x # "ok" THEN At0(c, env)
      ELSE IF ~Truth(c.v[1]) THEN Stop(c.s, "ok", <<>>, env)
      ELSE Loop(InBlock(Tail(x.kids), env, va, c.s), env, LAMBDA r : While(x, env, va, r.s))

\* The condition sees the variables of the block.
Repeat(x, env, va, s) ==
  Loop(InBlock(Tail(x.kids), env, va, s), env, LAMBDA r :
    LET c == One(x.kids[1], r.env, va, r.s)
    IN  IF c.x # "ok" THEN At0(c, env)
        ELSE IF Truth(c.v[1]) THEN Stop(c.s, "ok", <<>>, env)
        ELSE Repeat(x, env, va, c.s))

ForEach(x, i, limit, step, env, va, s) ==
  IF (step > 0 /\ i > limit) \/ (step <= 0 /\ i < limit) THEN Stop(s, "ok", <<>>, env)
  ELSE Loop(InBlock(Last(x.kids).kids, Bind(env, x.names, Len(s.cells)), va, NewCells(s, <<Num(i)>>)),
            env, LAMBDA r : ForEach(x, i + step, limit, step, env, va, r.s))

ForIn(x, g, env, va, s) ==
  LET c == Call(s, g[1], <<g[2], g[3]>>)
      vals == Adjust(c.v, Len(x.names))
  IN  IF c.x # "ok" THEN At0(c, env)
      ELSE IF vals[1] = Nil THEN Stop(c.s, "ok", <<>>, env)
      ELSE Loop(InBlock(Last(x.kids).kids, Bind(env, x.names, Len(c.s.cells)), va, NewCells(c.s, vals)),
                env, LAMBDA r : ForIn(x, <<g[1], g[2], vals[1]>>, env, va, r.s))

If(xs, i, env, va, s) ==
  LET c == One(xs[i], env, va, s)
  IN  IF i > Len(xs) THEN Stop(s, "ok", <<>>, env)
      ELSE IF i = Len(xs) THEN At0(InBlock(xs[i].kids, env, va, s), env)
      ELSE IF c.x # "ok" THEN At0(c, env)
      ELSE IF Truth(c.v[1]) THEN At0(InBlock(xs[i + 1].kids, env, va, c.s), env)
      ELSE If(xs, i + 2, env, va, c.s)

\* The table and the key of each variable to assign to, none for a name.
Places(xs, env, va, s) ==
  LET parts == FlattenSeq([i \in DOMAIN xs |->
                 IF xs[i].op = "index" THEN [j \in 1..2 |-> [xs[i] EXCEPT !.op = "paren", !.kids = <<xs[i].kids[j]>>]]
                 ELSE IF xs[i].op = "dot" THEN <<[xs[i] EXCEPT !.op = "paren"]>> ELSE <<>>])
  IN  EvalAll(parts, env, va, s)

\* Give the variables their values, the last first; p: what Places found.
Store(xs, p, vals, env, va, s) ==
  IF xs = <<>> THEN Ok(s, <<>>)
  ELSE LET x == Last(xs)
           n == Len(p)
           v == vals[Len(xs)]
           name == x.names[1]
           used == CASE x.op = "index" -> 2 [] x.op = "dot" -> 1 [] OTHER -> 0
           r == CASE x.op = "index" -> Assign(s, p[n - 1], p[n], v)
                  [] x.op = "dot" -> Assign(s, p[n], Str(name), v)
                  [] name \in DOMAIN env -> Ok([s EXCEPT !.cells[env[name]] = v], <<>>)
                  [] OTHER -> Assign(s, <<"tab", 1>>, Str(name), v)
       IN  Then(r, LAMBDA q : Store(Front(xs), SubSeq(p, 1, n - used), vals, env, va, q.s))

Stat(x, env, va, s) ==
  LET vars == SubSeq(x.kids, 1, x.n)
      fenv == Bind(env, x.names, Len(s.cells))
      method == [x.kids[2] EXCEPT !.names = <<"self">> \o @]
  IN  CASE x.op = "local" ->
             LET r == EvalAll(x.kids, env, va, s)
             IN  IF r.x # "ok" THEN At0(r, env)
                 ELSE Stop(NewCells(r.s, Adjust(r.v, Len(x.names))), "ok", <<>>,
                           Bind(env, x.names, Len(r.s.cells)))
        [] x.op = "localfunc" ->
             LET r == Eval(x.kids[1], fenv, va, NewCells(s, <<Nil>>))
             IN  Stop([r.s EXCEPT !.cells[Len(s.cells) + 1] = r.v[1]], "ok", <<>>, fenv)
        [] x.op = "function" ->
             LET f == Eval(IF x.names = <<>> THEN x.kids[2] ELSE method, env, va, s)
                 var == IF x.names = <<>> THEN x.kids[1]
                        ELSE [x EXCEPT !.op = "dot", !.kids = <<x.kids[1]>>]
             IN  At0(Then(Places(<<var>>, env, va, f.s), LAMBDA p :
                       Store(<<var>>, p.v, f.v, env, va, p.s)), env)
        [] x.op = "assign" ->
             At0(Then(Places(vars, env, va, s), LAMBDA p :
                   Then(EvalAll(SubSeq(x.kids, x.n + 1, Len(x.kids)), env, va, p.s), LAMBDA r :
                     Store(vars, p.v, Adjust(r.v, x.n), env, va, r.s))), env)
        [] x.op = "call" -> At0(Eval(x.kids[1], env, va, s), env)
        [] x.op = "do" -> At0(InBlock(x.kids, env, va, s), env)
        [] x.op = "while" -> While(x, env, va, s)
        [] x.op = "repeat" -> Repeat(x, env, va, s)
        [] x.op = "if" -> If(x.kids, 1, env, va, s)
        [] x.op = "fornum" ->
             LET r == EvalAll(Front(x.kids), env, va, s)
                 step == IF Len(x.kids) = 4 THEN r.v[3] ELSE Num(1)
             IN  IF r.x # "ok" THEN At0(r, env)
                 ELSE IF ~(IsNum(r.v[1]) /\ IsNum(r.v[2]) /\ IsNum(step)) THEN At0(Raise(r.s, Message), env)
                 ELSE ForEach(x, r.v[1][2], r.v[2][2], step[2], env, va, r.s)
        [] x.op = "forlist" ->
             LET r == EvalAll(Front(x.kids), env, va, s)
             IN  IF r.x # "ok" THEN At0(r, env) ELSE ForIn(x, Adjust(r.v, 3), env, va, r.s)
        [] x.op = "return" -> LET r == EvalAll(x.kids, env, va, s)
                              IN  Stop(r.s, IF r.x = "ok" THEN "return" ELSE r.x, r.v, env)
        [] x.op \in {"break", "goto"} -> Stop(s, x.op, x.names, env)
        [] OTHER -> Stop(s, "ok", <<>>, env)

\* The statements from i on; envs: the environments before each up to here.
Run(sts, i, envs, va, s) ==
  IF i > Len(sts) THEN Stop(s, "ok", <<>>, envs[i])
  ELSE LET r == Stat(sts[i], envs[i], va, s)
           labels == {j \in DOMAIN sts : sts[j].op = "label" /\ sts[j].names = r.v}
           j == CHOOSE l \in labels : TRUE
           upto(k) == Lesser(k, Lesser(i, j))
       IN  IF r.x = "ok" THEN Run(sts, i + 1, Append(SubSeq(envs, 1, i), r.env), va, r.s)
           ELSE IF r.x = "goto" /\ labels # {}
           THEN Run(sts, j + 1, [k \in 1..j + 1 |-> envs[upto(k)]], va, r.s)
           ELSE r

\* [x, v, out]: how the program ends, its values, and what it said.
Meaning(sts) ==
  LET r == InBlock(sts, <<>>, <<>>, [cells |-> <<>>, tabs |-> <<Globals>>, fns |-> <<>>, out |-> <<>>])
  IN  [x |-> IF r.x = "error" THEN "error" ELSE "done", v |-> ShowAll(r.v), out |-> r.s.out]

-----------------------------------------------------------------------------
(* Which programs are legal.                                               *)

\* ctx: the blocks around a statement, each with the place in it.
GotoOk(name, ctx) ==
  LET has(c) == {j \in DOMAIN c.sts : c.sts[j].op = "label" /\ c.sts[j].names = <<name>>}
      levels == {d \in DOMAIN ctx : has(ctx[d]) # {}}
      c == ctx[CHOOSE d \in levels : \A e \in levels : e <= d]
      j == CHOOSE l \in has(c) : TRUE
      atend == ~c.until /\ \A l \in j + 1..Len(c.sts) : c.sts[l].op = "label"
  IN  /\ levels # {}
      /\ j <= c.i \/ atend \/ \A l \in c.i + 1..j : c.sts[l].op \notin {"local", "localfunc"}

RECURSIVE Legal(_, _, _, _), LegalBlock(_, _, _, _, _)
LegalBlock(sts, ctx, loop, va, until) ==
  /\ \A i, j \in DOMAIN sts : (i # j /\ sts[i].op = "label" /\ sts[j].op = "label")
                                => sts[i].names # sts[j].names
  /\ \A i \in DOMAIN sts : Legal(sts[i], Append(ctx, [sts |-> sts, i |-> i, until |-> until]), loop, va)

Legal(x, ctx, loop, va) ==
  LET exprs == {i \in DOMAIN x.kids : x.kids[i].op # "block"}
      body == Tail(x.kids)
  IN  CASE x.op = "break" -> loop
        [] x.op = "goto" -> GotoOk(x.names[1], ctx)
        [] x.op = "dots" -> va
        [] x.op = "func" -> LegalBlock(x.kids, <<>>, FALSE, x.n = 1, FALSE)
        [] x.op = "do" -> LegalBlock(x.kids, ctx, loop, va, FALSE)
        [] x.op \in {"while", "repeat"} -> /\ Legal(x.kids[1], ctx, loop, va)
                                           /\ LegalBlock(body, ctx, TRUE, va, x.op = "repeat")
        [] OTHER -> /\ \A i \in exprs : Legal(x.kids[i], ctx, loop, va)
                    /\ \A i \in DOMAIN x.kids \ exprs :
                         LegalBlock(x.kids[i].kids, ctx, loop \/ x.op \in {"fornum", "forlist"}, va, FALSE)

LegalProgram(sts) == LegalBlock(sts, <<>>, FALSE, TRUE, FALSE)
=============================================================================
