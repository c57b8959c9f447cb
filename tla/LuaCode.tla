------------------------------- MODULE LuaCode -------------------------------
(***************************************************************************)
(* The code generator of Lua, lcode.c, as operators on a record f that      *)
(* stands for FuncState and the Proto it fills, and an expression record e  *)
(* that stands for expdesc.  An operator that changes both returns          *)
(* [f |-> .., e |-> ..].  Positions in the code (pc) count from 0, as in    *)
(* the source, so that instruction p is f.code[p + 1].                      *)
(*                                                                         *)
(* f.code    the instructions, [op, a, b, c]; b is also Bx, sBx and Ax      *)
(* f.jpc     the list of pending jumps to the next instruction              *)
(* f.lasttarget, f.freereg, f.nactvar, f.maxstack, f.upv, f.p               *)
(* f.k, f.h  the constants, and the scanner's table that caches their index *)
(* f.ok      no lua_assert has failed; f.err the first syntax error         *)
(*                                                                         *)
(* Numbers are integers: floats, metamethods and line numbers are left out. *)
(***************************************************************************)
EXTENDS Integers, Sequences, SequencesExt, FiniteSets, TLC

CONSTANTS
  MaxIndexRK,      \* MAXINDEXRK: the largest constant an RK operand can name
  MaxRegs,         \* MAXREGS: the registers a function can have
  MaxArgBx,        \* MAXARG_Bx: the largest constant OP_LOADK can name
  MaxArgC,         \* MAXARG_C: the largest batch OP_SETLIST can name
  FieldsPerFlush   \* LFIELDS_PER_FLUSH

NoJump == -1
NoReg == 255
MultRet == -1
BitRK == 256
IsK(x) == x >= BitRK

Nil == <<"nil", 0>>
Num(n) == <<"int", n>>
Str(s) == <<"str", s>>
Bool(b) == <<"bool", IF b THEN 1 ELSE 0>>

Lesser(x, y) == IF x < y THEN x ELSE y
Greater(x, y) == IF x > y THEN x ELSE y

\* One result of an operator that changes the function and the expression.
FE(f, e) == [f |-> f, e |-> e]

Exp(k, info) == [k |-> k, info |-> info, t |-> NoJump, f |-> NoJump,
                 tab |-> 0, idx |-> 0, vt |-> "none"]

Check(f, P) == [f EXCEPT !.ok = @ /\ P]
Fail(f, what) == [f EXCEPT !.err = IF @ = "" THEN what ELSE @]

Pc(f) == Len(f.code)
At(f, p) == f.code[p + 1]
HasJumps(e) == e.t # e.f
HasMultRet(e) == e.k \in {"call", "vararg"}

-----------------------------------------------------------------------------
(* Jump lists: each jump of a list leads to the next, the last to itself.   *)

TestOps == {"EQ", "LT", "LE", "TEST", "TESTSET"}

GetJump(code, p) == IF code[p + 1].b = NoJump THEN NoJump ELSE p + 1 + code[p + 1].b

\* The jumps of a list, in its order.
RECURSIVE JumpList(_, _)
JumpList(code, p) == IF p = NoJump THEN <<>> ELSE <<p>> \o JumpList(code, GetJump(code, p))

Jumps(f, list) == LET s == JumpList(f.code, list) IN {s[i] : i \in DOMAIN s}

GetJumpControl(f, p) == IF p >= 1 /\ f.code[p].op \in TestOps THEN p - 1 ELSE p
IsTestSet(f, p) == At(f, GetJumpControl(f, p)).op = "TESTSET"

FixJump(f, p, dest) == [Check(f, dest # NoJump) EXCEPT !.code[p + 1].b = dest - (p + 1)]

\* The list that leads through l1 and then through l2: [f, x].
Concat(f, l1, l2) ==
  IF l2 = NoJump THEN [f |-> f, x |-> l1]
  ELSE IF l1 = NoJump THEN [f |-> f, x |-> l2]
  ELSE LET s == JumpList(f.code, l1)
       IN  [f |-> FixJump(f, s[Len(s)], l2), x |-> l1]

\* A TESTSET that puts its value in reg, or a TEST when nobody needs it there.
PatchTestReg(i, reg) ==
  IF reg # NoReg /\ reg # i.b THEN [i EXCEPT !.a = reg]
  ELSE [op |-> "TEST", a |-> i.b, b |-> 0, c |-> i.c]

\* The code in which every jump p of the list was changed by G(code, p).
AtEach(f, list, G(_, _)) == FoldLeft(G, f.code, JumpList(f.code, list))

RemoveValues(f, list) ==
  LET drop(code, p) == LET c == GetJumpControl(f, p) + 1
                       IN  IF IsTestSet(f, p) THEN [code EXCEPT ![c] = PatchTestReg(@, NoReg)] ELSE code
  IN  [f EXCEPT !.code = AtEach(f, list, drop)]

\* Jumps of tests that produce a value go to vtarget, the others to dtarget.
PatchListAux(f, list, vtarget, reg, dtarget) ==
  LET fix(code, p) ==
        IF IsTestSet(f, p)
        THEN [code EXCEPT ![GetJumpControl(f, p) + 1] = PatchTestReg(@, reg), ![p + 1].b = vtarget - (p + 1)]
        ELSE [code EXCEPT ![p + 1].b = dtarget - (p + 1)]
      reached(p) == (IF IsTestSet(f, p) THEN vtarget ELSE dtarget) # NoJump
  IN  [Check(f, \A p \in Jumps(f, list) : reached(p)) EXCEPT !.code = AtEach(f, list, fix)]

DischargeJpc(f) == [PatchListAux(f, f.jpc, Pc(f), NoReg, Pc(f)) EXCEPT !.jpc = NoJump]

\* luaK_code with luaK_codeABC, codeABx and codeAsBx: the instruction is at Pc(f).
Emit(f, op, a, b, c) ==
  [DischargeJpc(f) EXCEPT !.code = Append(@, [op |-> op, a |-> a, b |-> b, c |-> c])]

GetLabel(f) == [f EXCEPT !.lasttarget = Pc(f)]

PatchToHere(f, list) ==
  LET g == GetLabel(f)
      r == Concat(g, g.jpc, list)
  IN  [r.f EXCEPT !.jpc = r.x]

PatchList(f, list, target) ==
  IF target = Pc(f) THEN PatchToHere(f, list)
  ELSE PatchListAux(Check(f, target < Pc(f)), list, target, NoReg, target)

PatchClose(f, list, level) ==
  LET close(code, p) == [code EXCEPT ![p + 1].a = level + 1]
      inward(p) == At(f, p).op = "JMP" /\ (At(f, p).a = 0 \/ At(f, p).a >= level + 1)
  IN  [Check(f, \A p \in Jumps(f, list) : inward(p)) EXCEPT !.code = AtEach(f, list, close)]

\* luaK_jump: a new jump that takes the pending jumps along: [f, x].
Jump(f) ==
  LET g == Emit([f EXCEPT !.jpc = NoJump], "JMP", 0, NoJump, 0)
  IN  Concat(g, Pc(f), f.jpc)

JumpTo(f, target) == LET j == Jump(f) IN PatchList(j.f, j.x, target)

CondJump(f, op, a, b, c) == Jump(Emit(f, op, a, b, c))

Ret(f, first, nret) == Emit(f, "RETURN", first, nret + 1, 0)

-----------------------------------------------------------------------------
(* Registers and constants.                                                *)

CheckStack(f, n) ==
  LET new == f.freereg + n
  IN  IF new <= f.maxstack THEN f
      ELSE [(IF new >= MaxRegs THEN Fail(f, "registers") ELSE f) EXCEPT !.maxstack = new]

ReserveRegs(f, n) == [CheckStack(f, n) EXCEPT !.freereg = @ + n]

FreeReg(f, reg) ==
  IF IsK(reg) \/ reg < f.nactvar THEN f
  ELSE [Check(f, reg = f.freereg - 1) EXCEPT !.freereg = @ - 1]

FreeExp(f, e) == IF e.k = "nonreloc" THEN FreeReg(f, e.info) ELSE f

FreeExps(f, e1, e2) ==
  LET r(e) == IF e.k = "nonreloc" THEN e.info ELSE -1
  IN  IF r(e1) > r(e2) THEN FreeExp(FreeExp(f, e1), e2) ELSE FreeExp(FreeExp(f, e2), e1)

\* luaK_nil: registers from .. from + n - 1, joined with the LOADNIL before it.
LoadNil(f, from, n) ==
  LET last == from + n - 1
      prev == At(f, Pc(f) - 1)
      plast == prev.a + prev.b
      low == Lesser(from, prev.a)
  IN  IF /\ Pc(f) > f.lasttarget
         /\ prev.op = "LOADNIL"
         /\ (prev.a <= from /\ from <= plast + 1) \/ (from <= prev.a /\ prev.a <= last + 1)
      THEN [f EXCEPT !.code[Pc(f)].a = low, !.code[Pc(f)].b = Greater(last, plast) - low]
      ELSE Emit(f, "LOADNIL", from, n - 1, 0)

\* addk: the scanner's table may hold the index the value had in another function.
AddK(f, v) ==
  IF v \in DOMAIN f.h /\ f.h[v] < Len(f.k) /\ f.k[f.h[v] + 1] = v
  THEN [f |-> f, x |-> f.h[v]]
  ELSE [f |-> [f EXCEPT !.k = Append(@, v), !.h = (v :> Len(f.k)) @@ @], x |-> Len(f.k)]

\* luaK_codek
LoadK(f, reg, v) ==
  LET k == AddK(f, v)
  IN  IF k.x <= MaxArgBx THEN Emit(k.f, "LOADK", reg, k.x, 0)
      ELSE Emit(Emit(k.f, "LOADKX", reg, 0, 0), "EXTRAARG", 0, k.x, 0)

\* The value of an expression that is a constant.
IsConst(e) == e.k \in {"k", "kint", "true", "false", "nil"}
ConstOf(f, e) == CASE e.k = "k" -> f.k[e.info + 1] [] e.k = "kint" -> Num(e.info)
                   [] e.k = "nil" -> Nil [] OTHER -> Bool(e.k = "true")

-----------------------------------------------------------------------------
(* From an expression to a value.                                          *)

SetReturns(f, e, n) ==
  CASE e.k = "call" -> [f EXCEPT !.code[e.info + 1].c = n + 1]
    [] e.k = "vararg" -> ReserveRegs([f EXCEPT !.code[e.info + 1].b = n + 1,
                                               !.code[e.info + 1].a = f.freereg], 1)
    [] OTHER -> Check(f, n = MultRet)

SetOneRet(f, e) ==
  CASE e.k = "call" -> FE(Check(f, At(f, e.info).c = 2),
                          [e EXCEPT !.k = "nonreloc", !.info = At(f, e.info).a])
    [] e.k = "vararg" -> FE([f EXCEPT !.code[e.info + 1].b = 2], [e EXCEPT !.k = "reloc"])
    [] OTHER -> FE(f, e)

\* Free the key first: it lies above the table.
DischargeIndexed(f, e) ==
  LET g == FreeReg(f, e.idx)
      local == e.vt = "local"
      h == IF local THEN FreeReg(g, e.tab) ELSE Check(g, e.vt = "upval")
  IN  FE(Emit(h, IF local THEN "GETTABLE" ELSE "GETTABUP", 0, e.tab, e.idx),
         [e EXCEPT !.k = "reloc", !.info = Pc(f)])

DischargeVars(f, e) ==
  CASE e.k = "local" -> FE(f, [e EXCEPT !.k = "nonreloc"])
    [] e.k = "upval" -> FE(Emit(f, "GETUPVAL", 0, e.info, 0),
                           [e EXCEPT !.k = "reloc", !.info = Pc(f)])
    [] e.k = "indexed" -> DischargeIndexed(f, e)
    [] OTHER -> SetOneRet(f, e)

Discharge2Reg(f0, e0, reg) ==
  LET d == DischargeVars(f0, e0)
      f == d.f
      e == d.e
      done(g) == FE(g, [e EXCEPT !.k = "nonreloc", !.info = reg])
  IN  CASE e.k = "nil" -> done(LoadNil(f, reg, 1))
        [] e.k \in {"true", "false"} -> done(Emit(f, "LOADBOOL", reg, IF e.k = "true" THEN 1 ELSE 0, 0))
        [] e.k \in {"k", "kint"} -> done(LoadK(f, reg, ConstOf(f, e)))
        [] e.k = "reloc" -> done([f EXCEPT !.code[e.info + 1].a = reg])
        [] e.k = "nonreloc" -> done(IF reg = e.info THEN f ELSE Emit(f, "MOVE", reg, e.info, 0))
        [] OTHER -> FE(Check(f, e.k = "jmp"), e)

Discharge2AnyReg(f, e) ==
  IF e.k = "nonreloc" THEN FE(f, e)
  ELSE LET g == ReserveRegs(f, 1) IN Discharge2Reg(g, e, g.freereg - 1)

NeedValue(f, list) == \E p \in Jumps(f, list) : ~IsTestSet(f, p)

\* The jumps out of e end behind it, or at instructions that load their value.
Exp2Reg(f0, e0, reg) ==
  LET d == Discharge2Reg(f0, e0, reg)
      isjump == d.e.k = "jmp"
      ct == IF isjump THEN Concat(d.f, d.e.t, d.e.info) ELSE [f |-> d.f, x |-> d.e.t]
      t == ct.x
      fl == d.e.f
      need == NeedValue(ct.f, t) \/ NeedValue(ct.f, fl)
      fj == IF isjump THEN [f |-> ct.f, x |-> NoJump] ELSE Jump(ct.f)
      pf == Pc(fj.f)
      loads == PatchToHere(Emit(GetLabel(Emit(GetLabel(fj.f), "LOADBOOL", reg, 0, 1)),
                                "LOADBOOL", reg, 1, 0), fj.x)
      g == GetLabel(IF need THEN loads ELSE ct.f)
      patched == PatchListAux(PatchListAux(g, fl, Pc(g), reg, IF need THEN pf ELSE NoJump),
                              t, Pc(g), reg, IF need THEN pf + 1 ELSE NoJump)
  IN  FE(IF t # fl THEN patched ELSE ct.f, Exp("nonreloc", reg))

Exp2NextReg(f, e) ==
  LET d == DischargeVars(f, e)
      g == ReserveRegs(FreeExp(d.f, d.e), 1)
  IN  Exp2Reg(g, d.e, g.freereg - 1)

Exp2AnyReg(f, e) ==
  LET d == DischargeVars(f, e)
  IN  IF d.e.k = "nonreloc" /\ ~HasJumps(d.e) THEN d
      ELSE IF d.e.k = "nonreloc" /\ d.e.info >= d.f.nactvar THEN Exp2Reg(d.f, d.e, d.e.info)
      ELSE Exp2NextReg(d.f, d.e)

Exp2AnyRegUp(f, e) == IF e.k # "upval" \/ HasJumps(e) THEN Exp2AnyReg(f, e) ELSE FE(f, e)

Exp2Val(f, e) == IF HasJumps(e) THEN Exp2AnyReg(f, e) ELSE DischargeVars(f, e)

\* An operand that is a register or a constant: [f, e, x], x its RK index.
Exp2RK(f, e) ==
  LET d == Exp2Val(f, e)
      k == AddK(d.f, ConstOf(d.f, d.e))
      r == IF IsConst(d.e) THEN FE(k.f, [d.e EXCEPT !.k = "k", !.info = k.x]) ELSE d
      a == Exp2AnyReg(r.f, r.e)
  IN  IF IsConst(d.e) /\ k.x <= MaxIndexRK
      THEN [f |-> r.f, e |-> r.e, x |-> k.x + BitRK]
      ELSE [f |-> a.f, e |-> a.e, x |-> a.e.info]

StoreVar(f, var, ex) ==
  CASE var.k = "local" -> Exp2Reg(FreeExp(f, ex), ex, var.info).f
    [] var.k = "upval" ->
         LET r == Exp2AnyReg(f, ex)
         IN  FreeExp(Emit(r.f, "SETUPVAL", r.e.info, var.info, 0), r.e)
    [] OTHER ->
         LET r == Exp2RK(Check(f, var.k = "indexed"), ex)
         IN  FreeExp(Emit(r.f, IF var.vt = "local" THEN "SETTABLE" ELSE "SETTABUP",
                          var.tab, var.idx, r.x), r.e)

\* luaK_self: e becomes the method, with its object in the register after it.
Self(f, e, key) ==
  LET o == Exp2AnyReg(f, e)
      g == FreeExp(o.f, o.e)
      h == ReserveRegs(g, 2)
      k == Exp2RK(h, key)
  IN  FE(FreeExp(Emit(k.f, "SELF", g.freereg, o.e.info, k.x), k.e),
         [o.e EXCEPT !.k = "nonreloc", !.info = g.freereg])

Indexed(f, t, key) ==
  LET k == Exp2RK(Check(f, ~HasJumps(t) /\ t.k \in {"nonreloc", "local", "upval"}), key)
  IN  FE(k.f, [t EXCEPT !.k = "indexed", !.tab = t.info, !.idx = k.x,
                        !.vt = IF t.k = "upval" THEN "upval" ELSE "local"])

-----------------------------------------------------------------------------
(* Conditions.                                                             *)

NegateCondition(f, e) ==
  LET p == GetJumpControl(f, e.info)
  IN  [Check(f, At(f, p).op \in TestOps \ {"TEST", "TESTSET"}) EXCEPT !.code[p + 1].a = 1 - @]

\* Jump when e is cond; a "not" just coded is taken back and inverted: [f, x].
JumpOnCond(f, e, cond) ==
  LET d == Discharge2AnyReg(f, e)
      i == At(f, e.info)
  IN  IF e.k = "reloc" /\ i.op = "NOT"
      THEN CondJump([f EXCEPT !.code = SubSeq(@, 1, Len(@) - 1)], "TEST", i.b, 0, 1 - cond)
      ELSE CondJump(FreeExp(d.f, d.e), "TESTSET", NoReg, d.e.info, cond)

\* luaK_goiftrue and luaK_goiffalse: [f, e].
GoIfTrue(f, e0) ==
  LET d == DischargeVars(f, e0)
      e == d.e
      j == CASE e.k = "jmp" -> [f |-> NegateCondition(d.f, e), x |-> e.info]
             [] e.k \in {"k", "kint", "true"} -> [f |-> d.f, x |-> NoJump]
             [] OTHER -> JumpOnCond(d.f, e, 0)
      c == Concat(j.f, e.f, j.x)
  IN  FE(PatchToHere(c.f, e.t), [e EXCEPT !.f = c.x, !.t = NoJump])

GoIfFalse(f, e0) ==
  LET d == DischargeVars(f, e0)
      e == d.e
      j == CASE e.k = "jmp" -> [f |-> d.f, x |-> e.info]
             [] e.k \in {"nil", "false"} -> [f |-> d.f, x |-> NoJump]
             [] OTHER -> JumpOnCond(d.f, e, 1)
      c == Concat(j.f, e.t, j.x)
  IN  FE(PatchToHere(c.f, e.f), [e EXCEPT !.t = c.x, !.f = NoJump])

CodeNot(f, e0) ==
  LET d == DischargeVars(f, e0)
      e == d.e
      a == Discharge2AnyReg(d.f, e)
      n == CASE e.k \in {"nil", "false"} -> FE(d.f, [e EXCEPT !.k = "true"])
             [] e.k \in {"k", "kint", "true"} -> FE(d.f, [e EXCEPT !.k = "false"])
             [] e.k = "jmp" -> FE(NegateCondition(d.f, e), e)
             [] OTHER -> LET g == FreeExp(a.f, a.e)
                         IN  FE(Emit(g, "NOT", 0, a.e.info, 0),
                                [a.e EXCEPT !.k = "reloc", !.info = Pc(g)])
      x == [n.e EXCEPT !.f = n.e.t, !.t = n.e.f]
  IN  FE(RemoveValues(RemoveValues(n.f, x.f), x.t), x)

-----------------------------------------------------------------------------
(* Operators.                                                              *)

ArithOps == {"ADD", "SUB", "MUL", "MOD", "IDIV"}
CompareOps == {"EQ", "LT", "LE", "NE", "GT", "GE"}

\* luaO_arith on integers; an operation that would fail has no value (validop).
Divisible(op, y) == ~(op \in {"MOD", "IDIV"} /\ y = 0)
FloorDiv(x, y) == IF y > 0 THEN x \div y ELSE (-x) \div (-y)
Arith(op, x, y) ==
  CASE op = "ADD" -> x + y [] op = "SUB" -> x - y [] op = "MUL" -> x * y
    [] op = "IDIV" -> FloorDiv(x, y) [] OTHER -> x - y * FloorDiv(x, y)

ToNumeral(e) == e.k = "kint" /\ ~HasJumps(e)
Folds(op, e1, e2) == ToNumeral(e1) /\ ToNumeral(e2) /\ Divisible(op, e2.info)

CodeUnExpVal(f, op, e) ==
  LET r == Exp2AnyReg(f, e)
      g == FreeExp(r.f, r.e)
  IN  FE(Emit(g, op, 0, r.e.info, 0), [r.e EXCEPT !.k = "reloc", !.info = Pc(g)])

CodeBinExpVal(f, op, e1, e2) ==
  LET r1 == Exp2RK(f, e1)
      r2 == Exp2RK(r1.f, e2)
      g == FreeExps(r2.f, r1.e, r2.e)
  IN  FE(Emit(g, op, 0, r1.x, r2.x), [r1.e EXCEPT !.k = "reloc", !.info = Pc(g)])

CodeComp(f, op, e1, e2) ==
  LET rk1 == IF e1.k = "k" THEN e1.info + BitRK ELSE e1.info
      r2 == Exp2RK(Check(f, e1.k \in {"k", "nonreloc"}), e2)
      g == FreeExps(r2.f, e1, r2.e)
      j == CASE op = "NE" -> CondJump(g, "EQ", 0, rk1, r2.x)
             [] op = "GT" -> CondJump(g, "LT", 1, r2.x, rk1)
             [] op = "GE" -> CondJump(g, "LE", 1, r2.x, rk1)
             [] OTHER -> CondJump(g, op, 1, rk1, r2.x)
  IN  FE(j.f, [e1 EXCEPT !.k = "jmp", !.info = j.x])

Prefix(f, op, e) ==
  CASE op = "NOT" -> CodeNot(f, e)
    [] op = "UNM" /\ ToNumeral(e) -> FE(f, [e EXCEPT !.info = -@])
    [] OTHER -> CodeUnExpVal(f, op, e)

Infix(f, op, e) ==
  LET rk == Exp2RK(f, e)
  IN  CASE op = "AND" -> GoIfTrue(f, e)
        [] op = "OR" -> GoIfFalse(f, e)
        [] op = "CONCAT" -> Exp2NextReg(f, e)
        [] op \in ArithOps /\ ToNumeral(e) -> FE(f, e)
        [] OTHER -> FE(rk.f, rk.e)

\* A concatenation whose right operand is one takes it over.
PosfixConcat(f, e1, e2) ==
  LET v == Exp2Val(f, e2)
      n == Exp2NextReg(v.f, v.e)
  IN  IF v.e.k = "reloc" /\ At(v.f, v.e.info).op = "CONCAT"
      THEN FE([FreeExp(Check(v.f, e1.info = At(v.f, v.e.info).b - 1), e1)
                 EXCEPT !.code[v.e.info + 1].b = e1.info],
              [e1 EXCEPT !.k = "reloc", !.info = v.e.info])
      ELSE CodeBinExpVal(n.f, "CONCAT", e1, n.e)

Posfix(f, op, e1, e2) ==
  LET d == DischargeVars(f, e2)
      cf == Concat(Check(d.f, e1.t = NoJump), d.e.f, e1.f)
      ct == Concat(Check(d.f, e1.f = NoJump), d.e.t, e1.t)
  IN  CASE op = "AND" -> FE(cf.f, [d.e EXCEPT !.f = cf.x])
        [] op = "OR" -> FE(ct.f, [d.e EXCEPT !.t = ct.x])
        [] op = "CONCAT" -> PosfixConcat(f, e1, e2)
        [] op \in ArithOps -> IF Folds(op, e1, e2)
                              THEN FE(f, [e1 EXCEPT !.info = Arith(op, e1.info, e2.info)])
                              ELSE CodeBinExpVal(f, op, e1, e2)
        [] OTHER -> CodeComp(f, op, e1, e2)

\* luaK_setlist: the last tostore of nelems values go to the table in base.
SetList(f, base, nelems, tostore) ==
  LET batch == (nelems - 1) \div FieldsPerFlush + 1
      b == IF tostore = MultRet THEN 0 ELSE tostore
      g == Check(f, tostore # 0 /\ tostore <= FieldsPerFlush)
      h == IF batch <= MaxArgC THEN Emit(g, "SETLIST", base, b, batch)
           ELSE Emit(Emit(g, "SETLIST", base, b, 0), "EXTRAARG", 0, batch, 0)
  IN  [h EXCEPT !.freereg = base + 1]
=============================================================================
