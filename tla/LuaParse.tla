------------------------------ MODULE LuaParse -------------------------------
(***************************************************************************)
(* The grammar rules of Lua, lparser.c, each as an operator on the state S  *)
(* of the parser.  The tokens are taken as already grouped: a node          *)
(* [op, kids, names, n] stands for the tokens of one construct, and a rule  *)
(* that reads them one after the other walks over its kids.                 *)
(*                                                                         *)
(* S.fs    the functions being compiled, the innermost last (FuncState,     *)
(*         extended with its blocks bl)                                     *)
(* S.act   the names of the local variables of all of them (dyd->actvar)    *)
(* S.lab, S.gt   the labels in sight and the gotos still pending            *)
(*                                                                         *)
(* An operator that yields an expression returns [s |-> .., e |-> ..].      *)
(***************************************************************************)
EXTENDS LuaCode, SequencesExt

SE(S, e) == [s |-> S, e |-> e]

Depth(S) == Len(S.fs)
Cur(S) == Last(S.fs)
With(S, f) == [S EXCEPT !.fs[Len(S.fs)] = f]
Lift(S, r) == SE(With(S, r.f), r.e)
Bl(S) == Last(Cur(S).bl)

-----------------------------------------------------------------------------
(* Variables.                                                              *)

\* getlocvar: the name of local variable i of the function at depth d.
LocalName(S, d, i) == S.act[S.fs[d].firstlocal + i + 1]

NewLocalVars(S, names) == [S EXCEPT !.act = @ \o names]
AdjustLocalVars(S, n) == With(S, [Cur(S) EXCEPT !.nactvar = @ + n])

RemoveVars(S, tolevel) ==
  With([S EXCEPT !.act = SubSeq(@, 1, Len(@) - (Cur(S).nactvar - tolevel))],
       [Cur(S) EXCEPT !.nactvar = tolevel])

\* The innermost local variable with a name, -1 if there is none.
SearchVar(S, d, n) ==
  LET found == {i \in 0..S.fs[d].nactvar - 1 : LocalName(S, d, i) = n}
  IN  IF found = {} THEN -1 ELSE CHOOSE i \in found : \A j \in found : j <= i

SearchUpvalue(f, n) ==
  LET found == {i \in DOMAIN f.upv : f.upv[i].name = n}
  IN  IF found = {} THEN -1 ELSE (CHOOSE i \in found : \A j \in found : i <= j) - 1

\* The block that declares the variable must close it when it is left.
MarkUpval(S, d, level) ==
  LET bl == S.fs[d].bl
      i == CHOOSE j \in DOMAIN bl : /\ bl[j].nactvar <= level
                                    /\ \A l \in j + 1..Len(bl) : bl[l].nactvar > level
  IN  [S EXCEPT !.fs[d].bl[i].upval = TRUE]

NewUpvalue(S, d, n, e) ==
  SE([S EXCEPT !.fs[d].upv = Append(@, [name |-> n, instack |-> e.k = "local", idx |-> e.info])],
     Exp("upval", Len(S.fs[d].upv)))

RECURSIVE SingleVarAux(_, _, _, _)
SingleVarAux(S, d, n, base) ==
  IF d = 0 THEN SE(S, Exp("void", 0))
  ELSE LET v == SearchVar(S, d, n)
           idx == SearchUpvalue(S.fs[d], n)
           up == SingleVarAux(S, d - 1, n, FALSE)
       IN  IF v >= 0 THEN SE(IF base THEN S ELSE MarkUpval(S, d, v), Exp("local", v))
           ELSE IF idx >= 0 THEN SE(S, Exp("upval", idx))
           ELSE IF up.e.k = "void" THEN up
           ELSE NewUpvalue(up.s, d, n, up.e)

CodeString(S, s) == LET k == AddK(Cur(S), Str(s)) IN SE(With(S, k.f), Exp("k", k.x))

\* A name that is no variable is a field of _ENV.
SingleVar(S, n) ==
  LET v == SingleVarAux(S, Depth(S), n, TRUE)
      env == SingleVarAux(v.s, Depth(S), "_ENV", TRUE)
      key == CodeString(env.s, n)
  IN  IF v.e.k # "void" THEN v ELSE Lift(key.s, Indexed(Cur(key.s), env.e, key.e))

\* nexps values, the last of them e, become nvars values.
AdjustAssign(S, nvars, nexps, e) ==
  LET f == Cur(S)
      extra == nvars - nexps
      more == IF extra + 1 < 0 THEN 0 ELSE extra + 1
      open == SetReturns(f, e, more)
      closed == IF e.k = "void" THEN f ELSE Exp2NextReg(f, e).f
  IN  With(S, IF HasMultRet(e) THEN IF more > 1 THEN ReserveRegs(open, more - 1) ELSE open
              ELSE IF extra > 0 THEN LoadNil(ReserveRegs(closed, extra), closed.freereg, extra)
              ELSE closed)

-----------------------------------------------------------------------------
(* Blocks, labels and gotos.                                               *)

EnterBlock(S, isloop) ==
  LET f == Cur(S)
  IN  With(S, [Check(f, f.freereg = f.nactvar) EXCEPT !.bl = Append(@,
        [isloop |-> isloop, nactvar |-> f.nactvar, firstlabel |-> Len(S.lab),
         firstgoto |-> Len(S.gt), upval |-> FALSE])])

LabelEntry(S, name, p) == [name |-> name, pc |-> p, nactvar |-> Cur(S).nactvar]

\* Goto g meets its label, which must not lie in the scope of a later variable.
CloseGoto(S, g, label) ==
  LET gt == S.gt[g]
      f == IF gt.nactvar < label.nactvar THEN Fail(Cur(S), "jump into scope") ELSE Cur(S)
  IN  With([S EXCEPT !.gt = RemoveAt(@, g)], PatchList(f, gt.pc, label.pc))

\* Goto g meets a label that its block already has: [s, found].
FindLabel(S, g) ==
  LET bl == Bl(S)
      gt == S.gt[g]
      ls == {i \in bl.firstlabel + 1..Len(S.lab) : S.lab[i].name = gt.name}
      lb == S.lab[CHOOSE i \in ls : \A j \in ls : i <= j]
      close == gt.nactvar > lb.nactvar /\ (bl.upval \/ Len(S.lab) > bl.firstlabel)
      T == IF close THEN With(S, PatchClose(Cur(S), gt.pc, lb.nactvar)) ELSE S
  IN  IF ls = {} THEN [s |-> S, found |-> FALSE] ELSE [s |-> CloseGoto(T, g, lb), found |-> TRUE]

\* The gotos from i on that wait for a new label meet it.
RECURSIVE FindGotosFrom(_, _, _)
FindGotosFrom(S, i, lb) ==
  IF i > Len(S.gt) THEN S
  ELSE IF S.gt[i].name = lb.name THEN FindGotosFrom(CloseGoto(S, i, lb), i, lb)
  ELSE FindGotosFrom(S, i + 1, lb)

FindGotos(S, lb) == FindGotosFrom(S, Bl(S).firstgoto + 1, lb)

\* The pending gotos of a block that is left become gotos of the block around it.
RECURSIVE MoveGotosOut(_, _, _)
MoveGotosOut(S, bl, i) ==
  IF i > Len(S.gt) THEN S
  ELSE LET gt == S.gt[i]
           out == gt.nactvar > bl.nactvar
           T == IF out /\ bl.upval THEN With(S, PatchClose(Cur(S), gt.pc, bl.nactvar)) ELSE S
           U == IF out THEN [T EXCEPT !.gt[i].nactvar = bl.nactvar] ELSE T
           r == FindLabel(U, i)
       IN  MoveGotosOut(r.s, bl, IF r.found THEN i ELSE i + 1)

BreakLabel(S) ==
  LET lb == LabelEntry(S, "break", Pc(Cur(S)))
  IN  FindGotos([S EXCEPT !.lab = Append(@, lb)], lb)

\* A jump to the next instruction that closes the variables of the block.
CloseUpvalues(f, level) ==
  LET j == Jump(f) IN PatchToHere(PatchClose(j.f, j.x, level), j.x)

LeaveBlock(S) ==
  LET bl == Bl(S)
      inner == Len(Cur(S).bl) > 1
      T == IF inner /\ bl.upval THEN With(S, CloseUpvalues(Cur(S), bl.nactvar)) ELSE S
      U == IF bl.isloop THEN BreakLabel(T) ELSE T
      V == RemoveVars(With(U, [Cur(U) EXCEPT !.bl = Front(@)]), bl.nactvar)
      W == [With(V, [Cur(V) EXCEPT !.freereg = bl.nactvar])
              EXCEPT !.lab = SubSeq(@, 1, bl.firstlabel)]
  IN  IF inner THEN MoveGotosOut(W, bl, bl.firstgoto + 1)
      ELSE IF bl.firstgoto < Len(W.gt) THEN With(W, Fail(Cur(W), "undefined goto"))
      ELSE W

NewFunc(S) ==
  [code |-> <<>>, jpc |-> NoJump, lasttarget |-> 0, freereg |-> 0, nactvar |-> 0,
   maxstack |-> 2, k |-> <<>>, h |-> IF S.fs = <<>> THEN <<>> ELSE Cur(S).h,
   upv |-> <<>>, p |-> <<>>, numparams |-> 0, vararg |-> 0,
   firstlocal |-> Len(S.act), bl |-> <<>>, ok |-> TRUE, err |-> ""]

OpenFunc(S) == EnterBlock([S EXCEPT !.fs = Append(@, NewFunc(S))], FALSE)

Proto(f) == [code |-> f.code, k |-> f.k, p |-> f.p, upv |-> f.upv,
             numparams |-> f.numparams, vararg |-> f.vararg, maxstack |-> f.maxstack]

\* The finished function becomes a prototype of the function around it.
CloseFunc(S) ==
  LET T == LeaveBlock(With(S, Ret(Cur(S), 0, 0)))
      f == Cur(T)
      outer == T.fs[Len(T.fs) - 1]
  IN  With([T EXCEPT !.fs = Front(@)],
           [(IF f.err = "" THEN outer ELSE Fail(outer, f.err))
              EXCEPT !.p = Append(@, Proto(f)), !.h = f.h, !.ok = @ /\ f.ok])

-----------------------------------------------------------------------------
(* Expressions.                                                            *)

\* Every expression and every statement is parsed one level below the one around it.
RECURSIVE EnterLevel(_, _, _)
Expr(S, x) == EnterLevel("subexpr", S, x)

RECURSIVE StatList(_, _, _, _), ExpList(_, _), SuffixedExp(_, _), Fields(_, _, _, _), Body(_, _, _)

\* All but the last expression of a list go to registers.
ExpList(S, es) ==
  IF Len(es) = 1 THEN Expr(S, es[1])
  ELSE LET r == ExpList(S, Front(es))
           g == With(r.s, Exp2NextReg(Cur(r.s), r.e).f)
       IN  Expr(g, es[Len(es)])

FieldSel(S, v, name) ==
  LET t == Exp2AnyRegUp(Cur(S), v)
      key == CodeString(With(S, t.f), name)
  IN  Lift(key.s, Indexed(Cur(key.s), t.e, key.e))

YIndex(S, x) == LET r == Expr(S, x) IN Lift(r.s, Exp2Val(Cur(r.s), r.e))

\* The call of the function in register base.
FuncArgs(S, base, args) ==
  LET r == IF args = <<>> THEN SE(S, Exp("void", 0)) ELSE ExpList(S, args)
      f == Cur(r.s)
      g == IF HasMultRet(r.e) THEN SetReturns(f, r.e, MultRet)
           ELSE IF r.e.k = "void" THEN f ELSE Exp2NextReg(f, r.e).f
      n == IF HasMultRet(r.e) THEN MultRet ELSE g.freereg - (base + 1)
  IN  SE(With(r.s, [Emit(g, "CALL", base, n + 1, 2) EXCEPT !.freereg = base + 1]),
         Exp("call", Pc(g)))

\* primaryexp and the selectors, indices, methods and calls after it.
SuffixedExp(S, x) ==
  LET v == Expr(S, x.kids[1])
      f == Cur(v.s)
  IN  CASE x.op = "name" -> SingleVar(S, x.names[1])
        [] x.op = "paren" -> Lift(v.s, DischargeVars(f, v.e))
        [] x.op = "dot" -> FieldSel(v.s, v.e, x.names[1])
        [] x.op = "index" ->
             LET t == Exp2AnyRegUp(f, v.e)
                 key == YIndex(With(v.s, t.f), x.kids[2])
             IN  Lift(key.s, Indexed(Cur(key.s), t.e, key.e))
        [] x.op = "method" ->
             LET key == CodeString(v.s, x.names[1])
                 m == Self(Cur(key.s), v.e, key.e)
             IN  FuncArgs(With(key.s, m.f), m.e.info, Tail(x.kids))
        [] OTHER ->
             LET g == Exp2NextReg(f, v.e)
             IN  FuncArgs(With(v.s, g.f), g.e.info, Tail(x.kids))

\* What a constructor keeps: [s, v (the last item read), na, tostore], its table in reg.
RecField(S, reg, x) ==
  LET free == Cur(S).freereg
      key == IF x.op = "pair" THEN YIndex(S, x.kids[1]) ELSE CodeString(S, x.names[1])
      k == Exp2RK(Cur(key.s), key.e)
      val == Expr(With(key.s, k.f), x.kids[Len(x.kids)])
      v == Exp2RK(Cur(val.s), val.e)
  IN  With(val.s, [Emit(v.f, "SETTABLE", reg, k.x, v.x) EXCEPT !.freereg = free])

CloseListField(c, reg) ==
  LET f == Exp2NextReg(Cur(c.s), c.v).f
  IN  IF c.v.k = "void" THEN c
      ELSE IF c.tostore = FieldsPerFlush
      THEN [c EXCEPT !.s = With(c.s, SetList(f, reg, c.na, c.tostore)),
                     !.v = Exp("void", 0), !.tostore = 0]
      ELSE [c EXCEPT !.s = With(c.s, f), !.v = Exp("void", 0)]

LastListField(c, reg) ==
  LET f == Cur(c.s)
      g == IF c.v.k = "void" THEN f ELSE Exp2NextReg(f, c.v).f
  IN  IF c.tostore = 0 THEN c.s
      ELSE With(c.s, IF HasMultRet(c.v)
                     THEN SetList(SetReturns(f, c.v, MultRet), reg, c.na, MultRet)
                     ELSE SetList(g, reg, c.na, c.tostore))

Fields(c0, reg, xs, i) ==
  IF i > Len(xs) THEN LastListField(c0, reg)
  ELSE LET c == CloseListField([c0 EXCEPT !.s = With(@, Check(Cur(@), c0.v.k = "void" \/ c0.tostore > 0))], reg)
           r == Expr(c.s, xs[i].kids[1])
       IN  Fields(IF xs[i].op = "item"
                  THEN [s |-> r.s, v |-> r.e, na |-> c.na + 1, tostore |-> c.tostore + 1]
                  ELSE [c EXCEPT !.s = RecField(c.s, reg, xs[i])], reg, xs, i + 1)

Constructor(S, xs) ==
  LET t == Exp2NextReg(Emit(Cur(S), "NEWTABLE", 0, 0, 0), Exp("reloc", Pc(Cur(S))))
      c == [s |-> With(S, t.f), v |-> Exp("void", 0), na |-> 0, tostore |-> 0]
  IN  SE(Fields(c, t.e.info, xs, 1), t.e)

\* A vararg function says so first; "..." makes it one that uses its arguments.
SimpleExp(S, x) ==
  LET f == Cur(S)
      g == IF f.vararg = 0 THEN Fail(f, "vararg outside") ELSE [f EXCEPT !.vararg = 1]
  IN  CASE x.op = "int" -> SE(S, Exp("kint", x.n))
        [] x.op = "str" -> CodeString(S, x.names[1])
        [] x.op \in {"nil", "true", "false"} -> SE(S, Exp(x.op, 0))
        [] x.op = "dots" -> SE(With(S, Emit(g, "VARARG", 0, 1, 0)), Exp("vararg", Pc(g)))
        [] x.op = "table" -> Constructor(S, x.kids)
        [] x.op = "func" -> Body(S, x, FALSE)
        [] OTHER -> SuffixedExp(S, x)

UnaryOps == {"NOT", "UNM", "LEN"}
BinaryOps == ArithOps \cup CompareOps \cup {"AND", "OR", "CONCAT"}

\* subexpr: the node tells which operand belongs to which operator.
SubExpr(S, x) ==
  LET v == Expr(S, x.kids[1])
      i == Infix(Cur(v.s), x.op, v.e)
      w == Expr(With(v.s, i.f), x.kids[2])
  IN  IF x.op \in UnaryOps THEN Lift(v.s, Prefix(Cur(v.s), x.op, v.e))
      ELSE IF x.op \in BinaryOps THEN Lift(w.s, Posfix(Cur(w.s), x.op, i.e, w.e))
      ELSE SimpleExp(S, x)

\* body with parlist and codeclosure: the closure goes to a register of the outer function.
Body(S, x, ismethod) ==
  LET names == (IF ismethod THEN <<"self">> ELSE <<>>) \o x.names
      T == AdjustLocalVars(NewLocalVars(OpenFunc(S), names), Len(names))
      f == [Cur(T) EXCEPT !.vararg = IF x.n = 1 THEN 2 ELSE 0, !.numparams = Len(names)]
      U == StatList(With(T, ReserveRegs(f, Len(names))), x.kids, 1, FALSE)
      d == Len(U.fs) - 1
      outer == U.fs[d]
      v == Exp2NextReg(Emit(outer, "CLOSURE", 0, Len(outer.p), 0), Exp("reloc", Pc(outer)))
  IN  SE(CloseFunc([U EXCEPT !.fs[d] = v.f]), v.e)

-----------------------------------------------------------------------------
(* Statements.                                                             *)

Block(S, sts) == LeaveBlock(StatList(EnterBlock(S, FALSE), sts, 1, FALSE))

\* Mutated: only the table of an earlier variable is looked at.
CheckConflict_TableOnly(S, lhs, v) ==
  LET f == Cur(S)
      tab(l) == l.k = "indexed" /\ l.vt = v.k /\ l.tab = v.info
      copy == ReserveRegs(Emit(f, IF v.k = "local" THEN "MOVE" ELSE "GETUPVAL", f.freereg, v.info, 0), 1)
  IN  [s |-> IF \E i \in DOMAIN lhs : tab(lhs[i]) THEN With(S, copy) ELSE S,
       lhs |-> [i \in DOMAIN lhs |-> IF tab(lhs[i]) THEN [lhs[i] EXCEPT !.vt = "local", !.tab = f.freereg]
                                     ELSE lhs[i]]]

\* A variable that is assigned to after it was used as a table or as a key is copied.
CheckConflict(S, lhs, v) ==
  LET f == Cur(S)
      tab(l) == l.k = "indexed" /\ l.vt = v.k /\ l.tab = v.info
      key(l) == l.k = "indexed" /\ v.k = "local" /\ l.idx = v.info
      fixed(l) == [l EXCEPT !.vt = IF tab(l) THEN "local" ELSE @,
                            !.tab = IF tab(l) THEN f.freereg ELSE @,
                            !.idx = IF key(l) THEN f.freereg ELSE @]
      copy == ReserveRegs(Emit(f, IF v.k = "local" THEN "MOVE" ELSE "GETUPVAL",
                               f.freereg, v.info, 0), 1)
      conflict == \E i \in DOMAIN lhs : tab(lhs[i]) \/ key(lhs[i])
  IN  [s |-> IF conflict THEN With(S, copy) ELSE S,
       lhs |-> [i \in DOMAIN lhs |-> fixed(lhs[i])]]

\* The variables of an assignment: [s, lhs].
RECURSIVE Targets(_, _)
Targets(S, xs) ==
  IF xs = <<>> THEN [s |-> S, lhs |-> <<>>]
  ELSE LET r == Targets(S, Front(xs))
           v == SuffixedExp(r.s, xs[Len(xs)])
           c == IF v.e.k # "indexed" /\ Len(xs) > 1 THEN CheckConflict(v.s, r.lhs, v.e)
                ELSE [s |-> v.s, lhs |-> r.lhs]
       IN  [s |-> c.s, lhs |-> Append(c.lhs, v.e)]

\* Each variable takes the register on top, the last variable first.
RECURSIVE StoreTargets(_, _)
StoreTargets(f, lhs) ==
  IF lhs = <<>> THEN f
  ELSE StoreTargets(StoreVar(f, lhs[Len(lhs)], Exp("nonreloc", f.freereg - 1)), Front(lhs))

Assignment(S, xs, es) ==
  LET t == Targets(S, xs)
      r == ExpList(t.s, es)
      nvars == Len(xs)
      nexps == Len(es)
      adjusted == Cur(AdjustAssign(r.s, nvars, nexps, r.e))
      f == IF nexps > nvars THEN [adjusted EXCEPT !.freereg = @ - (nexps - nvars)] ELSE adjusted
      one == SetOneRet(Cur(r.s), r.e)
      g == StoreVar(one.f, t.lhs[nvars], one.e)
  IN  With(r.s, IF nexps = nvars THEN StoreTargets(g, Front(t.lhs)) ELSE StoreTargets(f, t.lhs))

\* cond: the jumps to take when the condition is false: [s, e].
Cond(S, x) ==
  LET r == Expr(S, x)
  IN  Lift(r.s, GoIfTrue(Cur(r.s), IF r.e.k = "nil" THEN [r.e EXCEPT !.k = "false"] ELSE r.e))

\* The jumps of list p are a goto (or a break) to a label.
GotoStat(S, name, p) ==
  LET T == [S EXCEPT !.gt = Append(@, LabelEntry(S, name, p))]
  IN  FindLabel(T, Len(T.gt)).s

\* statement() ends with all temporary registers free.
EndStatement(S) ==
  LET f == Cur(S)
  IN  With(S, [Check(f, f.maxstack >= f.freereg /\ f.freereg >= f.nactvar)
                 EXCEPT !.freereg = f.nactvar])

\* The label at sts[i] and the labels right behind it: [s, i], the statement after them.
RECURSIVE LabelStat(_, _, _, _)
LabelStat(S, sts, i, until) ==
  LET name == sts[i].names[1]
      repeated == \E l \in Bl(S).firstlabel + 1..Len(S.lab) : S.lab[l].name = name
      f == GetLabel(IF repeated THEN Fail(Cur(S), "label repeated") ELSE Cur(S))
      T == With([S EXCEPT !.lab = Append(@, LabelEntry(S, name, Pc(f)))], f)
      l == Len(T.lab)
      r == IF i < Len(sts) /\ sts[i + 1].op = "label" THEN LabelStat(T, sts, i + 1, until)
           ELSE [s |-> T, i |-> i + 1]
      U == IF r.i > Len(sts) /\ ~until THEN [r.s EXCEPT !.lab[l].nactvar = Bl(r.s).nactvar]
           ELSE r.s
  IN  [s |-> EndStatement(FindGotos(U, U.lab[l])), i |-> r.i]

WhileStat(S, x) ==
  LET T == With(S, GetLabel(Cur(S)))
      c == Cond(T, x.kids[1])
      U == Block(EnterBlock(c.s, TRUE), Tail(x.kids))
      V == LeaveBlock(With(U, JumpTo(Cur(U), Pc(Cur(T)))))
  IN  With(V, PatchToHere(Cur(V), c.e.f))

RepeatStat(S, x) ==
  LET T == EnterBlock(EnterBlock(With(S, GetLabel(Cur(S))), TRUE), FALSE)
      c == Cond(StatList(T, Tail(x.kids), 1, TRUE), x.kids[1])
      f == Cur(c.s)
      U == LeaveBlock(With(c.s, IF Bl(c.s).upval THEN PatchClose(f, c.e.f, Bl(c.s).nactvar) ELSE f))
  IN  LeaveBlock(With(U, PatchList(Cur(U), c.e.f, Pc(Cur(S)))))

ForBody(S, base, nvars, isnum, sts) ==
  LET T == AdjustLocalVars(S, 3)
      f == Cur(T)
      prep == IF isnum THEN [f |-> Emit(f, "FORPREP", base, NoJump, 0), x |-> Pc(f)] ELSE Jump(f)
      U == AdjustLocalVars(EnterBlock(With(T, prep.f), FALSE), nvars)
      V == LeaveBlock(Block(With(U, ReserveRegs(Cur(U), nvars)), sts))
      g == PatchToHere(Cur(V), prep.x)
      h == IF isnum THEN g ELSE Emit(g, "TFORCALL", base, 0, nvars)
      loop == Emit(h, IF isnum THEN "FORLOOP" ELSE "TFORLOOP", IF isnum THEN base ELSE base + 2, NoJump, 0)
  IN  With(V, PatchList(loop, Pc(h), prep.x + 1))

\* exp1
RECURSIVE ToNextRegs(_, _)
ToNextRegs(S, es) ==
  IF es = <<>> THEN S
  ELSE LET r == Expr(S, es[1]) IN ToNextRegs(With(r.s, Exp2NextReg(Cur(r.s), r.e).f), Tail(es))

\* kids: the initial value, the limit, the step if any, and the body as a block.
ForNum(S, x) ==
  LET base == Cur(S).freereg
      es == Front(x.kids)
      T == ToNextRegs(NewLocalVars(S, <<"(for index)", "(for limit)", "(for step)">> \o x.names), es)
      one == ReserveRegs(LoadK(Cur(T), Cur(T).freereg, Num(1)), 1)
  IN  ForBody(IF Len(es) = 3 THEN T ELSE With(T, one), base, 1, TRUE, x.kids[Len(x.kids)].kids)

\* kids: the expressions and the body as a block.
ForList(S, x) ==
  LET base == Cur(S).freereg
      es == Front(x.kids)
      r == ExpList(NewLocalVars(S, <<"(for generator)", "(for state)", "(for control)">> \o x.names), es)
      T == AdjustAssign(r.s, 3, Len(es), r.e)
  IN  ForBody(With(T, CheckStack(Cur(T), 3)), base, Len(x.names), FALSE, x.kids[Len(x.kids)].kids)

ForStat(S, x) == LET T == EnterBlock(S, TRUE)
                 IN  LeaveBlock(IF x.op = "fornum" THEN ForNum(T, x) ELSE ForList(T, x))

\* One condition with its block: [s, esc], esc the jumps to the end of the statement.
TestThenBlock(S, x, sts, esc, more) ==
  LET c == Expr(S, x)
      isgoto == sts # <<>> /\ sts[1].op \in {"goto", "break"}
      gf == GoIfFalse(Cur(c.s), c.e)
      A == GotoStat(EnterBlock(With(c.s, gf.f), FALSE),
                    IF sts[1].op = "break" THEN "break" ELSE sts[1].names[1], gf.e.t)
      a == IF Len(sts) > 1 /\ sts[2].op = "label" THEN LabelStat(A, sts, 2, FALSE)
           ELSE [s |-> A, i |-> 2]
      skip == Jump(Cur(a.s))
      gt == GoIfTrue(Cur(c.s), c.e)
      T == IF isgoto THEN LeaveBlock(StatList(With(a.s, skip.f), sts, a.i, FALSE))
           ELSE LeaveBlock(StatList(EnterBlock(With(c.s, gt.f), FALSE), sts, 1, FALSE))
      j == Jump(Cur(T))
      e == Concat(j.f, esc, j.x)
      f == IF more THEN e.f ELSE Cur(T)
  IN  IF isgoto /\ a.i > Len(sts) THEN [s |-> LeaveBlock(a.s), esc |-> esc]
      ELSE [s |-> With(T, PatchToHere(f, IF isgoto THEN skip.x ELSE gt.e.f)),
            esc |-> IF more THEN e.x ELSE esc]

\* kids: conditions and blocks in turn, and an "else" block when their number is odd.
RECURSIVE IfParts(_, _, _, _)
IfParts(S, xs, i, esc) ==
  IF i > Len(xs) THEN With(S, PatchToHere(Cur(S), esc))
  ELSE IF i = Len(xs) THEN LET T == Block(S, xs[i].kids) IN With(T, PatchToHere(Cur(T), esc))
  ELSE LET r == TestThenBlock(S, xs[i], xs[i + 1].kids, esc, i + 1 < Len(xs))
       IN  IfParts(r.s, xs, i + 2, r.esc)

IfStat(S, x) == IfParts(S, x.kids, 1, NoJump)

LocalStat(S, x) ==
  LET r == IF x.kids = <<>> THEN SE(NewLocalVars(S, x.names), Exp("void", 0))
           ELSE ExpList(NewLocalVars(S, x.names), x.kids)
  IN  AdjustLocalVars(AdjustAssign(r.s, Len(x.names), Len(x.kids), r.e), Len(x.names))

LocalFunc(S, x) == Body(AdjustLocalVars(NewLocalVars(S, x.names), 1), x.kids[1], FALSE).s

\* kids: the variable, the method's name left out, and the function.
FuncStat(S, x) ==
  LET v == SuffixedExp(S, x.kids[1])
      w == IF x.names = <<>> THEN v ELSE FieldSel(v.s, v.e, x.names[1])
      b == Body(w.s, x.kids[2], x.names # <<>>)
  IN  With(b.s, StoreVar(Cur(b.s), w.e, b.e))

\* exprstat: a call whose results nobody wants.
CallStat(S, x) ==
  LET v == SuffixedExp(S, x.kids[1])
  IN  With(v.s, [Cur(v.s) EXCEPT !.code[v.e.info + 1].c = 1])

RetStat(S, x) ==
  LET r == ExpList(S, x.kids)
      f == Cur(r.s)
      n == Len(x.kids)
      open == SetReturns(f, r.e, MultRet)
      tail == [Check(open, At(open, r.e.info).a = f.nactvar) EXCEPT !.code[r.e.info + 1].op = "TAILCALL"]
      one == Exp2AnyReg(f, r.e)
      all == Exp2NextReg(f, r.e).f
  IN  IF n = 0 THEN With(S, Ret(Cur(S), 0, 0))
      ELSE With(r.s,
           IF HasMultRet(r.e)
           THEN Ret(IF r.e.k = "call" /\ n = 1 THEN tail ELSE open, f.nactvar, MultRet)
           ELSE IF n = 1 THEN Ret(one.f, one.e.info, 1)
           ELSE Ret(Check(all, n = all.freereg - f.nactvar), f.nactvar, n))

Statement(S, x) ==
  LET j == Jump(Cur(S))
      jumped == With(S, j.f)
  IN  EndStatement(
      CASE x.op = "if" -> IfStat(S, x)
        [] x.op = "while" -> WhileStat(S, x)
        [] x.op = "do" -> Block(S, x.kids)
        [] x.op \in {"fornum", "forlist"} -> ForStat(S, x)
        [] x.op = "repeat" -> RepeatStat(S, x)
        [] x.op = "function" -> FuncStat(S, x)
        [] x.op = "localfunc" -> LocalFunc(S, x)
        [] x.op = "local" -> LocalStat(S, x)
        [] x.op = "return" -> RetStat(S, x)
        [] x.op = "break" -> GotoStat(jumped, "break", j.x)
        [] x.op = "goto" -> GotoStat(jumped, x.names[1], j.x)
        [] x.op = "call" -> CallStat(S, x)
        [] OTHER -> Assignment(S, SubSeq(x.kids, 1, x.n), SubSeq(x.kids, x.n + 1, Len(x.kids))))

\* The statements from i on; until says that the block ends with "until".  A
\* syntax error ends the parser.
StatList(S, sts, i, until) ==
  LET l == LabelStat(S, sts, i, until)
      T == EnterLevel("statement", S, sts[i])
  IN  IF Cur(S).err # "" \/ i > Len(sts) THEN S
      ELSE IF sts[i].op = "label" THEN StatList(l.s, sts, l.i, until)
      ELSE IF sts[i].op = "return" THEN T
      ELSE StatList(T, sts, i + 1, until)

\* enterlevel, without its limit on the levels.
EnterLevel(what, S, x) == IF what = "subexpr" THEN SubExpr(S, x) ELSE Statement(S, x)

\* mainfunc and luaY_parser: [proto, err, ok].  The function around the main one
\* stands for the closure that the parser leaves on the stack.
Parse(sts) ==
  LET none == [fs |-> <<>>, act |-> <<>>, lab |-> <<>>, gt |-> <<>>]
      T == OpenFunc([none EXCEPT !.fs = <<NewFunc(none)>>])
      f == [Cur(T) EXCEPT !.vararg = 2, !.upv = <<[name |-> "_ENV", instack |-> TRUE, idx |-> 0]>>]
      U == CloseFunc(StatList(With(T, f), sts, 1, FALSE))
  IN  [proto |-> Cur(U).p[1], err |-> Cur(U).err,
       ok |-> Cur(U).ok /\ U.act = <<>> /\ U.gt = <<>> /\ U.lab = <<>>]
=============================================================================
