-------------------------------- MODULE LuaVM --------------------------------
(***************************************************************************)
(* The Lua interpreter, luaV_execute of lvm.c, with the calls, returns and  *)
(* protected calls of ldo.c and the upvalues of lfunc.c, on the code that   *)
(* LuaParse makes of a program.  Each step runs one instruction, and what   *)
(* comes of the whole is compared with LuaMeaning.                          *)
(*                                                                         *)
(* The stack counts from 1: a function at position f has its registers at   *)
(* base + 0, base + 1, ..  Metamethods, floats, hooks, the collector and    *)
(* stack limits are left out; tables are functions from keys to values.     *)
(***************************************************************************)
EXTENDS LuaMeaning

CONSTANTS
  Programs,   \* a sequence of [result, means]: what LuaParse makes of a program and what it means
  MaxSteps    \* the instructions a program may run

VARIABLES
  prog,     \* the program that runs: what the parser made of it, and what it means
  stk,      \* L->stack, as far as it was ever used
  top,      \* L->top
  ci,       \* the chain of CallInfo, the running function last
  upv,      \* the upvalues: open at a stack position, or closed with a value
  clos,     \* the Lua closures
  cache,    \* Proto.cache: the last closure made from a prototype
  tabs,     \* the tables
  out,      \* what the host has been told
  status,   \* "run", "done", "error" or "rejected"
  steps     \* the instructions that were run

vars == <<prog, stk, top, ci, upv, clos, cache, tabs, out, status, steps>>

RECURSIVE Inner(_, _)
Inner(p, path) == IF path = <<>> THEN p ELSE Inner(p.p[Head(path)], Tail(path))
ProtoOf(c) == Inner(prog.result.proto, clos[c].p)

F == Last(ci)
P == ProtoOf(F.cl)
I == P.code[F.pc + 1]
Running == status = "run" /\ F.kind = "lua"
Doing(ops) == Running /\ I.op \in ops

RA == F.base + I.a
Reg(r) == stk[F.base + r]
RK(x) == IF IsK(x) THEN P.k[x - BitRK + 1] ELSE Reg(x)

Write(s, pos, vals) ==
  [i \in 1..Greater(Len(s), pos + Len(vals) - 1) |->
     IF i \in pos..pos + Len(vals) - 1 THEN vals[i - pos + 1]
     ELSE IF i <= Len(s) THEN s[i] ELSE Nil]

UpVal(u) == IF upv[u].at > 0 THEN stk[upv[u].at] ELSE upv[u].v

\* luaF_close: the upvalues at level and above take their values along.
Close(s, level) ==
  [u \in DOMAIN upv |-> IF upv[u].at >= level THEN [at |-> 0, v |-> s[upv[u].at]] ELSE upv[u]]

\* The running function goes on at instruction p.
To(p) == [ci EXCEPT ![Len(ci)].pc = p]
Skip(n) == ci' = To(F.pc + 1 + n)
SetA(v) == stk' = [stk EXCEPT ![RA] = v]
Quiet == UNCHANGED <<prog, cache, clos, out, status>>
Local == Quiet /\ UNCHANGED <<top, upv, tabs>>

-----------------------------------------------------------------------------
(* Errors and the end of calls.                                            *)

\* luaD_poscall: the results of frame fr go where its function was: [stk, top].
PosCall(s, fr, vals) ==
  LET n == IF fr.nres = MultRet THEN Len(vals) ELSE fr.nres
  IN  [stk |-> Write(s, fr.func, Adjust(vals, n)), top |-> fr.func + n]

\* Frame fr has ended with these results; chain is what is called below it.
Finish(s, chain, fr, vals) ==
  LET r == PosCall(s, fr, vals)
      lua == chain # <<>> /\ Last(chain).kind = "lua"
  IN  /\ stk' = r.stk
      /\ top' = IF lua /\ fr.nres # MultRet THEN Last(chain).top ELSE r.top
      /\ ci' = chain
      /\ status' = IF chain = <<>> THEN "done" ELSE status
      /\ UNCHANGED <<prog, tabs, cache, clos>>

\* luaD_throw to the last protected call, which closes and gives up what lies above
\* it; without one, to the host's own.
Throw(v) ==
  LET guards == {i \in DOMAIN ci : ci[i].kind = "pcall"}
      j == CHOOSE i \in guards : \A k \in guards : k <= i
  IN  IF guards = {}
      THEN /\ status' = "error"
           /\ stk' = Write(stk, 1, <<v>>)
           /\ top' = 2
           /\ ci' = <<>>
           /\ upv' = Close(stk, 1)
           /\ UNCHANGED <<prog, tabs, cache, clos, out>>
      ELSE /\ upv' = Close(stk, ci[j].func + 2)
           /\ Finish(stk, SubSeq(ci, 1, j - 1), ci[j], <<Bool(FALSE), v>>)
           /\ UNCHANGED out

\* The value a step computes goes to register A; without one the step fails.
Compute(vals) ==
  IF vals = {} THEN Throw(Message)
  ELSE SetA(CHOOSE v \in vals : TRUE) /\ Skip(0) /\ Local

-----------------------------------------------------------------------------
(* Calls.                                                                  *)

LuaFrame(c, base, func, nres, size) ==
  [kind |-> "lua", cl |-> c, base |-> base, func |-> func, pc |-> 0, nres |-> nres,
   top |-> base + size]

\* luaD_precall for a Lua function called with what lies up to t: [stk, frame].
Enter(s, t, func, nres) ==
  LET c == s[func][2]
      p == ProtoOf(c)
      args == SubSeq(s, func + 1, t - 1)
      fixed == Adjust(args, p.numparams)
      base == IF p.vararg = 1 THEN t ELSE func + 1
      erased == [i \in 1..Lesser(Len(args), p.numparams) |-> Nil]
      moved == IF p.vararg = 1 THEN Write(Write(s, func + 1, erased), base, fixed)
               ELSE Write(s, func + 1, fixed \o SubSeq(args, p.numparams + 1, Len(args)))
      size == Greater(Len(moved), base + p.maxstack - 1)
  IN  [stk |-> [i \in 1..size |-> IF i <= Len(moved) THEN moved[i] ELSE Nil],
       fr |-> LuaFrame(c, base, func, nres, p.maxstack)]

\* The results of a host function, and the tables it reads.
HostResult(name, args) ==
  HostCall([cells |-> <<>>, tabs |-> tabs, fns |-> <<>>, out |-> out], name, args)

\* luaD_precall on the function at func, from the frames in chain; s and t: stack and top.
PreCall(s, t, func, nres, chain) ==
  LET f == s[func]
      args == SubSeq(s, func + 1, t - 1)
      e == Enter(s, t, func, nres)
      h == HostResult(f[2], args)
  IN  CASE f[1] = "fn" ->
             /\ stk' = e.stk /\ top' = e.fr.top /\ ci' = Append(chain, e.fr)
             /\ Quiet /\ UNCHANGED <<upv, tabs>>
        [] f = Host("pcall") /\ args # <<>> ->
             /\ stk' = Write(s, func + 1, <<Bool(TRUE)>> \o args)
             /\ top' = t + 1
             /\ ci' = Append(chain, [kind |-> "pcall", func |-> func, pc |-> 0, nres |-> nres])
             /\ Quiet /\ UNCHANGED <<upv, tabs>>
        [] f[1] = "host" /\ h.x = "ok" ->
             Finish(s, chain, [func |-> func, nres |-> nres], h.v) /\ out' = h.s.out /\ UNCHANGED upv
        [] OTHER -> Throw(IF f[1] = "host" THEN h.v[1] ELSE Message)

\* The arguments of an instruction end at ra + b, or where the last one left the top.
ArgTop == IF I.b = 0 THEN top ELSE RA + I.b

DoCall == Doing({"CALL"}) /\ PreCall(stk, ArgTop, RA, I.c - 1, To(F.pc + 1))

\* A Lua function that is tail called takes the place of its caller.
DoTailCall ==
  /\ Doing({"TAILCALL"})
  /\ IF stk[RA][1] # "fn" THEN PreCall(stk, ArgTop, RA, MultRet, To(F.pc + 1))
     ELSE LET e == Enter(stk, ArgTop, RA, MultRet)
              p == ProtoOf(e.fr.cl)
              down == RA - F.func
              moved == Write(e.stk, F.func, SubSeq(e.stk, RA, e.fr.base + p.numparams - 1))
          IN  /\ upv' = IF P.p # <<>> THEN Close(e.stk, F.base) ELSE upv
              /\ stk' = moved
              /\ top' = e.fr.top - down
              /\ ci' = [ci EXCEPT ![Len(ci)] =
                          [e.fr EXCEPT !.func = F.func, !.base = @ - down, !.top = @ - down, !.nres = F.nres]]
              /\ Quiet /\ UNCHANGED tabs

\* Mutated: a function that returns leaves the upvalues of its variables open.
DoReturn_Open ==
  /\ Doing({"RETURN"})
  /\ Finish(stk, Front(ci), F, SubSeq(stk, RA, (IF I.b = 0 THEN top ELSE RA + I.b - 1) - 1))
  /\ UNCHANGED <<upv, out>>

DoReturn ==
  /\ Doing({"RETURN"})
  /\ upv' = IF P.p # <<>> THEN Close(stk, F.base) ELSE upv
  /\ Finish(stk, Front(ci), F, SubSeq(stk, RA, (IF I.b = 0 THEN top ELSE RA + I.b - 1) - 1))
  /\ UNCHANGED out

\* luaB_pcall calls its argument, and when that has returned hands on its results.
PcallBegin ==
  /\ status = "run" /\ F.kind = "pcall" /\ F.pc = 0
  /\ PreCall(stk, top, F.func + 2, MultRet, To(1))

PcallEnd ==
  /\ status = "run" /\ F.kind = "pcall" /\ F.pc = 1
  /\ Finish(stk, Front(ci), F, SubSeq(stk, F.func + 1, top - 1))
  /\ UNCHANGED <<upv, out>>

-----------------------------------------------------------------------------
(* The other instructions.                                                 *)

DoMove == Doing({"MOVE"}) /\ SetA(Reg(I.b)) /\ Skip(0) /\ Local

DoLoadK ==
  \/ Doing({"LOADK"}) /\ SetA(P.k[I.b + 1]) /\ Skip(0) /\ Local
  \/ Doing({"LOADKX"}) /\ SetA(P.k[P.code[F.pc + 2].b + 1]) /\ Skip(1) /\ Local

DoLoadBool == Doing({"LOADBOOL"}) /\ SetA(Bool(I.b = 1)) /\ Skip(IF I.c # 0 THEN 1 ELSE 0) /\ Local

DoLoadNil ==
  /\ Doing({"LOADNIL"})
  /\ stk' = Write(stk, RA, [i \in 1..I.b + 1 |-> Nil])
  /\ Skip(0) /\ Local

DoGetUpval == Doing({"GETUPVAL"}) /\ SetA(UpVal(clos[F.cl].up[I.b + 1])) /\ Skip(0) /\ Local

DoSetUpval ==
  /\ Doing({"SETUPVAL"})
  /\ LET u == clos[F.cl].up[I.b + 1]
     IN  IF upv[u].at > 0 THEN stk' = [stk EXCEPT ![upv[u].at] = stk[RA]] /\ UNCHANGED upv
         ELSE upv' = [upv EXCEPT ![u].v = stk[RA]] /\ UNCHANGED stk
  /\ Skip(0) /\ Quiet /\ UNCHANGED <<top, tabs>>

Field(t, k) == IF t[1] = "tab" THEN {Get(tabs[t[2]], k)} ELSE {}

DoGetTable ==
  \/ Doing({"GETTABUP"}) /\ Compute(Field(UpVal(clos[F.cl].up[I.b + 1]), RK(I.c)))
  \/ Doing({"GETTABLE"}) /\ Compute(Field(Reg(I.b), RK(I.c)))

DoSelf ==
  /\ Doing({"SELF"})
  /\ LET m == Field(Reg(I.b), RK(I.c))
     IN  IF m = {} THEN Throw(Message)
         ELSE stk' = Write(stk, RA, <<CHOOSE v \in m : TRUE, Reg(I.b)>>) /\ Skip(0) /\ Local

DoSetTable ==
  /\ Doing({"SETTABUP", "SETTABLE"})
  /\ LET t == IF I.op = "SETTABLE" THEN stk[RA] ELSE UpVal(clos[F.cl].up[I.a + 1])
     IN  IF t[1] # "tab" \/ RK(I.b) = Nil THEN Throw(Message)
         ELSE /\ tabs' = [tabs EXCEPT ![t[2]] = Put(@, RK(I.b), RK(I.c))]
              /\ Skip(0) /\ Quiet /\ UNCHANGED <<stk, top, upv>>

DoNewTable ==
  /\ Doing({"NEWTABLE"})
  /\ SetA(<<"tab", Len(tabs) + 1>>)
  /\ tabs' = Append(tabs, <<>>)
  /\ Skip(0) /\ Quiet /\ UNCHANGED <<top, upv>>

DoArith == Doing(ArithOps) /\ Compute(Apply2(I.op, RK(I.b), RK(I.c)))

DoUnary == Doing({"UNM", "NOT", "LEN"}) /\ Compute(Apply1(I.op, Reg(I.b), tabs))

DoConcat ==
  /\ Doing({"CONCAT"})
  /\ LET vs == SubSeq(stk, F.base + I.b, F.base + I.c)
         text == FoldLeft(LAMBDA a, v : a \o Text(v), "", vs)
     IN  IF \E i \in DOMAIN vs : ~IsText(vs[i]) THEN Throw(Message)
         ELSE /\ SetA(Str(text)) /\ Skip(0)
              /\ top' = F.top
              /\ Quiet /\ UNCHANGED <<upv, tabs>>

\* dojump: a jump also closes the variables from register A - 1 on.
Jumping(i, p) ==
  /\ upv' = IF i.a # 0 THEN Close(stk, F.base + i.a - 1) ELSE upv
  /\ ci' = To(p + 1 + i.b)
  /\ Quiet /\ UNCHANGED <<top, tabs>>

DoJump == Doing({"JMP"}) /\ Jumping(I, F.pc) /\ UNCHANGED stk

\* A test goes on with the jump after it when it holds, and behind that jump otherwise.
Branch(holds) ==
  IF holds THEN Jumping(P.code[F.pc + 2], F.pc + 1) ELSE Skip(1) /\ Quiet /\ UNCHANGED <<top, upv, tabs>>

DoCompare ==
  /\ Doing({"EQ", "LT", "LE"})
  /\ LET r == Apply2(I.op, RK(I.b), RK(I.c))
     IN  IF r = {} THEN Throw(Message) ELSE Branch(r = {Bool(I.a = 1)}) /\ UNCHANGED stk

DoTest ==
  \/ Doing({"TEST"}) /\ Branch(Truth(stk[RA]) = (I.c = 1)) /\ UNCHANGED stk
  \/ /\ Doing({"TESTSET"})
     /\ LET holds == Truth(Reg(I.b)) = (I.c = 1)
        IN  Branch(holds) /\ IF holds THEN SetA(Reg(I.b)) ELSE UNCHANGED stk

DoForPrep ==
  /\ Doing({"FORPREP"})
  /\ IF \E i \in 0..2 : ~IsNum(stk[RA + i]) THEN Throw(Message)
     ELSE /\ SetA(Num(stk[RA][2] - stk[RA + 2][2]))
          /\ Skip(I.b) /\ Local

DoForLoop ==
  /\ Doing({"FORLOOP"})
  /\ LET step == stk[RA + 2][2]
         idx == stk[RA][2] + step
         limit == stk[RA + 1][2]
     IN  IF IF 0 < step THEN idx <= limit ELSE limit <= idx
         THEN stk' = [stk EXCEPT ![RA] = Num(idx), ![RA + 3] = Num(idx)] /\ Skip(I.b)
         ELSE UNCHANGED stk /\ Skip(0)
  /\ Local

DoTForCall ==
  /\ Doing({"TFORCALL"})
  /\ PreCall(Write(stk, RA + 3, SubSeq(stk, RA, RA + 2)), RA + 6, RA + 3, I.c, To(F.pc + 1))

DoTForLoop ==
  /\ Doing({"TFORLOOP"})
  /\ IF stk[RA + 1] # Nil THEN SetA(stk[RA + 1]) /\ Skip(I.b) ELSE UNCHANGED stk /\ Skip(0)
  /\ Local

DoSetList ==
  /\ Doing({"SETLIST"})
  /\ LET n == IF I.b = 0 THEN top - RA - 1 ELSE I.b
         c == IF I.c = 0 THEN P.code[F.pc + 2].b ELSE I.c
         first == (c - 1) * FieldsPerFlush
         new == [k \in {Num(first + i) : i \in {j \in 1..n : stk[RA + j] # Nil}} |-> stk[RA + k[2] - first]]
         t == stk[RA][2]
     IN  tabs' = [tabs EXCEPT ![t] = new @@ @]
  /\ top' = F.top
  /\ Skip(IF I.c = 0 THEN 1 ELSE 0)
  /\ Quiet /\ UNCHANGED <<stk, upv>>

\* getcached: closure c has the very variables that a new one would get.
SameUpvalues(c, descs) ==
  \A i \in DOMAIN descs :
    IF descs[i].instack THEN upv[clos[c].up[i]].at = F.base + descs[i].idx
    ELSE clos[c].up[i] = clos[F.cl].up[descs[i].idx + 1]

\* luaF_findupval: the open upvalue of a stack position, new if there is none: [upv, ids].
FindUpval(acc, level) ==
  LET found == {u \in DOMAIN acc.upv : acc.upv[u].at = level}
  IN  IF found # {} THEN [acc EXCEPT !.ids = Append(@, CHOOSE u \in found : TRUE)]
      ELSE [upv |-> Append(acc.upv, [at |-> level, v |-> Nil]),
            ids |-> Append(acc.ids, Len(acc.upv) + 1)]

PushClosure(descs) ==
  FoldLeft(LAMBDA acc, d : IF d.instack THEN FindUpval(acc, F.base + d.idx)
                           ELSE [acc EXCEPT !.ids = Append(@, clos[F.cl].up[d.idx + 1])],
           [upv |-> upv, ids |-> <<>>], descs)

DoClosure ==
  /\ Doing({"CLOSURE"})
  /\ LET path == Append(clos[F.cl].p, I.b + 1)
         descs == Inner(prog.result.proto, path).upv
         new == PushClosure(descs)
     IN  IF path \in DOMAIN cache /\ SameUpvalues(cache[path], descs)
         THEN SetA(<<"fn", cache[path]>>) /\ UNCHANGED <<upv, clos, cache>>
         ELSE /\ SetA(<<"fn", Len(clos) + 1>>)
              /\ upv' = new.upv
              /\ clos' = Append(clos, [p |-> path, up |-> new.ids])
              /\ cache' = (path :> Len(clos) + 1) @@ cache
  /\ Skip(0)
  /\ UNCHANGED <<prog, top, tabs, out, status>>

DoVararg ==
  /\ Doing({"VARARG"})
  /\ LET n == Greater(F.base - F.func - P.numparams - 1, 0)
         extra == SubSeq(stk, F.base - n, F.base - 1)
         want == IF I.b = 0 THEN n ELSE I.b - 1
     IN  /\ stk' = Write(stk, RA, Adjust(extra, want))
         /\ top' = IF I.b = 0 THEN RA + n ELSE top
  /\ Skip(0) /\ Quiet /\ UNCHANGED <<upv, tabs>>

-----------------------------------------------------------------------------
(* The main function lies at position 1, and its upvalue is the globals.   *)

Init ==
  /\ \E i \in DOMAIN Programs : prog = Programs[i]
  /\ LET p == prog.result.proto
         err == prog.result.err # ""
     IN  /\ stk = [i \in 1..p.maxstack + 1 |-> IF i = 1 THEN <<"fn", 1>> ELSE Nil]
         /\ top = IF err THEN 1 ELSE 2 + p.maxstack
         /\ ci = IF err THEN <<>> ELSE <<LuaFrame(1, 2, 1, MultRet, p.maxstack)>>
         /\ status = IF err THEN "rejected" ELSE "run"
  /\ upv = <<[at |-> 0, v |-> <<"tab", 1>>]>>
  /\ clos = <<[p |-> <<>>, up |-> <<1>>]>>
  /\ cache = <<>>
  /\ tabs = <<Globals>>
  /\ out = <<>>
  /\ steps = 0

Instruction ==
  \/ DoCall \/ DoTailCall \/ DoReturn \/ PcallBegin \/ PcallEnd
  \/ DoMove \/ DoLoadK \/ DoLoadBool \/ DoLoadNil \/ DoGetUpval \/ DoSetUpval
  \/ DoGetTable \/ DoSelf \/ DoSetTable \/ DoNewTable
  \/ DoArith \/ DoUnary \/ DoConcat \/ DoJump \/ DoCompare \/ DoTest
  \/ DoForPrep \/ DoForLoop \/ DoTForCall \/ DoTForLoop
  \/ DoSetList \/ DoClosure \/ DoVararg

Next ==
  \/ steps < MaxSteps /\ Instruction /\ steps' = steps + 1
  \/ status # "run" /\ UNCHANGED vars

Spec == Init /\ [][Next]_vars

-----------------------------------------------------------------------------
(* Properties.                                                             *)

\* Every program ends, and then what it told the host, how it ended and the values
\* it returned are what its text means: the code of lparser.c and lcode.c, run
\* by lvm.c, computes nothing else.  A program is rejected only if it is illegal.
CodeMeansProgram ==
  LET m == prog.means
  IN  IF status = "run" THEN steps < MaxSteps
      ELSE /\ status = m.x
           /\ out = m.out
           /\ status \in {"done", "error"} => ShowAll(SubSeq(stk, 1, top - 1)) = m.v

\* The assertions of the compiler hold for every legal program: registers are
\* freed in the order of a stack, every temporary is free at the end of a
\* statement, a block begins without any, and jumps to close go inwards only.
CompilerAssertions == prog.result.err = "" => prog.result.ok

\* The registers an instruction writes or reads all lie in the frame.
Highest(i) ==
  CASE i.op \in {"LOADNIL", "SETLIST"} -> i.a + i.b
    [] i.op = "SELF" -> i.a + 1
    [] i.op \in {"CALL", "TAILCALL"} -> i.a + Greater(i.b - 1, Greater(i.c - 2, 0))
    [] i.op = "RETURN" -> i.a + Greater(i.b - 2, -1)
    [] i.op = "VARARG" -> i.a + Greater(i.b - 2, 0)
    [] i.op \in {"FORLOOP", "FORPREP"} -> i.a + 3
    [] i.op = "TFORCALL" -> i.a + 2 + Greater(3, i.c)
    [] i.op = "CONCAT" -> Greater(i.a, i.c)
    [] i.op \in {"JMP", "EQ", "LT", "LE", "SETTABUP"} -> -1
    [] OTHER -> i.a

\* The frame is large enough for the instruction; the top of the stack is the
\* end of the frame except between an instruction that leaves it open and the
\* one that takes what it left; a skipped extra argument is never run.
FrameDiscipline ==
  Running =>
    /\ I.op # "EXTRAARG"
    /\ F.base + Highest(I) < F.top
    /\ top = F.top \/ (I.op \in {"CALL", "TAILCALL", "RETURN", "SETLIST"} /\ I.b = 0
                      /\ top >= RA + (IF I.op = "RETURN" THEN 0 ELSE 1))

\* An open upvalue belongs to a variable that is in use: a frame that has ended
\* or a block that was left keeps none, and no two upvalues share a variable.
UpvaluesLive ==
  /\ \A u \in DOMAIN upv : upv[u].at > 0 =>
       \E i \in DOMAIN ci : ci[i].kind = "lua" /\ upv[u].at >= ci[i].base /\ upv[u].at < ci[i].top
                            /\ (i < Len(ci) => upv[u].at < ci[i + 1].func)
  /\ \A u, w \in DOMAIN upv : upv[u].at > 0 /\ upv[u].at = upv[w].at => u = w

\* The compiled code keeps to what the virtual machine takes for granted.
CodeSound == CompilerAssertions /\ FrameDiscipline /\ UpvaluesLive
=============================================================================
