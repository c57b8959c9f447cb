------------------------------- MODULE LuaDo --------------------------------
(***************************************************************************)
(* Calls, errors and coroutines as src/libs/liblua/src/ldo.c makes them:   *)
(* one stack of values and one list of call infos per thread, and one C    *)
(* stack under all of them, which an error or a yield cuts back to the     *)
(* last protected point of its thread (luaD_rawrunprotected).  What was on *)
(* the C stack above that point is lost; the call infos hold what is       *)
(* needed to finish the calls whose C frames are gone: a continuation, the *)
(* place of a protected call, the number of results.                       *)
(*                                                                         *)
(* The program is any: a Lua function keeps its first register and calls,  *)
(* makes, returns or raises what it likes; C functions are those of        *)
(* lbaselib.c and lcorolib.c that call, and two clients of the interface:  *)
(* "call", which calls with no continuation as table.sort does, and        *)
(* "yieldk", which yields and goes on in a continuation.                   *)
(***************************************************************************)
EXTENDS Integers, Sequences, SequencesExt, FiniteSets

CONSTANTS Main, Coroutines,
          WrapOf,       \* from the functions that coroutine.wrap made to the threads
          MaxFrames,    \* bound on the frames of each thread
          MaxCcalls,    \* bound on the calls of C that a thread counts
          Locals,       \* the values of their own of functions, by depth
          MayCall,      \* the functions that Lua functions call, by thread
          Bodies,       \* the functions coroutines are made of
          Protected     \* what is called protected: a function and its first arguments

\* The main thread is no coroutine, and what coroutine.wrap made is one.
ThreadsAssumption == /\ Main \notin Coroutines
                     /\ \A w \in DOMAIN WrapOf : WrapOf[w] \in Coroutines
ASSUME ThreadsAssumption

VARIABLES threads, cstack

vars == <<threads, cstack>>

Threads == {Main} \cup Coroutines
Wraps == DOMAIN WrapOf
Functions == {"L", "pcall", "xpcall", "call", "dofile", "yield", "yieldk", "error",
              "create", "resume"} \cup Wraps

\* A protected call has a function, and functions as its first arguments.
ProtectedAssumption == \A call \in Protected : call \in Seq(Functions) /\ call # <<>>
ASSUME ProtectedAssumption

MULTRET == -1

\* A call info: where its function is on the stack, how many results its
\* caller wants, and the fields of l.u.c and l.u.l.
CallInfo(fn, func, nresults, fresh) ==
    [fn |-> fn, func |-> func, nresults |-> nresults, fresh |-> fresh,
     k |-> FALSE, ypcall |-> FALSE, extra |-> 0, old_errfunc |-> 0]

isLua(ci) == ci.fn = "L"
base_ci == CallInfo("base", 1, MULTRET, FALSE)

preinit_thread == [status |-> "OK", nny |-> 1, nCcalls |-> 0, errfunc |-> 0,
                   ci |-> <<base_ci>>, stack |-> <<"nil">>]
NoThread == [preinit_thread EXCEPT !.status = "none"]

\* What is on the C stack: luaV_execute, a C function called by
\* luaD_precall, luaD_call (of a client that goes on to finish its work when
\* it returns), luaD_pcall with its luaD_rawrunprotected, lua_resume with
\* its own.  Each is for the call info that L->ci was when it was entered.
Exec(l, n) == [f |-> "luaV_execute", l |-> l, ci |-> n]
CFunction(l, n) == [f |-> "C", l |-> l, ci |-> n, st |-> "start"]
DCall(l, n, noyield) == [f |-> "luaD_call", l |-> l, ci |-> n, noyield |-> noyield]

IsRaw(r) == r.f \in {"luaD_pcall", "lua_resume"}

\* The machine as one value, that the functions of the code change in turn.
Machine == [th |-> threads, cs |-> cstack]
Become(x) == threads' = x.th /\ cstack' = x.cs

ci(x, l) == Last(x.th[l].ci)
lua_gettop(x, l) == Len(x.th[l].stack) - ci(x, l).func
Values(x, l) == SubSeq(x.th[l].stack, ci(x, l).func + 1, Len(x.th[l].stack))
SetStack(x, l, s) == [x EXCEPT !.th[l].stack = s]
Push(x, l, vals) == [x EXCEPT !.th[l].stack = @ \o vals]
Drop(x, l, n) == [x EXCEPT !.th[l].stack = SubSeq(@, 1, Len(@) - n)]
LastOf(s, n) == SubSeq(s, Len(s) - n + 1, Len(s))
SetCi(x, l, c) == [x EXCEPT !.th[l].ci = Append(Front(@), c)]
PushC(x, r) == [x EXCEPT !.cs = Append(@, r)]
PopC(x) == [x EXCEPT !.cs = Front(@)]

-----------------------------------------------------------------------------
(* Calls and returns.                                                      *)

luaD_precall(x, l, func, nresults, fresh) ==
    LET fn == x.th[l].stack[func]
        y  == [x EXCEPT !.th[l].ci = Append(@, CallInfo(fn, func, nresults, fresh))]
        n  == Len(y.th[l].ci)
    IN  IF fn # "L" THEN PushC(y, CFunction(l, n)) ELSE IF fresh THEN PushC(y, Exec(l, n)) ELSE y

moveresults(vals, wanted) ==
    IF wanted = MULTRET THEN vals
    ELSE [i \in 1..wanted |-> IF i <= Len(vals) THEN vals[i] ELSE "nil"]

luaD_poscall(x, l, vals) ==
    LET c == ci(x, l)
    IN  [x EXCEPT !.th[l].ci = Front(@),
                  !.th[l].stack = SubSeq(@, 1, c.func - 1) \o moveresults(vals, c.nresults)]

\* luaD_call and luaD_callnoyield of a function with nargs arguments.
luaD_call(x, l, nargs, nresults, noyield) ==
    LET y == [x EXCEPT !.th[l].nCcalls = @ + 1, !.th[l].nny = @ + (IF noyield THEN 1 ELSE 0)]
        r == DCall(l, Len(x.th[l].ci), noyield)
    IN  luaD_precall(PushC(y, r), l, Len(x.th[l].stack) - nargs, nresults, TRUE)

CallDone(x, l) ==
    LET r == Last(x.cs)
    IN  PopC([x EXCEPT !.th[l].nCcalls = @ - 1, !.th[l].nny = @ - (IF r.noyield THEN 1 ELSE 0)])

\* A C function returns its last n values to luaD_precall.
CReturn(x, l, n) == PopC(luaD_poscall(x, l, LastOf(x.th[l].stack, n)))

lua_callk(x, l, nargs, nresults, k) ==
    IF k /\ x.th[l].nny = 0
    THEN luaD_call(SetCi(x, l, [ci(x, l) EXCEPT !.k = TRUE]), l, nargs, nresults, FALSE)
    ELSE luaD_call(x, l, nargs, nresults, TRUE)

luaD_pcall(x, l, nargs, errfunc) ==
    LET t == x.th[l]
        r == [f |-> "luaD_pcall", l |-> l, ci |-> Len(t.ci), nny |-> t.nny,
              errfunc |-> t.errfunc, oldtop |-> Len(t.stack) - nargs, nCcalls |-> t.nCcalls]
    IN  luaD_call(PushC([x EXCEPT !.th[l].errfunc = errfunc], r), l, nargs, MULTRET, TRUE)

lua_pcallk(x, l, nargs, errfunc) ==
    IF x.th[l].nny > 0 THEN luaD_pcall(x, l, nargs, errfunc)
    ELSE LET t == x.th[l]
             c == [ci(x, l) EXCEPT !.k = TRUE, !.extra = Len(t.stack) - nargs,
                                   !.old_errfunc = t.errfunc, !.ypcall = TRUE]
         IN  luaD_call([SetCi(x, l, c) EXCEPT !.th[l].errfunc = errfunc], l, nargs, MULTRET, FALSE)

\* How many of its values finishpcall returns, and the values themselves
\* when there was an error.
Extra(fn) == IF fn = "xpcall" THEN 2 ELSE 0
FinishedCall(x, l, failed) == IF failed THEN Push(x, l, <<"false", Last(x.th[l].stack)>>) ELSE x
finishpcall(x, l, failed) == IF failed THEN 2 ELSE lua_gettop(x, l) - Extra(ci(x, l).fn)

\* What a C function returns when the function it called has returned, in
\* its body as in its continuation.
Returns(x, l) ==
    CASE ci(x, l).fn \in {"pcall", "xpcall"} -> finishpcall(x, l, FALSE)
      [] ci(x, l).fn = "call"   -> 1
      [] ci(x, l).fn = "dofile" -> lua_gettop(x, l) - 1
      [] ci(x, l).fn = "yieldk" -> lua_gettop(x, l)

\* After the call of lua_pcallk that kept a continuation.
EndYpcall(x, l) ==
    IF ~ci(x, l).ypcall THEN x
    ELSE [SetCi(x, l, [ci(x, l) EXCEPT !.ypcall = FALSE])
            EXCEPT !.th[l].errfunc = ci(x, l).old_errfunc]

-----------------------------------------------------------------------------
(* Errors.                                                                 *)

\* The error on the top of the stack goes through the handler of the thread.
luaG_errormsg(x, l) ==
    IF x.th[l].errfunc = 0 THEN x
    ELSE SetStack(x, l, Append(Front(x.th[l].stack), "h"))

\* seterrorobj(L, status, oldtop)
seterrorobj(x, l, oldtop) ==
    SetStack(x, l, Append(SubSeq(x.th[l].stack, 1, oldtop - 1), Last(x.th[l].stack)))

\* finishCcall of the last call info, after a yield or an error.
finishCcall(x, l, failed) ==
    LET y == FinishedCall(EndYpcall(x, l), l, failed)
        n == IF failed THEN 2 ELSE Returns(y, l)
    IN  luaD_poscall(y, l, LastOf(y.th[l].stack, n))

\* Fault: the recover point found first from below.
findpcall_First(x, l) ==
    LET found == {i \in DOMAIN x.th[l].ci : x.th[l].ci[i].ypcall}
    IN  IF found = {} THEN 0 ELSE CHOOSE i \in found : \A j \in found : i <= j

findpcall(x, l) ==
    LET found == {i \in DOMAIN x.th[l].ci : x.th[l].ci[i].ypcall}
    IN  IF found = {} THEN 0 ELSE CHOOSE i \in found : \A j \in found : j <= i

\* Fault: the thread stays as unyieldable as it was when the error came.
recover_KeepsNny(x, l) ==
    LET p == findpcall(x, l)
        c == x.th[l].ci[p]
        y == [seterrorobj(x, l, c.extra) EXCEPT
                 !.th[l].ci = SubSeq(@, 1, p),
                 !.th[l].errfunc = c.old_errfunc]
    IN  finishCcall(y, l, TRUE)

recover(x, l) ==
    LET p == findpcall(x, l)
        c == x.th[l].ci[p]
        y == [seterrorobj(x, l, c.extra) EXCEPT
                 !.th[l].ci = SubSeq(@, 1, p),
                 !.th[l].nny = 0,
                 !.th[l].errfunc = c.old_errfunc]
    IN  finishCcall(y, l, TRUE)

\* auxresume after lua_resume: the values or the error go from co to from,
\* and luaB_coresume returns them, luaB_auxwrap returns or raises them.
auxresume(x, from, co, ok) ==
    LET n == IF ok THEN lua_gettop(x, co) ELSE 1
        v == LastOf(x.th[co].stack, n)
        y == Push(Drop(x, co, n), from, v)
        a == IF ok THEN "true" ELSE "false"
    IN  CASE ci(x, from).fn = "resume" ->
               PopC(luaD_poscall(y, from, <<a>> \o v))
          [] ci(x, from).fn # "resume" /\ ok -> CReturn(y, from, n)
          [] OTHER -> [y EXCEPT !.cs[Len(y.cs)].st = "raise"]

\* The end of lua_resume.
ResumeEnds(x, ok) ==
    LET r == Last(x.cs)
        y == [x EXCEPT !.th[r.l].nny = r.oldnny, !.th[r.l].nCcalls = @ - 1]
    IN  auxresume(PopC(y), r.from, r.l, ok)

\* luaD_throw: the C stack is cut to the last protected point of the thread,
\* and that function goes on.
luaD_throw(x, l, status) ==
    LET raws == {i \in DOMAIN x.cs : IsRaw(x.cs[i]) /\ x.cs[i].l = l}
        i == CHOOSE j \in raws : \A k \in raws : k <= j
        r == x.cs[i]
        y == [x EXCEPT !.cs = SubSeq(@, 1, i), !.th[l].nCcalls = r.nCcalls]
        s == seterrorobj(y, l, r.oldtop)
        z == PopC([s EXCEPT !.th[l].ci = SubSeq(@, 1, r.ci), !.th[l].nny = r.nny,
                            !.th[l].errfunc = r.errfunc])
    IN  CASE r.f = "luaD_pcall" /\ i > 1 -> CReturn(FinishedCall(z, l, TRUE), l, 2)
          [] r.f = "luaD_pcall" /\ i = 1 -> z
          [] r.f = "lua_resume" /\ status = "YIELD" -> ResumeEnds(y, TRUE)
          [] r.f = "lua_resume" /\ status # "YIELD" /\ findpcall(y, l) # 0 -> recover(y, l)
          [] OTHER -> ResumeEnds([y EXCEPT !.th[l].status = status,
                                           !.th[l].stack = Append(@, Last(@))], FALSE)

-----------------------------------------------------------------------------
(* Yields and resumptions.                                                 *)

luaG_runerror(x, l) == luaD_throw(luaG_errormsg(Push(x, l, <<"E">>), l), l, "ERRRUN")
luaL_argerror(x, l) == luaG_runerror(x, l)

lua_yieldk(x, l, n, k) ==
    IF x.th[l].nny > 0 THEN luaG_runerror(x, l)
    ELSE LET c == [ci(x, l) EXCEPT !.extra = ci(x, l).func, !.k = k,
                                   !.func = Len(x.th[l].stack) - n]
         IN  luaD_throw([SetCi(x, l, c) EXCEPT !.th[l].status = "YIELD"], l, "YIELD")

\* resume, of a thread with n arguments on its stack.
resume_error(x, l, n) == ResumeEnds(Push(Drop(x, l, n), l, <<"E">>), FALSE)

\* Fault: a thread that goes on is not marked as running again.
resume_StillYield(x, l, n) ==
    LET t == x.th[l]
        c == [ci(x, l) EXCEPT !.func = ci(x, l).extra]
        y == SetCi(x, l, c)
    IN  CASE t.status = "OK" /\ Len(t.ci) = 1 ->
               luaD_precall(x, l, Len(t.stack) - n, MULTRET, TRUE)
          [] t.status = "YIELD" ->
               luaD_poscall(y, l, LastOf(t.stack, IF c.k THEN Returns(y, l) ELSE n))
          [] OTHER -> resume_error(x, l, n)

resume(x, l, n) ==
    LET t == x.th[l]
        c == [ci(x, l) EXCEPT !.func = ci(x, l).extra]
        y == [SetCi(x, l, c) EXCEPT !.th[l].status = "OK"]
    IN  CASE t.status = "OK" /\ Len(t.ci) = 1 ->
               luaD_precall(x, l, Len(t.stack) - n, MULTRET, TRUE)
          [] t.status = "YIELD" ->
               luaD_poscall(y, l, LastOf(t.stack, IF c.k THEN Returns(y, l) ELSE n))
          [] OTHER -> resume_error(x, l, n)

lua_resume(x, from, l, n) ==
    LET nCcalls == x.th[from].nCcalls + 1
        r == [f |-> "lua_resume", l |-> l, from |-> from, oldnny |-> x.th[l].nny,
              nCcalls |-> nCcalls, ci |-> 0, nny |-> 0, errfunc |-> 0, oldtop |-> 1]
    IN  resume(PushC([x EXCEPT !.th[l].nCcalls = nCcalls, !.th[l].nny = 0], r), l, n)

\* auxresume, in from, which gives its last n values to co.
StartResume(x, from, co, n) ==
    IF x.th[co].status = "OK" /\ lua_gettop(x, co) = 0
    THEN LET y == Push(x, from, <<"E">>)
         IN  IF ci(x, from).fn = "resume"
             THEN PopC(luaD_poscall(y, from, <<"false", "E">>))
             ELSE [y EXCEPT !.cs[Len(y.cs)].st = "raise"]
    ELSE lua_resume(Push(Drop(x, from, n), co, LastOf(x.th[from].stack, n)), from, co, n)

-----------------------------------------------------------------------------
(* What the machine does next is told by the top of its C stack.           *)

Running == Last(cstack).l
On(f) == cstack # <<>> /\ Last(cstack).f = f
InLua == On("luaV_execute")
Vals == Values(Machine, Running)
HasRoom == /\ Len(threads[Running].ci) < MaxFrames[Running]
           /\ threads[Running].nCcalls < MaxCcalls

\* A Lua function has its first register, an argument or a value of its own,
\* and drops the results of a call when it goes on.
Local == SubSeq(Vals, 1, 1)
Kept == SetStack(Machine, Running,
                 SubSeq(threads[Running].stack, 1, ci(Machine, Running).func + 1))

OP_LOADK ==
    /\ InLua /\ Vals = <<>>
    /\ Become(Push(Machine, Running, <<Locals[Len(threads[Running].ci)]>>))

\* The calls that a Lua function makes: a function and its arguments.
Live == {t \in Threads : threads[t].status # "none"}
CallsOf(args) ==
    {<<fn>> \o args : fn \in {"L", "yield", "error", "yieldk"} \cup Wraps}
    \cup {<<"pcall">> \o call \o args : call \in Protected}
    \cup {<<"xpcall", Head(call), "handler">> \o Tail(call) \o args : call \in Protected}
    \cup {<<"call", "L">>, <<"dofile">>}
    \cup {<<"create", fn>> : fn \in Bodies}
    \cup {<<"resume", co>> \o args : co \in Live}
    \cup {<<fn>> : fn \in {"pcall", "xpcall", "create", "resume"}}

Made(call) == (call[1] \in Wraps => threads[WrapOf[call[1]]].status # "none")
              /\ (call[1] = "create" => \E co \in Coroutines : threads[co].status = "none")

OP_CALL ==
    /\ InLua /\ HasRoom /\ Vals # <<>>
    /\ \E call \in CallsOf(Local) :
           /\ call[1] \in MayCall[Running] /\ Made(call)
           /\ LET x == Push(Kept, Running, call)
              IN  Become(luaD_precall(x, Running, Len(x.th[Running].stack) - Len(call) + 1,
                                      IF call[1] = "L" THEN 1 ELSE MULTRET, FALSE))

\* An operation on values whose metamethod is the function fn.
luaT_callTM ==
    /\ InLua /\ HasRoom /\ Vals # <<>>
    /\ \E fn \in {"L", "yield"} \cap MayCall[Running] :
           Become(luaD_call(Push(Kept, Running, <<fn>> \o Local), Running, Len(Local), 1, FALSE))

OP_RETURN ==
    /\ InLua
    /\ \E n \in {0, Len(Vals)} :
           LET x == luaD_poscall(Machine, Running, LastOf(Vals, n))
           IN  Become(IF ci(Machine, Running).fresh THEN PopC(x) ELSE x)

Starts(fn) == On("C") /\ Last(cstack).st = "start" /\ ci(Machine, Running).fn = fn
WithValues(vals) ==
    SetStack(Machine, Running,
             SubSeq(threads[Running].stack, 1, ci(Machine, Running).func) \o vals)

\* The checks of arguments (luaL_checkany, luaL_checktype, getco).
IsFunction(v) == v \in Functions \cup {"handler"}
GoodArguments ==
    LET fn == ci(Machine, Running).fn
    IN  CASE fn = "pcall"  -> Vals # <<>>
          [] fn = "xpcall" -> Len(Vals) >= 2 /\ IsFunction(Vals[2])
          [] fn = "create" -> Vals # <<>> /\ IsFunction(Vals[1])
          [] fn = "resume" -> Vals # <<>> /\ Vals[1] \in Live
          [] OTHER -> TRUE

luaL_argcheck ==
    /\ On("C") /\ Last(cstack).st = "start" /\ ~GoodArguments
    /\ Become(luaL_argerror(Machine, Running))

luaB_pcall ==
    /\ Starts("pcall") /\ GoodArguments
    /\ Become(lua_pcallk(WithValues(<<"true">> \o Vals), Running, Len(Vals) - 1, 0))

luaB_xpcall ==
    /\ Starts("xpcall") /\ GoodArguments
    /\ LET rest == SubSeq(Vals, 3, Len(Vals))
       IN  Become(lua_pcallk(WithValues(<<Vals[1], Vals[2], "true", Vals[1]>> \o rest),
                             Running, Len(rest), ci(Machine, Running).func + 2))

lua_call ==
    /\ Starts("call")
    /\ Become(lua_callk(Machine, Running, Len(Vals) - 1, 1, FALSE))

luaB_dofile ==
    /\ Starts("dofile")
    /\ Become(lua_callk(WithValues(<<"nil", "L">>), Running, 0, MULTRET, TRUE))

luaB_error ==
    /\ Starts("error")
    /\ LET x == WithValues(<<IF Vals = <<>> THEN "nil" ELSE Vals[1]>>)
       IN  Become(luaD_throw(luaG_errormsg(x, Running), Running, "ERRRUN"))

luaB_yield ==
    /\ Starts("yield")
    /\ Become(lua_yieldk(Machine, Running, Len(Vals), FALSE))

YieldsAndGoesOn ==
    /\ Starts("yieldk")
    /\ Become(lua_yieldk(Push(Machine, Running, <<"c">>), Running, 1, TRUE))

luaB_cocreate ==
    /\ Starts("create") /\ GoodArguments
    /\ \E co \in Coroutines :
           /\ threads[co].status = "none"
           /\ LET t == [preinit_thread EXCEPT !.stack = Append(@, Vals[1])]
              IN  Become(CReturn(Push([Machine EXCEPT !.th[co] = t], Running, <<co>>), Running, 1))

luaB_coresume ==
    /\ Starts("resume") /\ GoodArguments
    /\ Become(StartResume(Machine, Running, Vals[1], Len(Vals) - 1))

luaB_auxwrap ==
    \/ \E w \in Wraps : Starts(w) /\ Become(StartResume(Machine, Running, WrapOf[w], Len(Vals)))
    \/ /\ On("C") /\ Last(cstack).st = "raise"
       /\ Become(luaD_throw(luaG_errormsg(Machine, Running), Running, "ERRRUN"))

\* luaD_call returns, to luaV_execute, to luaD_pcall, or to a C function,
\* which returns in its turn.
CallReturns ==
    /\ On("luaD_call")
    /\ LET l == Running
           x == CallDone(Machine, l)
           r == Last(x.cs)
           y == PopC([x EXCEPT !.th[l].errfunc = r.errfunc])
       IN  Become(CASE r.f = "luaV_execute" -> x
                    [] r.f = "luaD_pcall" /\ Len(x.cs) = 1 -> y
                    [] r.f = "luaD_pcall" /\ Len(x.cs) > 1 ->
                         CReturn(y, l, finishpcall(y, l, FALSE))
                    [] OTHER -> CReturn(EndYpcall(x, l), l, Returns(x, l)))

\* unroll, with what is left of the call infos of a thread.
unroll ==
    /\ On("lua_resume")
    /\ LET l == Running
           c == ci(Machine, l)
       IN  Become(IF Len(threads[l].ci) = 1 THEN ResumeEnds(Machine, TRUE)
                  ELSE IF isLua(c) THEN PushC(SetCi(Machine, l, [c EXCEPT !.fresh = TRUE]), Exec(l, Len(threads[l].ci)))
                  ELSE finishCcall(Machine, l, FALSE))

-----------------------------------------------------------------------------
\* The host calls a Lua function protected.
Init ==
    /\ threads = [t \in Threads |->
          IF t # Main THEN NoThread
          ELSE [preinit_thread EXCEPT !.nny = 2, !.nCcalls = 1, !.stack = <<"nil", "L">>,
                   !.ci = <<base_ci, CallInfo("L", 2, MULTRET, TRUE)>>]]
    /\ cstack = <<[f |-> "luaD_pcall", l |-> Main, ci |-> 1, nny |-> 1, errfunc |-> 0,
                   oldtop |-> 2, nCcalls |-> 0],
                  DCall(Main, 1, TRUE), Exec(Main, 2)>>

Stopped == cstack = <<>> /\ UNCHANGED vars

Next ==
    \/ OP_LOADK \/ OP_CALL \/ luaT_callTM \/ OP_RETURN
    \/ luaL_argcheck \/ luaB_pcall \/ luaB_xpcall \/ lua_call \/ luaB_dofile \/ luaB_error
    \/ luaB_yield \/ YieldsAndGoesOn \/ luaB_cocreate \/ luaB_coresume \/ luaB_auxwrap
    \/ CallReturns \/ unroll \/ Stopped

Spec == Init /\ [][Next]_vars

-----------------------------------------------------------------------------
\* What a program can see of a thread is what it has: its frames, in the
\* segments of its stack, whatever the C stack has lost of them.
FuncOf(t, i) ==
    IF i = Len(threads[t].ci) /\ threads[t].status = "YIELD" THEN threads[t].ci[i].extra
    ELSE threads[t].ci[i].func
Segment(t, i) ==
    SubSeq(threads[t].stack, FuncOf(t, i) + 1,
           IF i = Len(threads[t].ci) THEN Len(threads[t].stack) ELSE FuncOf(t, i + 1) - 1)

FrameSt(t, i) ==
    IF i = Len(threads[t].ci) /\ On("C") /\ Running = t THEN Last(cstack).st ELSE "called"

AbstractFrame(t, i) ==
    LET st == FrameSt(t, i)
    IN  [fn |-> threads[t].ci[i].fn, nres |-> threads[t].ci[i].nresults, st |-> st,
         vals |-> IF st = "raise" THEN LastOf(Segment(t, i), 1) ELSE Segment(t, i)]

AbstractFrames(t) ==
    IF threads[t].status = "none" THEN <<>>
    ELSE IF threads[t].status = "ERRRUN"
    THEN <<[fn |-> "base", nres |-> MULTRET, vals |-> <<>>, st |-> "called"]>>
    ELSE [i \in DOMAIN threads[t].ci |-> AbstractFrame(t, i)]

\* The threads of the chain are told by the frames of lua_resume, from below.
Resumes == {p \in DOMAIN cstack : cstack[p].f = "lua_resume"}
ResumeAt(i) == CHOOSE p \in Resumes : Cardinality({q \in Resumes : q <= p}) = i
Chain == IF cstack = <<>> THEN <<>>
         ELSE <<Main>> \o [i \in 1..Cardinality(Resumes) |-> cstack[ResumeAt(i)].l]

Frames == [t \in Threads |-> AbstractFrames(t)]

Coro == INSTANCE Coroutines WITH frames <- Frames, chain <- Chain

\* Calls, errors and yields cut the C stack and mend what it lost from the
\* call infos; the program sees frames, as if nothing had been cut
\* (lua_pcallk, lua_yieldk, recover, unroll).
ImplementsCoroutines == Coro!Spec

luaB_costatus(co) ==
    CASE threads[co].status = "YIELD" -> "suspended"
      [] threads[co].status = "OK" ->
           IF Len(threads[co].ci) > 1 THEN "normal"
           ELSE IF lua_gettop(Machine, co) = 0 THEN "dead" ELSE "suspended"
      [] OTHER -> "dead"

\* coroutine.status, when a program can ask, tells whether a thread waits for
\* another, can be resumed, or neither (luaB_costatus reads the status, the
\* call infos and the stack, which errors, yields and failed resumptions of
\* any thread leave in many ways).
StatusTruth ==
    (InLua \/ On("C")) =>
        \A co \in Coroutines : (threads[co].status # "none" /\ co # Running) =>
            luaB_costatus(co) = IF co \in Range(Chain) THEN "normal"
                                ELSE IF Coro!Resumable(co) THEN "suspended" ELSE "dead"

\* Whatever was cut, nny counts the calls of the thread that a yield cannot
\* cross, those on the C stack above its last resumption (lua_resume,
\* recover and luaD_pcall restore it); a call info under a yield has its
\* continuation, and a protected call the place of its function: the
\* assertions of finishCcall.
YieldsAreSafe ==
    \A t \in Threads : LET th == threads[t] IN
        /\ (th.status # "none" /\ cstack # <<>>) =>
              th.nny = Cardinality({i \in DOMAIN cstack : cstack[i].l = t /\
                          cstack[i].f = "luaD_call" /\ cstack[i].noyield})
                       + (IF t = Main \/ t \notin Range(Chain) THEN 1 ELSE 0)
        /\ th.status = "YIELD" =>
              \A i \in 2..(Len(th.ci) - 1) : isLua(th.ci[i]) \/ th.ci[i].k
        /\ \A i \in 2..(Len(th.ci) - 1) :
              th.ci[i].ypcall =>
                  th.ci[i].extra = th.ci[i].func + 2 + Extra(th.ci[i].fn)

\* "lua_assert(nCcalls == L->nCcalls)", at the end of resume.
CcallsBalanced ==
    On("lua_resume") => threads[Running].nCcalls = Last(cstack).nCcalls
=============================================================================
