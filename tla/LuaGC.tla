------------------------------- MODULE LuaGC -------------------------------
(***************************************************************************)
(* The incremental collector of Lua (lgc.c), its upvalues (lfunc.c) and    *)
(* the writes of a program that runs between its steps.  An object is a    *)
(* table of one array slot and one node, a userdata with a user value and  *)
(* maybe a finalizer, a thread with a short stack, a prototype with its    *)
(* cached closure, or a Lua closure with one upvalue.  An upvalue is its   *)
(* place: <<t, l>> while it is open at a level of a thread's stack, and     *)
(* <<i, 0>> once it is closed, in a cell that the closures share.          *)
(*                                                                         *)
(* Memory debt is left out: luaC_step may come before any operation of the *)
(* program, and may be one step of the collector or many.                  *)
(***************************************************************************)
EXTENDS Integers, Sequences, FiniteSets, SequencesExt

CONSTANTS
    Worlds,     \* the heaps a run starts from
    Level,      \* stack levels of a thread
    SweepMax,   \* GCSWEEPMAX
    FinMax,     \* bound: objects with a finalizer at a time
    OpsMax      \* bound: operations of the program

Nil == "nil"
Main == "main"       \* the main thread, which is in no list of the collector
Kinds == {"table", "udata", "lcl", "thread", "proto"}

VARIABLES
    kind,
    g,       \* global_State and the objects it owns
    running, \* the thread L
    full,    \* where luaC_fullgc is: "no", "drain", "cycle", "finish"
    arg,     \* the argument of a finalizer that runs, or Nil
    ops,
    unswept  \* history: what a sweep that ended had not made white

vars == <<kind, g, running, full, arg, ops, unswept>>

Objs == DOMAIN kind
Ids == Objs \ {Main}
Of(k) == {o \in Objs : kind[o] = k}

TypeOK ==
    /\ g.gcstate \in {"propagate", "atomic", "insideatomic", "swpallgc",
                      "swpfinobj", "swptobefnz", "swpend", "callfin", "pause"}
    /\ g.white \in {"w0", "w1"} /\ g.emergency \in BOOLEAN
    /\ g.marked \in [Objs -> {"w0", "w1", "gray", "black"}]
    /\ g.sweepgc \in Objs \cup {"head", "null"}
    /\ g.array \in [Objs -> Objs \cup {Nil}]
    /\ g.mode \in [Objs -> {"", "k", "v", "kv"}]
    /\ g.touched \subseteq g.open /\ g.open \subseteq Of("thread") \X Level
    /\ g.calls >= -1 /\ unswept \subseteq Objs
    /\ running \in Objs /\ arg \in Objs \cup {Nil} /\ ops \in 0..OpsMax

EmptyNode == [key |-> Nil, val |-> Nil, dead |-> FALSE]
NoUpval == <<Nil, 0>>

\* Every object of a world is made before the collector's first step; those
\* with a finalizer are in a list of their own.
World(w) ==
    LET ids == SetToSeq(DOMAIN w.kind \ {Main})
        O == DOMAIN w.kind
        Field(f, none) == [o \in O |-> IF o \in DOMAIN f THEN f[o] ELSE none]
    IN  [gcstate |-> "pause", white |-> "w0", emergency |-> FALSE,
         marked |-> [o \in O |-> "w0"], final |-> w.final,
         allgc |-> SelectSeq(ids, LAMBDA o : o \notin w.final),
         finobj |-> SelectSeq(ids, LAMBDA o : o \in w.final),
         tobefnz |-> <<>>, sweepgc |-> "null", gcfinnum |-> 0, calls |-> -1,
         gray |-> <<>>, grayagain |-> <<>>,
         weak |-> <<>>, allweak |-> <<>>, ephemeron |-> <<>>,
         array |-> Field(w.array, Nil), node |-> Field(w.node, EmptyNode),
         mode |-> Field(w.mode, ""), user |-> Field(w.user, Nil),
         cache |-> Field(<<>>, Nil), proto |-> Field(<<>>, Nil),
         stack |-> Field(w.stack, [i \in Level |-> Nil]),
         upval |-> Field(w.upval, NoUpval), cell |-> Field(w.cell, Nil),
         open |-> w.open, touched |-> w.touched, twups |-> {p[1] : p \in w.open}]

Init ==
    /\ \E w \in Worlds : kind = w.kind /\ g = World(w)
    /\ running = Main /\ full = "no" /\ arg = Nil /\ ops = 0 /\ unswept = {}
-----------------------------------------------------------------------------
Other(w) == IF w = "w0" THEN "w1" ELSE "w0"
iswhite(x, o) == x.marked[o] \in {"w0", "w1"}
isblack(x, o) == x.marked[o] = "black"
isgray(x, o) == x.marked[o] = "gray"
isdead(x, o) == x.marked[o] = Other(x.white)
keepinvariant(x) == x.gcstate \in {"propagate", "atomic", "insideatomic"}
issweepphase(x) == x.gcstate \in {"swpallgc", "swpfinobj", "swptobefnz", "swpend"}
makewhite(x, o) == [x EXCEPT !.marked[o] = x.white]
Alive(x) == Range(x.allgc) \cup Range(x.finobj) \cup Range(x.tobefnz) \cup {Main}

\* A userdata is blackened at once and its user value marked; other objects
\* become gray, in front of the list.
RECURSIVE Mark(_, _)
Mark(x, o) ==
    IF o = Nil \/ ~iswhite(x, o) THEN x
    ELSE IF kind[o] = "udata" THEN Mark([x EXCEPT !.marked[o] = "black"], x.user[o])
    ELSE [x EXCEPT !.marked[o] = "gray", !.gray = <<o>> \o @]

MarkAll(x, s) == FoldLeft(Mark, x, s)
\* The argument of a finalizer is on the stack of the thread that runs.
MarkStack(x, t) ==
    MarkAll(x, [i \in Level |-> x.stack[t][i]] \o (IF t = running THEN <<arg>> ELSE <<>>))

upisopen(p) == p[2] # 0
ValueAt(x, p) == IF p = NoUpval THEN Nil
                 ELSE IF upisopen(p) THEN x.stack[p[1]][p[2]] ELSE x.cell[p[1]]
UpvalValue(x, c) == ValueAt(x, x.upval[c])
OpenOf(x, t) == {p \in x.open : p[1] = t}
\* The closures that refer to an upvalue, which it counts.
Sharing(x, p) == {c \in Of("lcl") : x.upval[c] = p}

\* A thread that is not marked, or has no open upvalue, leaves the list, and
\* the values of its touched upvalues are marked.
remarkupvals(x) ==
    LET gone == {t \in x.twups : ~isgray(x, t) \/ OpenOf(x, t) = {}}
        touched == {p \in x.touched : p[1] \in gone}
        y == MarkAll(x, SetToSeq({ValueAt(x, p) : p \in touched}))
    IN  [y EXCEPT !.twups = @ \ gone, !.touched = @ \ touched]

restartcollection(x) ==
    MarkAll([x EXCEPT !.gray = <<>>, !.grayagain = <<>>, !.weak = <<>>,
                      !.allweak = <<>>, !.ephemeron = <<>>],
            <<Main>> \o x.tobefnz)

\* An empty entry keeps a key that nobody marked, as a dead one.
removeentry(x, t) ==
    LET k == x.node[t].key
    IN  IF k # Nil /\ ~x.node[t].dead /\ iswhite(x, k)
        THEN [x EXCEPT !.node[t].dead = TRUE] ELSE x

Cleared(x, o) == o # Nil /\ iswhite(x, o)
Empty(x, t) == x.node[t].val = Nil

traverseweakvalue_MarksArray(x, t) ==
    LET y == MarkAll(x, <<x.array[t], x.node[t].key>>)
    IN  IF x.gcstate = "propagate" THEN [y EXCEPT !.grayagain = <<t>> \o @]
        ELSE [y EXCEPT !.weak = <<t>> \o @]
traverseweakvalue(x, t) ==
    LET y == IF Empty(x, t) THEN removeentry(x, t) ELSE Mark(x, x.node[t].key)
    IN  \* there is an array part, so that the table may have values to clear
        IF x.gcstate = "propagate" THEN [y EXCEPT !.grayagain = <<t>> \o @]
        ELSE [y EXCEPT !.weak = <<t>> \o @]

\* Whether the traversal marks anything, and what it leaves.
EphemeronMarks(x, t) ==
    \/ Cleared(x, x.array[t])
    \/ LET y == Mark(x, x.array[t])
       IN  ~Empty(x, t) /\ ~Cleared(y, y.node[t].key) /\ Cleared(y, y.node[t].val)
traverseephemeron(x, t) ==
    LET entry(y) ==
            LET white == ~Empty(x, t) /\ Cleared(y, y.node[t].key)
                ww == white /\ Cleared(y, y.node[t].val)
                list == IF x.gcstate = "propagate" THEN "grayagain"
                        ELSE IF ww THEN "ephemeron" ELSE "allweak"
                z == IF Empty(y, t) THEN removeentry(y, t)
                     ELSE IF white THEN y ELSE Mark(y, y.node[t].val)
            IN  IF white \/ x.gcstate = "propagate" THEN [z EXCEPT ![list] = <<t>> \o @] ELSE z
    IN  entry(Mark(x, x.array[t]))

traversestrongtable(x, t) ==
    LET y == Mark(x, x.array[t])
    IN  IF Empty(y, t) THEN removeentry(y, t)
        ELSE MarkAll(y, <<y.node[t].key, y.node[t].val>>)

\* A weak table stays gray.
traversetable(x, t) ==
    LET y == [x EXCEPT !.marked[t] = "gray"]
    IN  CASE x.mode[t] = "" -> traversestrongtable(x, t)
          [] x.mode[t] = "v" -> traverseweakvalue(y, t)
          [] x.mode[t] = "k" -> traverseephemeron(y, t)
          [] x.mode[t] = "kv" -> [y EXCEPT !.allweak = <<t>> \o @]

traverseproto_CacheKept(x, p) == x

\* A cached closure that nobody marked yet is forgotten.
traverseproto(x, p) ==
    IF Cleared(x, x.cache[p]) THEN [x EXCEPT !.cache[p] = Nil] ELSE x

\* The value of an open upvalue is left to its thread until the atomic phase.
traverseLclosure(x, c) ==
    LET y == Mark(x, x.proto[c])
    IN  IF upisopen(y.upval[c]) /\ y.gcstate # "insideatomic"
        THEN [y EXCEPT !.touched = @ \cup {y.upval[c]}]
        ELSE Mark(y, UpvalValue(y, c))

\* A thread is gray for ever, and comes again in the atomic phase.
traversethread(x, t) ==
    LET y == MarkStack([x EXCEPT !.marked[t] = "gray", !.grayagain = <<t>> \o @], t)
    IN  IF x.gcstate = "insideatomic" /\ OpenOf(x, t) # {}
        THEN [y EXCEPT !.twups = @ \cup {t}] ELSE y

propagatemark(x) ==
    LET o == Head(x.gray)
        y == [x EXCEPT !.gray = Tail(@), !.marked[o] = "black"]
    IN  CASE kind[o] = "table" -> traversetable(y, o)
          [] kind[o] = "lcl" -> traverseLclosure(y, o)
          [] kind[o] = "thread" -> traversethread(y, o)
          [] kind[o] = "proto" -> traverseproto(y, o)

RECURSIVE propagateall(_)
propagateall(x) == IF x.gray = <<>> THEN x ELSE propagateall(propagatemark(x))

\* Once through the list of ephemerons, then again while anything was marked.
ConvergeOne(acc, t) ==
    IF EphemeronMarks(acc.x, t)
    THEN [x |-> propagateall(traverseephemeron(acc.x, t)), changed |-> TRUE]
    ELSE [acc EXCEPT !.x = traverseephemeron(acc.x, t)]
RECURSIVE convergeephemerons(_)
convergeephemerons(x) ==
    LET again(r) == IF r.changed THEN convergeephemerons(r.x) ELSE r.x
    IN  again(FoldLeft(ConvergeOne,
                       [x |-> [x EXCEPT !.ephemeron = <<>>], changed |-> FALSE],
                       x.ephemeron))

clearkey(x, t) ==
    IF ~Empty(x, t) /\ Cleared(x, x.node[t].key)
    THEN removeentry([x EXCEPT !.node[t].val = Nil], t) ELSE x
clearvalue_ArrayOnly(x, t) ==
    IF Cleared(x, x.array[t]) THEN [x EXCEPT !.array[t] = Nil] ELSE x
clearvalue(x, t) ==
    LET y == IF Cleared(x, x.array[t]) THEN [x EXCEPT !.array[t] = Nil] ELSE x
    IN  IF ~Empty(y, t) /\ Cleared(y, y.node[t].val)
        THEN removeentry([y EXCEPT !.node[t].val = Nil], t) ELSE y

separatetobefnz(x) ==
    [x EXCEPT !.finobj = SelectSeq(@, LAMBDA o : ~iswhite(x, o)),
              !.tobefnz = @ \o SelectSeq(x.finobj, LAMBDA o : iswhite(x, o))]

\* The part of a list that was put before what it was.
Since(s, old) == SubSeq(s, 1, Len(s) - Len(old))

ClearKeys(x) == FoldLeft(clearkey, x, x.ephemeron \o x.allweak)
ClearValues(x, weak, allweak) == FoldLeft(clearvalue, x, Since(x.weak, weak) \o Since(x.allweak, allweak))

\* What is reached from the roots, when the program stands still.
MarkRoots(x) == propagateall(remarkupvals(Mark([x EXCEPT !.gcstate = "insideatomic"], running)))
MarkRest(x, again) == convergeephemerons(propagateall([x EXCEPT !.gray = again]))

\* What the finalizers will see comes back, and leaves the weak tables that
\* were found meanwhile.
MarkBeingFnz(x) == convergeephemerons(propagateall(MarkAll(x, x.tobefnz)))
Resurrect(x) == ClearValues(ClearKeys(MarkBeingFnz(separatetobefnz(x))), x.weak, x.allweak)

atomic(x) ==
    [Resurrect(ClearValues(MarkRest(MarkRoots(x), x.grayagain), <<>>, <<>>))
        EXCEPT !.white = Other(@), !.gcfinnum = 1]
-----------------------------------------------------------------------------
(***************************************************************************)
(* Upvalues.                                                               *)
(***************************************************************************)
\* An upvalue that is closed has a cell for all the closures that refer to it.
CloseUpvalue(x, p) ==
    LET i == CHOOSE i \in Of("lcl") : Sharing(x, <<i, 0>>) = {}
        y == [x EXCEPT !.open = @ \ {p}, !.touched = @ \ {p}]
        z == [y EXCEPT !.cell[i] = ValueAt(x, p),
                       !.upval = [c \in Objs |-> IF @[c] = p THEN <<i, 0>> ELSE @[c]]]
    IN  IF Sharing(x, p) = {} THEN y
        ELSE IF keepinvariant(x) THEN Mark(z, ValueAt(x, p)) ELSE z

\* luaF_close from a level on; a thread that is freed closes all of them.
luaF_close(x, t, l) ==
    FoldLeft(CloseUpvalue, x, SetToSortSeq({p \in OpenOf(x, t) : p[2] >= l},
                                           LAMBDA p, q : p[2] > q[2]))

\* The fields of an object that is freed are blank for the next of its name,
\* and so is a cell without closures.
freeobj(x, o) ==
    LET y == IF kind[o] = "thread" THEN luaF_close(x, o, 1) ELSE x
        z == [y EXCEPT !.array[o] = Nil, !.node[o] = EmptyNode, !.mode[o] = "",
                       !.user[o] = Nil, !.cache[o] = Nil, !.proto[o] = Nil,
                       !.upval[o] = NoUpval, !.twups = @ \ {o},
                       !.stack[o] = [i \in Level |-> Nil]]
    IN  [z EXCEPT !.cell = [i \in Objs |-> IF Sharing(z, <<i, 0>>) = {} THEN Nil ELSE @[i]]]

\* sweeplist: from the place on, at most n elements.  A place is the object
\* whose next field is meant, or "head"; "null" when the list is finished.
Rest(s, at) == IF at = "head" THEN s
               ELSE LET i == SelectInSeq(s, LAMBDA o : o = at)
                    IN  SubSeq(s, i + 1, Len(s))
RECURSIVE sweeplist(_, _, _, _)
sweeplist(x, list, at, n) ==
    LET rest == Rest(x[list], at)
        o == Head(rest)
    IN  IF rest = <<>> THEN [x |-> x, at |-> "null"]
        ELSE IF n = 0 THEN [x |-> x, at |-> at]
        ELSE IF isdead(x, o)
        THEN sweeplist(freeobj([x EXCEPT ![list] = SelectSeq(@, LAMBDA q : q # o)], o),
                       list, at, n - 1)
        ELSE sweeplist(makewhite(x, o), list, o, n - 1)

RECURSIVE sweeptolive(_, _, _)
sweeptolive(x, list, at) ==
    LET r == sweeplist(x, list, at, 1)
    IN  IF r.at = at THEN sweeptolive(r.x, list, at) ELSE r

\* The list a place lies in: an object that udata2finalize took away from the
\* list being swept takes the place with it.
SweptList(x) ==
    IF x.sweepgc = "head"
    THEN (IF x.gcstate = "swpallgc" THEN "allgc"
          ELSE IF x.gcstate = "swpfinobj" THEN "finobj" ELSE "tobefnz")
    ELSE CHOOSE l \in {"allgc", "finobj", "tobefnz"} : x.sweepgc \in Range(x[l])

entersweep(x) ==
    LET r == sweeplist([x EXCEPT !.gcstate = "swpallgc"], "allgc", "head", 1)
    IN  [r.x EXCEPT !.sweepgc = r.at]

sweepstep(x, next, at) ==
    LET r == IF x.sweepgc = "null" THEN [x |-> x, at |-> "null"]
             ELSE sweeplist(x, SweptList(x), x.sweepgc, SweepMax)
    IN  IF r.at # "null" THEN [r.x EXCEPT !.sweepgc = r.at]
        ELSE [r.x EXCEPT !.gcstate = next, !.sweepgc = at]

\* Finalizers are called a few at a time, twice as many each time.  g.calls
\* counts them while the loop runs and is -1 otherwise.
MoreFinalizers(x) ==
    IF x.tobefnz # <<>> /\ x.calls < x.gcfinnum THEN x
    ELSE [x EXCEPT !.calls = -1, !.gcfinnum = IF x.tobefnz = <<>> THEN 0 ELSE @ * 2]
runafewfinalizers(x) == MoreFinalizers([x EXCEPT !.calls = 0])

singlestep(x) ==
    CASE x.gcstate = "pause" -> [restartcollection(x) EXCEPT !.gcstate = "propagate"]
      [] x.gcstate = "propagate" ->
            LET y == propagatemark(x)
            IN  IF y.gray = <<>> THEN [y EXCEPT !.gcstate = "atomic"] ELSE y
      [] x.gcstate = "atomic" -> entersweep(atomic(propagateall(x)))
      [] x.gcstate = "swpallgc" -> sweepstep(x, "swpfinobj", "head")
      [] x.gcstate = "swpfinobj" -> sweepstep(x, "swptobefnz", "head")
      [] x.gcstate = "swptobefnz" -> sweepstep(x, "swpend", "null")
      [] x.gcstate = "swpend" -> [makewhite(x, Main) EXCEPT !.gcstate = "callfin"]
      [] x.gcstate = "callfin" -> IF x.tobefnz # <<>> /\ ~x.emergency
                                  THEN runafewfinalizers(x)
                                  ELSE [x EXCEPT !.gcstate = "pause"]

\* What a sweep that ends leaves of another colour.
Remember ==
    unswept' = unswept \cup
        IF g.gcstate = "swpend" /\ g'.gcstate = "callfin"
        THEN {o \in Alive(g') : g'.marked[o] # g'.white} ELSE {}

\* luaC_step, one step of the collector at a time: more may follow, or the
\* finalizers.  Not while a finalizer runs, nor within a full collection.
Idle == arg = Nil /\ g.calls = -1
luaC_step ==
    /\ full = "no" /\ Idle
    /\ \E x \in {singlestep(g)} :
          \/ g' = x
          \/ /\ x.gcstate # "pause" /\ x.tobefnz # <<>> /\ x.calls = -1
             /\ g' = runafewfinalizers(x)
    /\ Remember /\ UNCHANGED <<kind, running, full, arg, ops>>

\* GCTM: the first object to be finalized goes back among the others and is
\* the argument of its finalizer.
udata2finalize(x) ==
    LET o == Head(x.tobefnz)
        y == [x EXCEPT !.tobefnz = Tail(@), !.allgc = <<o>> \o @, !.final = @ \ {o}]
    IN  IF issweepphase(x) THEN makewhite(y, o) ELSE y

GCTM ==
    /\ arg = Nil /\ g.calls >= 0
    /\ arg' = Head(g.tobefnz) /\ g' = udata2finalize(g)
    /\ UNCHANGED <<kind, running, full, ops, unswept>>

\* An emergency collection is over before the program goes on.
Stopped == full # "no" /\ g.emergency
FinalizerReturns ==
    /\ arg # Nil /\ arg' = Nil /\ ~Stopped
    /\ g' = MoreFinalizers([g EXCEPT !.calls = @ + 1])
    /\ UNCHANGED <<kind, running, full, ops, unswept>>

\* luaC_fullgc: a sweep with nothing dead first if objects may be black; then
\* up to the pause, through one cycle, and to the pause again.  A finalizer
\* may need it too, when memory runs out (that it asks for one is left out).
luaC_fullgc ==
    /\ full = "no" /\ ops < OpsMax
    /\ \E emergency \in BOOLEAN :
        /\ Idle \/ (arg # Nil /\ emergency)
        /\ LET x == [g EXCEPT !.emergency = emergency]
           IN  g' = IF keepinvariant(x) THEN entersweep(x) ELSE x
    /\ full' = "drain" /\ ops' = ops + 1
    /\ UNCHANGED <<kind, running, arg, unswept>>

FullStep ==
    /\ full # "no" /\ (Idle \/ g.emergency)
    /\ IF full = "finish" /\ g.gcstate = "pause"
       THEN full' = "no" /\ g' = [g EXCEPT !.emergency = FALSE]
       ELSE /\ g' = singlestep(g)
            /\ full' = IF full = "drain" /\ g.gcstate = "pause" THEN "cycle"
                       ELSE IF full = "cycle" /\ g'.gcstate = "callfin" THEN "finish"
                       ELSE full
    /\ Remember /\ UNCHANGED <<kind, running, arg, ops>>
-----------------------------------------------------------------------------
(***************************************************************************)
(* The program.  It reaches what is on the stack of the running thread,    *)
(* and the argument of a finalizer.                                        *)
(***************************************************************************)
OnStack == (Range(g.stack[running]) \cup {arg}) \ {Nil}
Running(k) == {o \in OnStack : kind[o] = k}
Runs == ~Stopped /\ (arg # Nil \/ (full = "no" /\ Idle)) /\ ops < OpsMax
Did == ops' = ops + 1 /\ UNCHANGED <<kind, full, arg, unswept>>
Push(x, l, o) == [x EXCEPT !.stack[running][l] = o]

\* luaC_barrier_, forward; luaC_barrierback_, backward.
luaC_barrier(x, o, v) ==
    IF v = Nil \/ ~isblack(x, o) \/ ~iswhite(x, v) THEN x
    ELSE IF keepinvariant(x) THEN Mark(x, v) ELSE makewhite(x, o)
luaC_barrierback_None(x, t, v) == x
luaC_barrierback(x, t, v) ==
    IF v = Nil \/ ~isblack(x, t) \/ ~iswhite(x, v) THEN x
    ELSE [x EXCEPT !.marked[t] = "gray", !.grayagain = <<t>> \o @]

luaC_newobj ==
    /\ Runs
    /\ \E o \in Ids \ Alive(g), l \in Level :
        /\ kind[o] # "lcl"
        /\ g' = Push([makewhite(g, o) EXCEPT !.allgc = <<o>> \o @], l, o)
    /\ Did /\ UNCHANGED running

Pop ==
    /\ Runs
    /\ \E l \in Level : g.stack[running][l] # Nil /\ g' = Push(g, l, Nil)
    /\ Did /\ UNCHANGED running

\* Writes to a table: its array slot; its node, with a key that is there or a
\* new one when the node is free (luaH_newkey has a barrier for the key); the
\* mode of its metatable.
SetArray ==
    /\ Runs
    /\ \E t \in Running("table"), v \in OnStack \cup {Nil} :
        g' = [luaC_barrierback(g, t, v) EXCEPT !.array[t] = v]
    /\ Did /\ UNCHANGED running

SetNode ==
    /\ Runs
    /\ \E t \in Running("table"), k \in OnStack, v \in OnStack \cup {Nil} :
        /\ \/ g.node[t].key = k /\ ~g.node[t].dead
           \/ g.node[t].val = Nil /\ v # Nil
        /\ LET y == IF g.node[t].key = k /\ ~g.node[t].dead THEN g
                    ELSE luaC_barrierback(g, t, k)
           IN  g' = [luaC_barrierback(y, t, v) EXCEPT
                        !.node[t] = [key |-> k, val |-> v, dead |-> FALSE]]
    /\ Did /\ UNCHANGED running

SetMode ==
    /\ Runs
    /\ \E t \in Running("table"), m \in {"", "k", "v", "kv"} :
        m # g.mode[t] /\ g' = [g EXCEPT !.mode[t] = m]
    /\ Did /\ UNCHANGED running

\* Reads put what a table, a user value or an upvalue refers to on the stack.
Referred(o) ==
    CASE kind[o] = "table" ->
            {g.array[o], g.node[o].val}
            \cup (IF Empty(g, o) THEN {} ELSE {g.node[o].key})
      [] kind[o] = "udata" -> {g.user[o]}
      [] kind[o] = "lcl" -> {UpvalValue(g, o)}
      [] OTHER -> {}
Get ==
    /\ Runs
    /\ \E o \in OnStack, l \in Level : \E v \in Referred(o) \ {Nil} :
        g.stack[running][l] # v /\ g' = Push(g, l, v)
    /\ Did /\ UNCHANGED running

lua_setuservalue ==
    /\ Runs
    /\ \E u \in Running("udata"), v \in OnStack \cup {Nil} :
        g' = luaC_barrier([g EXCEPT !.user[u] = v], u, v)
    /\ Did /\ UNCHANGED running

\* The object goes from one list to the other; a place of the sweep that lies
\* at it moves on to the next object that lives.
luaC_checkfinalizer ==
    /\ Runs /\ Cardinality(g.final) < FinMax
    /\ \E o \in Running("udata") \ g.final :
        LET y == IF issweepphase(g) THEN makewhite(g, o) ELSE g
            r == IF issweepphase(g) /\ y.sweepgc = o
                 THEN sweeptolive(y, SweptList(y), o)
                 ELSE [x |-> y, at |-> y.sweepgc]
        IN  g' = [r.x EXCEPT !.sweepgc = r.at,
                             !.allgc = SelectSeq(@, LAMBDA q : q # o),
                             !.finobj = <<o>> \o @,
                             !.final = @ \cup {o}]
    /\ Did /\ UNCHANGED running

\* OP_CLOSURE: the cached closure if its upvalue is the same variable, or a new
\* one; the prototype remembers it unless it is black.
getcached(p, l) == g.cache[p] # Nil /\ g.upval[g.cache[p]] = <<running, l>>
luaF_findupval(x, p) ==
    IF p \in x.open THEN x
    ELSE [x EXCEPT !.open = @ \cup {p}, !.touched = @ \cup {p}, !.twups = @ \cup {p[1]}]
pushclosure ==
    /\ Runs
    /\ \E p \in Running("proto"), l \in Level, ra \in Level :
        \/ getcached(p, l) /\ g' = Push(g, ra, g.cache[p])
        \/ /\ ~getcached(p, l)
           /\ \E c \in Of("lcl") \ Alive(g) :
                LET x == [makewhite(g, c) EXCEPT !.allgc = <<c>> \o @, !.proto[c] = p,
                                                 !.upval[c] = <<running, l>>]
                    y == luaF_findupval(x, <<running, l>>)
                IN  g' = Push(IF isblack(y, p) THEN y ELSE [y EXCEPT !.cache[p] = c],
                              ra, c)
    /\ Did /\ UNCHANGED running

CloseUpvalues ==
    /\ Runs
    /\ \E l \in Level : OpenOf(g, running) # {} /\ g' = luaF_close(g, running, l)
    /\ Did /\ UNCHANGED running

\* OP_SETUPVAL: the barrier is for closed upvalues only.
SetUpval ==
    /\ Runs
    /\ \E c \in Running("lcl"), v \in OnStack :
        LET p == g.upval[c]
        IN  /\ p # NoUpval
            /\ g' = IF upisopen(p) THEN [g EXCEPT !.stack[p[1]][p[2]] = v]
                    ELSE [(IF keepinvariant(g) THEN Mark(g, v) ELSE g)
                             EXCEPT !.cell[p[1]] = v]
    /\ Did /\ UNCHANGED running

\* Coroutines: values move between stacks, and another thread runs.
lua_xmove ==
    /\ Runs /\ running = Main
    /\ \E t \in Running("thread"), l \in Level, v \in OnStack \cup {Nil} :
        g' = [g EXCEPT !.stack[t][l] = v]
    /\ Did /\ UNCHANGED running

\* A resumed thread is on the stack of the one that resumed it.
Switch ==
    /\ Runs /\ arg = Nil
    /\ \/ running = Main /\ running' \in Running("thread") \ {Main}
       \/ running # Main /\ running' = Main
    /\ Did /\ UNCHANGED g

Program ==
    \/ luaC_newobj \/ Pop \/ SetArray \/ SetNode \/ SetMode \/ Get
    \/ lua_setuservalue \/ luaC_checkfinalizer \/ pushclosure \/ CloseUpvalues
    \/ SetUpval \/ lua_xmove \/ Switch

Next == luaC_step \/ GCTM \/ FinalizerReturns \/ luaC_fullgc \/ FullStep \/ Program

Spec == Init /\ [][Next]_vars
-----------------------------------------------------------------------------
\* What an object keeps alive, given that those of R are.
Strong(o, R) ==
    CASE kind[o] = "table" ->
            (IF g.mode[o] \in {"", "k"} THEN {g.array[o]} ELSE {})
            \cup (IF Empty(g, o) THEN {}
                  ELSE (IF g.mode[o] \in {"", "v"} THEN {g.node[o].key} ELSE {})
                       \cup (IF g.mode[o] = "" \/ (g.mode[o] = "k" /\ g.node[o].key \in R)
                             THEN {g.node[o].val} ELSE {}))
      [] kind[o] = "udata" -> {g.user[o]}
      [] kind[o] = "lcl" -> {g.proto[o], UpvalValue(g, o)}
      [] kind[o] = "thread" -> Range(g.stack[o])
      [] OTHER -> {}
RECURSIVE Closure(_)
Closure(R) == LET S == R \cup (UNION {Strong(o, R) : o \in R} \ {Nil})
              IN  IF S = R THEN R ELSE Closure(S)
Reachable == Closure({Main, running, arg} \ {Nil})
\* What the program can see besides: the entries of weak tables.
Visible == Reachable \cup ((UNION {Referred(o) : o \in Reachable}
            \cup {g.cache[o] : o \in {p \in Reachable : kind[p] = "proto"}}) \ {Nil})

\* When the sweep is over every object is white again (lgc.h), until the next
\* collection starts.  Not so in this code: udata2finalize may take the object
\* at the place of the sweep from tobefnz to allgc, the sweep goes on there,
\* and what is left in tobefnz stays black.
SweepWhitens ==
    g.gcstate \in {"callfin", "pause"} => \A o \in Alive(g) : g.marked[o] = g.white

\* The properties below are about the heaps in which that has not happened: an
\* object left black is not traversed by the next collection, which frees what
\* only it refers to.
Swept == unswept = {}

\* No object the program can come to is freed, or will be by the sweep that
\* runs: not by way of a weak table, an open upvalue of a dead thread, a cached
\* closure or a finalizer that brings an object back.
NothingVisibleFreed ==
    Swept => /\ Visible \subseteq Alive(g)
             /\ issweepphase(g) => \A o \in Visible : ~isdead(g, o)

\* A full collection condemns everything that cannot be reached when it marks,
\* but for what is to be finalized, the values of upvalues that a dead thread
\* had open since its last collection, and what these keep.
Remarked == {ValueAt(g, p) : p \in {p \in g.touched : p[1] \in g.twups}} \ {Nil}
Kept == Closure(({Main, running, arg} \ {Nil}) \cup Range(g.tobefnz) \cup Range(g.finobj)
                \cup Remarked)
FullCollects ==
    [][full = "cycle" /\ g.gcstate = "atomic" /\ Swept =>
            \A o \in Alive(g') : isdead(g', o) \/ o \in Kept]_vars

Lists == g.gray \o g.grayagain \o g.weak \o g.allweak \o g.ephemeron
Colours ==
    g.gcstate \in {"propagate", "atomic"} =>
        /\ \A o \in Alive(g) : isblack(g, o) =>
                \A v \in Strong(o, {}) \ {Nil} : iswhite(g, v) =>
                    kind[o] = "lcl" /\ upisopen(g.upval[o]) /\ v = UpvalValue(g, o)
        /\ \A o \in Alive(g) : isgray(g, o) => o \in Range(Lists)
        /\ IsInjective(Lists)

Assertions ==
    /\ \A t \in Reachable : OpenOf(g, t) # {} => t \in g.twups
    /\ \A t \in Of("thread") : ~isblack(g, t)
    /\ g.tobefnz # <<>> => g.gcfinnum > 0
    /\ g.gcstate = "propagate" => g.gray # <<>>
    /\ keepinvariant(g) => /\ g.weak = <<>> /\ g.ephemeron = <<>>
                           /\ g.sweepgc = "null" /\ ~iswhite(g, Main)

\* While the collector marks, no black object refers to a white one, and every
\* gray one waits in a list, once.  And what lgc.c and lfunc.c assert: a thread
\* with open upvalues that may be marked is in the list twups, even if an atomic
\* phase took it away and then a finalizer brought it back; finalizers that wait
\* have a turn; there is a gray object while the collector propagates, no weak
\* table before it is atomic, and no place of a sweep before it sweeps.
Tricolour == Swept => Colours /\ Assertions

\* An object marked for finalization is not freed before its finalizer is
\* called; and it is chosen for its finalizer when nothing refers to it but
\* ephemerons and weak keys, weak values being cleared by then.
WeakValues == UNION {{g.array[t], g.node[t].val} :
                     t \in {t \in Reachable : g.mode[t] \in {"v", "kv"}}}
FinalizedOnce ==
    [][/\ \A o \in g.final : o \in Alive(g') /\ (o \notin g'.final => arg' = o)
       /\ Swept => \A o \in Range(g'.tobefnz) \ Range(g.tobefnz) :
                        o \notin Reachable' \cup WeakValues']_vars
=============================================================================
