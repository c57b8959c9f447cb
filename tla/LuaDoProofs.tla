----------------------------- MODULE LuaDoProofs -----------------------------
(***************************************************************************)
(* Proofs about module LuaDo, for any coroutines, any programs and any     *)
(* bounds: what nny counts, which call infos a yield can leave without     *)
(* their C frames, and what coroutine.status tells.                        *)
(***************************************************************************)
EXTENDS LuaDo, SequenceTheorems, FiniteSetTheorems, NaturalsInduction, TLAPS

-----------------------------------------------------------------------------
(* What the values of the machine are.  The values on the stacks of the    *)
(* threads are any.                                                        *)
IsSeq(s) == Len(s) \in Nat /\ s = [i \in 1..Len(s) |-> s[i]]

CallInfoOK(c) ==
    /\ c = [fn |-> c.fn, func |-> c.func, nresults |-> c.nresults, fresh |-> c.fresh,
            k |-> c.k, ypcall |-> c.ypcall, extra |-> c.extra, old_errfunc |-> c.old_errfunc]
    /\ c.func \in Nat /\ c.extra \in Nat /\ c.nresults \in Nat \cup {MULTRET}
    /\ c.fresh \in BOOLEAN /\ c.k \in BOOLEAN /\ c.ypcall \in BOOLEAN

ThreadOK(t) ==
    /\ t = [status |-> t.status, nny |-> t.nny, nCcalls |-> t.nCcalls,
            errfunc |-> t.errfunc, ci |-> t.ci, stack |-> t.stack]
    /\ t.status \in {"none", "OK", "YIELD", "ERRRUN"} /\ t.nny \in Int
    /\ IsSeq(t.ci) /\ Len(t.ci) >= 1 /\ \A i \in 1..Len(t.ci) : CallInfoOK(t.ci[i])
    /\ IsSeq(t.stack)

(* A call info that can be left without its C frame.                       *)
Fine(c) == isLua(c) \/ c.k

(* A call info with a continuation stands on call infos that can be left,  *)
(* and so does that of a yield; the place of a protected call is known.    *)
Continues(c) ==
    /\ c.k => c.fn \in {"pcall", "xpcall", "dofile", "yieldk"}
    /\ c.ypcall => /\ c.k /\ c.fn \in {"pcall", "xpcall"}
                   /\ c.extra = c.func + 2 + Extra(c.fn)

CallsOK(t) ==
    /\ t.ci[1].fn = "base" /\ t.ci[1].func = 1 /\ ~t.ci[1].ypcall
    /\ \A i \in 2..Len(t.ci) : Continues(t.ci[i])
    /\ \A i \in 2..Len(t.ci) : t.ci[i].k => \A j \in 2..(i - 1) : Fine(t.ci[j])
    /\ t.status = "YIELD" => /\ Len(t.ci) >= 2 /\ t.ci[Len(t.ci)].fn \in {"yield", "yieldk"}
                             /\ \A i \in 2..(Len(t.ci) - 1) : Fine(t.ci[i])

ThreadInv(t) == ThreadOK(t) /\ CallsOK(t)

FrameOK(r) ==
    /\ r.f \in {"luaV_execute", "C", "luaD_call", "luaD_pcall", "lua_resume"}
    /\ r.l \in Threads
    /\ r.f # "lua_resume" => r.ci \in Nat \ {0}
    /\ r.f \in {"luaV_execute", "C"} => r.ci >= 2
    /\ r.f = "C" => r = [f |-> "C", l |-> r.l, ci |-> r.ci, st |-> r.st]
    /\ r.f = "luaD_call" => r.noyield \in BOOLEAN
    /\ r.f = "luaD_pcall" => r.nny \in Int /\ r.oldtop \in Int
    /\ r.f = "lua_resume" => r.oldnny = 1 /\ r.from \in Threads /\ r.l # Main

MachineOK(x) ==
    /\ x = [th |-> x.th, cs |-> x.cs]
    /\ x.th = [t \in Threads |-> x.th[t]] /\ \A t \in Threads : ThreadInv(x.th[t])
    /\ IsSeq(x.cs) /\ \A i \in 1..Len(x.cs) : FrameOK(x.cs[i])

-----------------------------------------------------------------------------
(* The C stack: every thread of the chain has its frames together, above   *)
(* the frame of lua_resume that resumed it, and every frame is for a call  *)
(* info that the frames above it have left in place.                       *)
InChain(x, t) == t = Main \/ \E i \in 1..Len(x.cs) : x.cs[i].f = "lua_resume" /\ x.cs[i].l = t

Bottom(x) ==
    Len(x.cs) >= 1 => /\ x.cs[1].f = "luaD_pcall" /\ x.cs[1].l = Main
                      /\ x.cs[1].ci = 1 /\ x.cs[1].nny = 1

Follows(x, a, b) ==
    /\ b.f # "lua_resume" => b.l = a.l
    /\ a.f = "luaD_pcall" => b.f = "luaD_call" /\ b.noyield
    /\ b.f \in {"luaV_execute", "C"} =>
          \/ a.f = "luaD_call" /\ b.ci = a.ci + 1
          \/ a.f = "lua_resume"
          \/ a.f = "luaV_execute" /\ b.f = "C" /\ b.ci > a.ci
    /\ b.f = "luaD_call" =>
          \/ a.f = "luaD_pcall" /\ b.ci = a.ci
          \/ /\ a.f = "C" /\ b.ci = a.ci
             /\ x.th[a.l].ci[a.ci].fn \in {"pcall", "xpcall", "call", "dofile"}
          \/ a.f = "luaV_execute" /\ b.ci >= a.ci /\ ~b.noyield
    /\ b.f = "luaD_pcall" => a.f = "C" /\ b.ci = a.ci
    /\ b.f = "lua_resume" => a.f = "C" /\ b.from = a.l /\ Len(x.th[a.l].ci) = a.ci

Adjacent(x) == \A i \in 1..(Len(x.cs) - 1) : Follows(x, x.cs[i], x.cs[i + 1])

Top(x) ==
    Len(x.cs) >= 1 =>
        LET r == x.cs[Len(x.cs)]
        IN  r.f \in {"C", "luaD_call", "luaD_pcall"} => Len(x.th[r.l].ci) = r.ci

Levels(x) ==
    /\ \A i \in 1..Len(x.cs) :
          x.cs[i].f # "lua_resume" => x.cs[i].ci <= Len(x.th[x.cs[i].l].ci)
    /\ \A j \in 1..Len(x.cs) : \A i \in 1..(j - 1) :
          (x.cs[i].l = x.cs[j].l /\ x.cs[i].f # "lua_resume") =>
              /\ x.cs[i].ci <= x.cs[j].ci
              /\ x.cs[j].f \in {"luaV_execute", "C"} => x.cs[i].ci < x.cs[j].ci

Owners(x) ==
    /\ \A i \in 1..Len(x.cs) :
          x.cs[i].l # Main => \E j \in 1..i : x.cs[j].f = "lua_resume" /\ x.cs[j].l = x.cs[i].l
    /\ \A j \in 1..Len(x.cs) : \A i \in 1..(j - 1) :
          x.cs[j].f = "lua_resume" => x.cs[i].l # x.cs[j].l
    /\ \A j \in 1..Len(x.cs) : \A i \in 1..(j - 1) :
          x.cs[i].l = x.cs[j].l => \A m \in i..j : x.cs[m].l = x.cs[i].l

(* The calls of a thread that a yield cannot cross, among the first n      *)
(* frames of the C stack.                                                  *)
Uncrossed(x, t, n) ==
    {i \in 1..n : x.cs[i].l = t /\ x.cs[i].f = "luaD_call" /\ x.cs[i].noyield}

Counts(x) ==
    Len(x.cs) >= 1 =>
        /\ \A t \in Threads :
              x.th[t].nny = Cardinality(Uncrossed(x, t, Len(x.cs)))
                            + (IF t = Main \/ ~InChain(x, t) THEN 1 ELSE 0)
        /\ \A i \in 1..Len(x.cs) : x.cs[i].f = "luaD_pcall" =>
              x.cs[i].nny = Cardinality(Uncrossed(x, x.cs[i].l, i))
                            + (IF x.cs[i].l = Main THEN 1 ELSE 0)

(* Those with their C frame, with something on it that no yield crosses,   *)
(* or on the top of the C stack.                                           *)
Framed(x, t, i) ==
    \E j \in 1..Len(x.cs) :
        /\ x.cs[j].f = "C" /\ x.cs[j].l = t /\ x.cs[j].ci = i
        /\ j < Len(x.cs) =>
              \/ x.cs[j + 1].f = "luaD_call" /\ x.cs[j + 1].noyield
              \/ x.cs[j + 1].f \in {"luaD_pcall", "lua_resume"}

Stuck(x) ==
    \A t \in Threads : InChain(x, t) =>
        \A i \in 2..Len(x.th[t].ci) : Fine(x.th[t].ci[i]) \/ Framed(x, t, i)

(* The call infos that one luaV_execute runs.                              *)
Upper(x, j) ==
    IF j = Len(x.cs) THEN Len(x.th[x.cs[j].l].ci)
    ELSE IF x.cs[j + 1].f = "luaD_call" THEN x.cs[j + 1].ci ELSE x.cs[j + 1].ci - 1

Executed(x) ==
    \A j \in 1..Len(x.cs) : x.cs[j].f = "luaV_execute" =>
        LET c == x.th[x.cs[j].l].ci
        IN  /\ c[x.cs[j].ci].fresh /\ isLua(c[x.cs[j].ci])
            /\ \A m \in (x.cs[j].ci + 1)..Upper(x, j) : isLua(c[m]) /\ ~c[m].fresh

Statuses(x) ==
    \A t \in Threads :
        /\ InChain(x, t) => x.th[t].status = "OK"
        /\ (InChain(x, t) /\ Len(x.cs) >= 1 /\ x.cs[Len(x.cs)].l # t) => Len(x.th[t].ci) >= 2
        /\ (~InChain(x, t) /\ x.th[t].status = "OK") =>
              Len(x.th[t].ci) = 1 /\ Len(x.th[t].stack) >= 1

Inv(x) == /\ MachineOK(x) /\ Bottom(x) /\ Adjacent(x) /\ Top(x) /\ Levels(x) /\ Owners(x)
          /\ Counts(x) /\ Stuck(x) /\ Executed(x) /\ Statuses(x)

IInv == Inv(Machine)

-----------------------------------------------------------------------------
(* Sequences of any values.                                                *)

(* A sequence, whatever its values are.                                    *)
LEMMA SeqIn ==
    ASSUME NEW s, IsSeq(s)
    PROVE  /\ s \in Seq({s[i] : i \in 1..Len(s)}) /\ Len(s) \in Nat /\ DOMAIN s = 1..Len(s)
<1>1. s \in [1..Len(s) -> {s[i] : i \in 1..Len(s)}]
  BY DEF IsSeq
<1> QED BY <1>1, SeqDef DEF IsSeq

(* A member of Seq(S) is a sequence.                                       *)
LEMMA InSeq ==
    ASSUME NEW S, NEW s \in Seq(S)
    PROVE  IsSeq(s)
BY LenProperties DEF IsSeq

(* The length and the elements of a part of a sequence, also where the     *)
(* part goes beyond it.                                                    *)
LEMMA SubSeqFacts ==
    ASSUME NEW s, NEW m \in Int, NEW n \in Int
    PROVE  /\ IsSeq(SubSeq(s, m, n))
           /\ Len(SubSeq(s, m, n)) = IF m <= n THEN n - m + 1 ELSE 0
           /\ \A i \in 1..(n - m + 1) : SubSeq(s, m, n)[i] = s[m + i - 1]
<1> DEFINE S == {s[i] : i \in m..n}
<1>1. \A i \in m..n : s[i] \in S
  OBVIOUS
<1>2. /\ SubSeq(s, m, n) \in Seq(S)
      /\ Len(SubSeq(s, m, n)) = IF m <= n THEN n - m + 1 ELSE 0
      /\ \A i \in 1..(n - m + 1) : SubSeq(s, m, n)[i] = s[m + i - 1]
  <2> HIDE DEF S
  <2> QED BY <1>1, SubSeqProperties
<1> HIDE DEF S
<1> QED BY <1>2, InSeq

(* The length and the elements of two sequences put together.              *)
LEMMA ConcatFacts ==
    ASSUME NEW s, NEW t, IsSeq(s), IsSeq(t)
    PROVE  /\ IsSeq(s \o t) /\ Len(s \o t) = Len(s) + Len(t)
           /\ \A i \in 1..(Len(s) + Len(t)) :
                 (s \o t)[i] = IF i <= Len(s) THEN s[i] ELSE t[i - Len(s)]
<1> DEFINE S == {s[i] : i \in 1..Len(s)} \cup {t[i] : i \in 1..Len(t)}
<1>1. s \in Seq(S) /\ t \in Seq(S)
  <2>1. s \in [1..Len(s) -> S] /\ t \in [1..Len(t) -> S] /\ Len(s) \in Nat /\ Len(t) \in Nat
    BY DEF IsSeq
  <2> HIDE DEF S
  <2> QED BY <2>1, SeqDef
<1> HIDE DEF S
<1> QED BY <1>1, ConcatProperties, InSeq

(* Tuples are sequences.                                                   *)
LEMMA TupleFacts ==
    ASSUME NEW a, NEW b, NEW c, NEW d
    PROVE  /\ IsSeq(<<>>) /\ Len(<<>>) = 0
           /\ IsSeq(<<a>>) /\ Len(<<a>>) = 1
           /\ IsSeq(<<a, b>>) /\ Len(<<a, b>>) = 2
           /\ IsSeq(<<a, b, c>>) /\ Len(<<a, b, c>>) = 3
           /\ IsSeq(<<a, b, c, d>>) /\ Len(<<a, b, c, d>>) = 4
<1>1. <<>> \in Seq({a}) /\ <<a>> \in Seq({a}) /\ <<a, b>> \in Seq({a, b})
      /\ <<a, b, c>> \in Seq({a, b, c}) /\ <<a, b, c, d>> \in Seq({a, b, c, d})
  OBVIOUS
<1>2. Len(<<>>) = 0 /\ Len(<<a>>) = 1 /\ Len(<<a, b>>) = 2 /\ Len(<<a, b, c>>) = 3
      /\ Len(<<a, b, c, d>>) = 4
  OBVIOUS
<1> QED BY <1>1, <1>2, InSeq

(* What Append adds, and what it leaves.                                   *)
LEMMA AppendFacts ==
    ASSUME NEW s, IsSeq(s), NEW e
    PROVE  /\ IsSeq(Append(s, e)) /\ Len(Append(s, e)) = Len(s) + 1
           /\ \A i \in 1..Len(s) : Append(s, e)[i] = s[i]
           /\ Append(s, e)[Len(s) + 1] = e
<1> DEFINE S == {s[i] : i \in 1..Len(s)} \cup {e}
<1>1. s \in Seq(S) /\ e \in S
  <2>1. s \in [1..Len(s) -> S] /\ Len(s) \in Nat /\ e \in S
    BY DEF IsSeq
  <2> HIDE DEF S
  <2> QED BY <2>1, SeqDef
<1> HIDE DEF S
<1>2. Append(s, e) \in Seq(S) /\ Len(Append(s, e)) = Len(s) + 1
      /\ (\A i \in 1..Len(s) : Append(s, e)[i] = s[i]) /\ Append(s, e)[Len(s) + 1] = e
  BY <1>1, AppendProperties
<1> QED BY <1>2, InSeq

(* What Front leaves, and what Last is.                                    *)
LEMMA FrontFacts ==
    ASSUME NEW s, IsSeq(s), Len(s) >= 1
    PROVE  /\ IsSeq(Front(s)) /\ Len(Front(s)) = Len(s) - 1
           /\ \A i \in 1..(Len(s) - 1) : Front(s)[i] = s[i]
           /\ Last(s) = s[Len(s)]
<1>1. PICK n \in Nat : n = Len(s)
  BY DEF IsSeq
<1>2. /\ IsSeq(SubSeq(s, 1, n - 1))
      /\ Len(SubSeq(s, 1, n - 1)) = IF 1 <= n - 1 THEN n - 1 - 1 + 1 ELSE 0
      /\ \A i \in 1..(n - 1 - 1 + 1) : SubSeq(s, 1, n - 1)[i] = s[1 + i - 1]
  BY SubSeqFacts
<1>3. n >= 1
  BY <1>1
<1> DEFINE t == SubSeq(s, 1, n - 1)
<1> HIDE DEF t
<1>4. Len(t) = n - 1 /\ \A i \in 1..(n - 1) : t[i] = s[i]
  BY <1>2, <1>3 DEF t
<1>5. Front(s) = t /\ Last(s) = s[n]
  BY <1>1 DEF Front, Last, t
<1> QED BY <1>1, <1>2, <1>4, <1>5 DEF t

(* The sequence s with its last element replaced by e.                     *)
LEMMA ReplaceFacts ==
    ASSUME NEW s, IsSeq(s), Len(s) >= 1, NEW e
    PROVE  /\ IsSeq(Append(Front(s), e)) /\ Len(Append(Front(s), e)) = Len(s)
           /\ \A i \in 1..(Len(s) - 1) : Append(Front(s), e)[i] = s[i]
           /\ Append(Front(s), e)[Len(s)] = e
<1>1. Len(s) \in Nat BY DEF IsSeq
<1> QED BY <1>1, FrontFacts, AppendFacts

(* A sequence is not empty iff it has an element.                          *)
LEMMA NotEmptySeq ==
    ASSUME NEW s, IsSeq(s)
    PROVE  s # <<>> <=> Len(s) >= 1
<1>1. s \in Seq({s[i] : i \in 1..Len(s)}) /\ Len(s) \in Nat
  BY SeqIn
<1> QED BY <1>1, EmptySeq

(* Every nonempty set of numbers up to n has a greatest element.           *)
LEMMA GreatestOf ==
    ASSUME NEW n \in Nat, NEW S \in SUBSET (1..n), S # {}
    PROVE  \E m \in S : \A i \in S : i <= m
<1> DEFINE D == {n - i : i \in S}
<1>1. D \in SUBSET Nat /\ D # {}
  <2>1. \A i \in S : n - i \in Nat
    OBVIOUS
  <2> QED BY <2>1
<1>2. PICK d \in D : \A e \in D : ~(<<e, d>> \in OpToRel(<, Nat))
  <2> HIDE DEF D
  <2> QED BY <1>1, NatLessThanWellFounded, WFMin, Zenon
<1>3. PICK m \in S : d = n - m
  OBVIOUS
<1>4. ASSUME NEW i \in S PROVE i <= m
  <2>1. n - i \in D /\ n - i \in Nat /\ d \in Nat
    BY <1>1
  <2>2. <<n - i, d>> \notin OpToRel(<, Nat)
    BY <1>2, <2>1
  <2>3. ~(n - i < d)
    BY <2>1, <2>2 DEF OpToRel
  <2> QED BY <2>3, <1>3
<1> QED BY <1>4

-----------------------------------------------------------------------------
(* What steps do to the machine, in the terms of the invariant.            *)

(* Only the thread l of x may be another in y.                             *)
Beside(x, y, l) ==
    /\ y = [th |-> y.th, cs |-> y.cs] /\ y.th = [t \in Threads |-> y.th[t]]
    /\ \A t \in Threads : t # l => y.th[t] = x.th[t]
    /\ l \in Threads /\ ThreadInv(y.th[l])

(* When one thread has changed, and rightly, all are right.                *)
LEMMA BesideThreads ==
    ASSUME NEW x, NEW y, NEW l, MachineOK(x), Beside(x, y, l)
    PROVE  \A t \in Threads : ThreadInv(y.th[t])
BY DEF Beside, MachineOK

(* What is known of the call infos of a thread.                            *)
LEMMA ThreadCalls ==
    ASSUME NEW x, MachineOK(x), NEW t \in Threads
    PROVE  /\ Len(x.th[t].ci) \in Nat /\ Len(x.th[t].ci) >= 1 /\ x.th[t].nny \in Int
           /\ IsSeq(x.th[t].ci) /\ IsSeq(x.th[t].stack) /\ Len(x.th[t].stack) \in Nat
           /\ \A i \in 1..Len(x.th[t].ci) : CallInfoOK(x.th[t].ci[i])
BY DEF MachineOK, ThreadInv, ThreadOK, IsSeq

(* The frames of the C stack have their types.                             *)
LEMMA FrameTypes ==
    ASSUME NEW x, MachineOK(x)
    PROVE  /\ Len(x.cs) \in Nat /\ IsSeq(x.cs)
           /\ \A i \in 1..Len(x.cs) : FrameOK(x.cs[i]) /\ x.cs[i].l \in Threads
BY Zenon DEF MachineOK, FrameOK, IsSeq

(* The call info of a frame, and those that one luaV_execute runs.         *)
LEMMA FrameLevel ==
    ASSUME NEW x, Inv(x), NEW j \in 1..Len(x.cs), x.cs[j].f # "lua_resume"
    PROVE  /\ x.cs[j].l \in Threads /\ x.cs[j].ci \in Nat /\ x.cs[j].ci >= 1
           /\ x.cs[j].ci <= Len(x.th[x.cs[j].l].ci)
           /\ x.cs[j].ci \in 1..Len(x.th[x.cs[j].l].ci)
<1>1. MachineOK(x) /\ Levels(x)
  BY DEF Inv
<1>2. FrameOK(x.cs[j]) /\ x.cs[j].l \in Threads
  BY <1>1, FrameTypes
<1>3. x.cs[j].ci \in Nat \ {0}
  BY <1>2, Zenon DEF FrameOK
<1>4. x.cs[j].ci <= Len(x.th[x.cs[j].l].ci)
  BY <1>1 DEF Levels
<1>5. Len(x.th[x.cs[j].l].ci) \in Nat
  BY <1>1, <1>2, ThreadCalls
<1> QED BY <1>2, <1>3, <1>4, <1>5

(* Two frames of the C stack, one on the other.                            *)
LEMMA NextFrame ==
    ASSUME NEW x, Inv(x), NEW j \in 1..Len(x.cs), j # Len(x.cs)
    PROVE  /\ j \in 1..(Len(x.cs) - 1) /\ j + 1 \in 1..Len(x.cs)
           /\ Follows(x, x.cs[j], x.cs[j + 1])
<1>1. MachineOK(x) /\ Adjacent(x)
  BY DEF Inv
<1>2. j \in 1..(Len(x.cs) - 1) /\ j + 1 \in 1..Len(x.cs)
  BY <1>1, FrameTypes
<1> QED BY <1>1, <1>2 DEF Adjacent

(* A luaV_execute runs its own call info at least, and none that is not    *)
(* there.                                                                  *)
LEMMA UpperLevel ==
    ASSUME NEW x, Inv(x), NEW j \in 1..Len(x.cs), x.cs[j].f = "luaV_execute"
    PROVE  /\ Upper(x, j) \in Int
           /\ x.cs[j].ci <= Upper(x, j) /\ Upper(x, j) <= Len(x.th[x.cs[j].l].ci)
<1>1. /\ x.cs[j].l \in Threads /\ x.cs[j].ci \in Nat /\ x.cs[j].ci <= Len(x.th[x.cs[j].l].ci)
  BY FrameLevel
<1>2. Len(x.th[x.cs[j].l].ci) \in Nat
  BY <1>1, ThreadCalls, Zenon DEF Inv
<1>3. CASE j = Len(x.cs)
  BY <1>1, <1>2, <1>3 DEF Upper
<1>4. CASE j # Len(x.cs)
  <2>1. j + 1 \in 1..Len(x.cs) /\ Follows(x, x.cs[j], x.cs[j + 1])
    BY <1>4, NextFrame
  <2> DEFINE a == x.cs[j]
             b == x.cs[j + 1]
  <2> HIDE DEF a, b
  <2>2. a.f = "luaV_execute" /\ Follows(x, a, b)
    BY <2>1 DEF a, b
  <2>3. FrameOK(b)
    BY <2>1, FrameTypes DEF Inv, b
  <2>4. b.l = a.l /\ ((b.f = "luaD_call" /\ b.ci >= a.ci) \/ (b.f = "C" /\ b.ci > a.ci))
    BY <2>2, <2>3, Zenon DEF Follows, FrameOK
  <2>5. b.ci \in Nat /\ b.ci <= Len(x.th[a.l].ci)
    BY <2>1, <2>4, FrameLevel DEF a, b
  <2>6. Upper(x, j) = IF b.f = "luaD_call" THEN b.ci ELSE b.ci - 1
    BY <1>4 DEF Upper, b
  <2>7. a.ci \in Int /\ Len(x.th[a.l].ci) \in Int
    BY <1>1, <1>2 DEF a
  <2>8. Upper(x, j) \in Int /\ a.ci <= Upper(x, j) /\ Upper(x, j) <= Len(x.th[a.l].ci)
    <3> DEFINE u == b.ci
               v == a.ci
               w == Len(x.th[a.l].ci)
               z == Upper(x, j)
    <3>1. u \in Nat /\ u <= w /\ v \in Int /\ w \in Int /\ (z = u \/ z = u - 1)
          /\ (z = u - 1 => u > v) /\ u >= v
      BY <2>4, <2>5, <2>6, <2>7
    <3> HIDE DEF u, v, w, z
    <3>2. z \in Int /\ v <= z /\ z <= w
      BY <3>1
    <3> QED BY <3>2 DEF u, v, w, z
  <2> QED BY <2>8 DEF a
<1> QED BY <1>3, <1>4

(* The call infos of a thread of the chain change, but not what they are   *)
(* for; those that can be left without their C frame still can.            *)
Modifies(x, y, l) ==
    LET n == Len(x.th[l].ci)
    IN  /\ Beside(x, y, l) /\ y.cs = x.cs
        /\ y.th[l].status = x.th[l].status /\ y.th[l].nny = x.th[l].nny
        /\ (~InChain(x, l) /\ x.th[l].status = "OK") => Len(y.th[l].stack) >= 1
        /\ Len(y.th[l].ci) = n
        /\ \A i \in 1..n : y.th[l].ci[i].fn = x.th[l].ci[i].fn
                           /\ (Fine(x.th[l].ci[i]) => Fine(y.th[l].ci[i]))
        /\ \/ \A i \in 1..n : y.th[l].ci[i].fresh = x.th[l].ci[i].fresh
           \/ Len(x.cs) >= 1 /\ x.cs[Len(x.cs)].f = "lua_resume" /\ x.cs[Len(x.cs)].l = l

(* Such a change keeps the invariant.                                      *)
LEMMA ModifiesInv ==
    ASSUME NEW x, NEW y, NEW l, Inv(x), Modifies(x, y, l)
    PROVE  Inv(y)
<1>l. l \in Threads /\ Beside(x, y, l) /\ y.cs = x.cs
  BY DEF Modifies, Beside
<1>x. MachineOK(x)
  BY DEF Inv
<1>o. \A t \in Threads : t # l => y.th[t] = x.th[t]
  BY <1>l DEF Beside
<1>i. \A t \in Threads : InChain(y, t) <=> InChain(x, t)
  BY <1>l, Zenon DEF InChain
<1>t. ASSUME NEW t \in Threads
      PROVE  /\ Len(y.th[t].ci) = Len(x.th[t].ci) /\ y.th[t].status = x.th[t].status
             /\ y.th[t].nny = x.th[t].nny
             /\ \A i \in 1..Len(x.th[t].ci) :
                   /\ y.th[t].ci[i].fn = x.th[t].ci[i].fn
                   /\ Fine(x.th[t].ci[i]) => Fine(y.th[t].ci[i])
  <2>1. CASE t = l
    BY <2>1 DEF Modifies
  <2>2. CASE t # l
    BY <2>2, <1>o
  <2> QED BY <2>1, <2>2, Zenon
<1>n. \A t \in Threads : Len(x.th[t].ci) \in Nat /\ Len(x.th[t].ci) >= 1
  BY <1>x, ThreadCalls
<1>r. /\ Len(x.cs) \in Nat
      /\ \A i \in 1..Len(x.cs) : FrameOK(x.cs[i]) /\ x.cs[i].l \in Threads
  BY <1>x, FrameTypes
<1>1. MachineOK(y)
  BY <1>l, <1>x, BesideThreads DEF MachineOK, Beside
<1>2. Bottom(y)
  BY <1>l DEF Inv, Bottom
<1>3. Adjacent(y)
  <2> SUFFICES ASSUME NEW i \in 1..(Len(x.cs) - 1) PROVE Follows(y, x.cs[i], x.cs[i + 1])
    BY <1>l DEF Adjacent
  <2>1. Follows(x, x.cs[i], x.cs[i + 1])
    BY DEF Inv, Adjacent
  <2>2. i \in 1..Len(x.cs) /\ i + 1 \in 1..Len(x.cs)
    BY <1>r
  <2>3. /\ FrameOK(x.cs[i]) /\ x.cs[i].l \in Threads
        /\ x.cs[i].f # "lua_resume" => x.cs[i].ci \in 1..Len(x.th[x.cs[i].l].ci)
    BY <2>2, <1>r, <1>n DEF Inv, Levels, FrameOK
  <2> DEFINE a == x.cs[i]
             b == x.cs[i + 1]
  <2> HIDE DEF a, b
  <2>4. /\ a.f # "lua_resume" => y.th[a.l].ci[a.ci].fn = x.th[a.l].ci[a.ci].fn
        /\ Len(y.th[a.l].ci) = Len(x.th[a.l].ci)
    BY <2>3, <1>t, Zenon DEF a
  <2>5. Follows(x, a, b)
    BY <2>1 DEF a, b
  <2>6. Follows(y, a, b)
    BY <2>4, <2>5, Zenon DEF Follows
  <2> QED BY <2>6 DEF a, b
<1>4. Top(y)
  BY <1>l, <1>t, <1>r DEF Inv, Top
<1>5. Levels(y)
  BY <1>l, <1>t, <1>r DEF Inv, Levels
<1>6. Owners(y)
  BY <1>l DEF Inv, Owners
<1>7. Counts(y)
  <2>1. \A t, m : Uncrossed(y, t, m) = Uncrossed(x, t, m)
    BY <1>l DEF Uncrossed
  <2> QED BY <1>l, <1>t, <1>i, <2>1 DEF Inv, Counts
<1>8. Stuck(y)
  <2>1. \A t, i : Framed(y, t, i) <=> Framed(x, t, i)
    BY <1>l DEF Framed
  <2>2. ASSUME NEW t \in Threads, InChain(x, t), NEW i \in 2..Len(x.th[t].ci)
        PROVE  Fine(y.th[t].ci[i]) \/ Framed(y, t, i)
    <3>1. Fine(x.th[t].ci[i]) \/ Framed(x, t, i)
      BY <2>2 DEF Inv, Stuck
    <3>2. i \in 1..Len(x.th[t].ci)
      BY <1>n
    <3> QED BY <3>1, <3>2, <1>t, <2>1
  <2> QED BY <2>2, <1>i, <1>t DEF Stuck
<1>10. Executed(y)
  <2> SUFFICES ASSUME NEW j \in 1..Len(x.cs), x.cs[j].f = "luaV_execute"
               PROVE  LET c == y.th[x.cs[j].l].ci
                      IN  /\ c[x.cs[j].ci].fresh /\ isLua(c[x.cs[j].ci])
                          /\ \A m \in (x.cs[j].ci + 1)..Upper(y, j) : isLua(c[m]) /\ ~c[m].fresh
    BY <1>l, Zenon DEF Executed
  <2> DEFINE t == x.cs[j].l
             h == x.cs[j].ci
  <2>1. t \in Threads /\ h \in Nat /\ h >= 1 /\ h <= Len(x.th[t].ci)
    BY FrameLevel, Zenon
  <2>2. Upper(y, j) = Upper(x, j)
    BY <2>1, <1>t, <1>l DEF Upper
  <2>3. Upper(x, j) \in Int /\ Upper(x, j) <= Len(x.th[t].ci)
    BY UpperLevel, Zenon
  <2>4. \A i \in 1..Len(x.th[t].ci) : y.th[t].ci[i].fn = x.th[t].ci[i].fn
    BY <2>1, <1>t, Zenon
  <2>5. \A i \in 1..Len(x.th[t].ci) : y.th[t].ci[i].fresh = x.th[t].ci[i].fresh
    <3>1. CASE t # l
      BY <3>1, <2>1, <1>o
    <3>2. CASE t = l
      <4>1. ~(Len(x.cs) >= 1 /\ x.cs[Len(x.cs)].f = "lua_resume" /\ x.cs[Len(x.cs)].l = l)
        <5>1. j # Len(x.cs) => j \in 1..(Len(x.cs) - 1)
          BY <1>r
        <5> QED BY <3>2, <5>1 DEF Inv, Owners
      <4> QED BY <4>1, <3>2, Zenon DEF Modifies
    <3> QED BY <3>1, <3>2, Zenon
  <2>6. /\ x.th[t].ci[h].fresh /\ isLua(x.th[t].ci[h])
        /\ \A m \in (h + 1)..Upper(x, j) : isLua(x.th[t].ci[m]) /\ ~x.th[t].ci[m].fresh
    BY Zenon DEF Inv, Executed
  <2> HIDE DEF t, h
  <2>8. Len(x.th[t].ci) \in Nat
    BY <2>1, <1>n
  <2> DEFINE u == Upper(x, j)
             c == x.th[t].ci
             d == y.th[t].ci
  <2> HIDE DEF u, c, d
  <2>9. h \in 1..Len(c) /\ \A m \in (h + 1)..u : m \in 1..Len(c)
    BY <2>1, <2>3, <2>8 DEF c, u
  <2>10. \A i \in 1..Len(c) : (isLua(d[i]) <=> isLua(c[i])) /\ d[i].fresh = c[i].fresh
    BY <2>4, <2>5 DEF isLua, c, d
  <2>11. /\ c[h].fresh /\ isLua(c[h])
         /\ \A m \in (h + 1)..u : isLua(c[m]) /\ ~c[m].fresh
    BY <2>6, Zenon DEF c, u
  <2>7. /\ d[h].fresh /\ isLua(d[h])
        /\ \A m \in (h + 1)..u : isLua(d[m]) /\ ~d[m].fresh
    BY <2>9, <2>10, <2>11
  <2> QED BY <2>7, <2>2, Zenon DEF t, h, u, d
<1>11. Statuses(y)
  <2>1. ASSUME NEW t \in Threads, ~InChain(x, t), x.th[t].status = "OK"
        PROVE  Len(y.th[t].stack) >= 1
    <3>1. CASE t = l
      BY <2>1, <3>1 DEF Modifies
    <3>2. CASE t # l
      BY <2>1, <3>2, <1>o DEF Inv, Statuses
    <3> QED BY <3>1, <3>2
  <2> QED BY <2>1, <1>l, <1>t, <1>i DEF Inv, Statuses
<1> QED
  BY <1>1, <1>2, <1>3, <1>4, <1>5, <1>6, <1>7, <1>8, <1>10, <1>11, Zenon DEF Inv

(* The frames between two of a thread are its own.                         *)
LEMMA SameOwner ==
    ASSUME NEW x, Inv(x), NEW j \in 1..Len(x.cs), NEW i \in 1..j, x.cs[i].l = x.cs[j].l
    PROVE  \A m \in i..j : x.cs[m].l = x.cs[j].l /\ (m > i => x.cs[m].f # "lua_resume")
<1>1. Owners(x) /\ Len(x.cs) \in Nat
  BY FrameTypes DEF Inv
<1>2. ASSUME NEW m \in i..j PROVE x.cs[m].l = x.cs[j].l
  <2>1. CASE i = j
    BY <1>1, <2>1
  <2>2. CASE i # j
    <3>1. i \in 1..(j - 1)
      BY <1>1, <2>2
    <3> QED BY <3>1, <1>1 DEF Owners
  <2> QED BY <2>1, <2>2
<1>3. ASSUME NEW m \in i..j, m > i PROVE x.cs[m].f # "lua_resume"
  <2>1. m \in 1..Len(x.cs) /\ i \in 1..(m - 1) /\ x.cs[m].l = x.cs[i].l
    BY <1>1, <1>2, <1>3
  <2> QED BY <2>1, <1>1 DEF Owners
<1> QED BY <1>2, <1>3

(* A thread that is not in the chain has no frames.                        *)
LEMMA OutOfChain ==
    ASSUME NEW x, Inv(x), NEW i \in 1..Len(x.cs)
    PROVE  InChain(x, x.cs[i].l)
<1>1. CASE x.cs[i].l = Main
  BY <1>1 DEF InChain
<1>2. CASE x.cs[i].l # Main
  <2>1. PICK j \in 1..i : x.cs[j].f = "lua_resume" /\ x.cs[j].l = x.cs[i].l
    BY <1>2 DEF Inv, Owners
  <2>2. j \in 1..Len(x.cs)
    BY FrameTypes DEF Inv
  <2> QED BY <2>1, <2>2 DEF InChain
<1> QED BY <1>1, <1>2

(* The last frames, which are of the thread l, and the last call infos of  *)
(* l are gone: m frames and p call infos are left.                         *)
Cuts(x, y, l, m, p) ==
    /\ Beside(x, y, l) /\ m \in 0..Len(x.cs) /\ p \in 1..Len(x.th[l].ci)
    /\ IsSeq(y.cs) /\ Len(y.cs) = m /\ (\A i \in 1..m : y.cs[i] = x.cs[i])
    /\ Len(y.th[l].ci) = p /\ (\A i \in 1..p : y.th[l].ci[i] = x.th[l].ci[i])
    /\ Len(x.cs) >= 1 /\ x.cs[Len(x.cs)].l = l
    /\ \A i \in (m + 1)..Len(x.cs) : x.cs[i].l = l
    /\ \A i \in 1..m : (x.cs[i].l = l /\ x.cs[i].f # "lua_resume") => x.cs[i].ci <= p
    /\ (m >= 1 /\ x.cs[m].l = l /\ x.cs[m].f \in {"C", "luaD_call", "luaD_pcall"}) =>
          p = x.cs[m].ci
    /\ (m >= 1 /\ x.cs[m].l = l /\ x.cs[m].f = "luaV_execute") => p <= Upper(x, m)
    /\ m >= 1 => y.th[l].nny = Cardinality(Uncrossed(x, l, m))
                               + (IF l = Main \/ ~InChain(y, l) THEN 1 ELSE 0)
    /\ InChain(y, l) =>
          /\ y.th[l].status = "OK"
          /\ \A i \in 2..p : Fine(y.th[l].ci[i]) \/ Framed(y, l, i)
    /\ (~InChain(y, l) /\ y.th[l].status = "OK") => p = 1 /\ Len(y.th[l].stack) >= 1

(* Such a cut keeps the invariant.                                         *)
LEMMA CutsInv ==
    ASSUME NEW x, NEW y, NEW l, NEW m, NEW p, Inv(x), Cuts(x, y, l, m, p)
    PROVE  Inv(y)
<1> DEFINE n == Len(x.cs)
<1>l. l \in Threads /\ Beside(x, y, l)
  BY DEF Cuts, Beside
<1>x. MachineOK(x) /\ n \in Nat /\ n >= 1 /\ n \in 1..n
  BY FrameTypes DEF Inv, Cuts
<1>m. m \in 0..n /\ m \in Nat /\ m <= n /\ (\A i \in 1..m : i \in 1..n) /\ (m >= 1 => m \in 1..m)
  BY <1>x DEF Cuts
<1>n. \A t \in Threads : Len(x.th[t].ci) \in Nat /\ Len(x.th[t].ci) >= 1
  BY <1>x, ThreadCalls
<1>p. p \in Nat /\ p >= 1 /\ p <= Len(x.th[l].ci) /\ \A i \in 1..p : i \in 1..Len(x.th[l].ci)
  BY <1>l, <1>n DEF Cuts
<1>y. IsSeq(y.cs) /\ Len(y.cs) = m /\ (\A i \in 1..m : y.cs[i] = x.cs[i])
  BY DEF Cuts
<1>q. Len(y.th[l].ci) = p /\ (\A i \in 1..p : y.th[l].ci[i] = x.th[l].ci[i])
  BY DEF Cuts
<1>o. \A t \in Threads : t # l => y.th[t] = x.th[t]
  BY <1>l DEF Beside
<1>g. x.cs[n].l = l /\ (\A i \in (m + 1)..n : x.cs[i].l = l)
  BY DEF Cuts
<1>r. \A i \in 1..n : FrameOK(x.cs[i]) /\ x.cs[i].l \in Threads
  BY <1>x, FrameTypes
<1>c. \A i \in 1..m : (x.cs[i].l = l /\ x.cs[i].f # "lua_resume") => x.cs[i].ci <= p
  BY DEF Cuts
<1>s. ASSUME NEW i \in 1..m, x.cs[i].l = l
      PROVE  \A k \in i..n : x.cs[k].l = l /\ (k > i => x.cs[k].f # "lua_resume")
  <2>1. i \in 1..n
    BY <1>m
  <2> QED BY <2>1, <1>s, <1>x, <1>g, SameOwner
<1>i. \A t \in Threads : t # l => (InChain(y, t) <=> InChain(x, t))
  <2> SUFFICES ASSUME NEW t \in Threads, t # l PROVE InChain(y, t) <=> InChain(x, t)
    OBVIOUS
  <2>1. \A i \in 1..n : x.cs[i].l = t => i \in 1..m
    BY <1>x, <1>m, <1>g
  <2>2. InChain(y, t) => InChain(x, t)
    BY <1>y, <1>m DEF InChain
  <2>3. InChain(x, t) => InChain(y, t)
    BY <1>y, <2>1 DEF InChain
  <2> QED BY <2>2, <2>3
<1>1. MachineOK(y)
  <2>1. \A i \in 1..m : FrameOK(y.cs[i])
    BY <1>r, <1>m, <1>y
  <2> QED BY <2>1, <1>y, <1>l, <1>x, BesideThreads DEF MachineOK, Beside
<1>2. Bottom(y)
  BY <1>y, <1>m DEF Inv, Bottom
<1>3. Adjacent(y)
  <2> SUFFICES ASSUME NEW i \in 1..(m - 1) PROVE Follows(y, y.cs[i], y.cs[i + 1])
    BY <1>y DEF Adjacent
  <2>1. i \in 1..m /\ i + 1 \in 1..m /\ i \in 1..n /\ i # n /\ i + 1 \in i..n /\ i + 1 > i
    BY <1>m, <1>x
  <2> DEFINE a == x.cs[i]
             b == x.cs[i + 1]
  <2>2. Follows(x, a, b)
    BY <2>1, NextFrame
  <2>3. a.l \in Threads /\ (a.f # "lua_resume" => a.ci \in 1..Len(x.th[a.l].ci))
    BY <2>1, <1>r, FrameLevel
  <2>4. a.l = l => b.f # "lua_resume"
    BY <2>1, <1>s
  <2>5. (a.l = l /\ a.f # "lua_resume") => a.ci \in 1..p
    BY <2>1, <2>3, <1>c, <1>p, <1>n
  <2>6. y.cs[i] = a /\ y.cs[i + 1] = b
    BY <2>1, <1>y, Zenon
  <2> HIDE DEF a, b
  <2>7. a.l # l => y.th[a.l] = x.th[a.l]
    BY <2>3, <1>o
  <2>8. (a.f = "C" /\ b.f # "lua_resume") => y.th[a.l].ci[a.ci].fn = x.th[a.l].ci[a.ci].fn
    BY <2>5, <2>7, <1>q, Zenon
  <2>9. b.f = "lua_resume" => Len(y.th[a.l].ci) = Len(x.th[a.l].ci)
    BY <2>4, <2>7
  <2>10. Follows(y, a, b)
    BY <2>2, <2>8, <2>9 DEF Follows
  <2> QED BY <2>6, <2>10
<1>4. Top(y)
  <2> SUFFICES ASSUME m >= 1, x.cs[m].f \in {"C", "luaD_call", "luaD_pcall"}
               PROVE  Len(y.th[x.cs[m].l].ci) = x.cs[m].ci
    BY <1>y, <1>m DEF Top
  <2>1. CASE x.cs[m].l = l
    BY <2>1, <1>q DEF Cuts
  <2>2. CASE x.cs[m].l # l
    <3>1. m # n /\ m \in 1..n /\ x.cs[m].l \in Threads
      BY <2>2, <1>g, <1>m, <1>r
    <3>2. Follows(x, x.cs[m], x.cs[m + 1]) /\ m + 1 \in 1..n
      BY <3>1, NextFrame
    <3>3. x.cs[m + 1].l = l
      BY <3>1, <1>g, <1>m, <1>x
    <3>4. Len(x.th[x.cs[m].l].ci) = x.cs[m].ci
      BY <3>2, <3>3, <2>2, Zenon DEF Follows
    <3> QED BY <3>1, <3>4, <2>2, <1>o
  <2> QED BY <2>1, <2>2
<1>5. Levels(y)
  <2>1. ASSUME NEW i \in 1..m, x.cs[i].f # "lua_resume"
        PROVE  x.cs[i].ci <= Len(y.th[x.cs[i].l].ci)
    <3>1. CASE x.cs[i].l = l
      BY <3>1, <2>1, <1>c, <1>q, Zenon
    <3>2. CASE x.cs[i].l # l
      BY <3>2, <2>1, <1>o, <1>m, FrameLevel
    <3> QED BY <3>1, <3>2, Zenon
  <2>2. \A j \in 1..m : \A i \in 1..(j - 1) : j \in 1..n /\ i \in 1..m
    BY <1>m
  <2> QED BY <2>1, <2>2, <1>y DEF Inv, Levels
<1>6. Owners(y)
  <2>1. \A j \in 1..m : j \in 1..n /\ (\A i \in 1..j : i \in 1..m) /\ \A i \in 1..(j - 1) : i \in 1..m
    BY <1>m
  <2>2. \A j \in 1..m : \A i \in 1..(j - 1) : \A k \in i..j : k \in 1..m
    BY <1>m
  <2>3. \A i \in 1..m :
            y.cs[i].l # Main => \E j \in 1..i : y.cs[j].f = "lua_resume" /\ y.cs[j].l = y.cs[i].l
    BY <2>1, <1>y DEF Inv, Owners
  <2>4. \A j \in 1..m : \A i \in 1..(j - 1) : y.cs[j].f = "lua_resume" => y.cs[i].l # y.cs[j].l
    BY <2>1, <1>y DEF Inv, Owners
  <2>5. \A j \in 1..m : \A i \in 1..(j - 1) :
            y.cs[i].l = y.cs[j].l => \A k \in i..j : y.cs[k].l = y.cs[i].l
    <3> SUFFICES ASSUME NEW j \in 1..m, NEW i \in 1..(j - 1), y.cs[i].l = y.cs[j].l,
                        NEW k \in i..j
                 PROVE  y.cs[k].l = y.cs[i].l
      OBVIOUS
    <3>1. i \in 1..m /\ j \in 1..n /\ k \in 1..m
      BY <2>1, <2>2
    <3>2. x.cs[i].l = x.cs[j].l
      BY <3>1, <1>y
    <3>3. x.cs[k].l = x.cs[i].l
      BY <3>1, <3>2 DEF Inv, Owners
    <3> QED BY <3>1, <3>3, <1>y
  <2> QED BY <2>3, <2>4, <2>5, <1>y DEF Owners
<1>7. Counts(y)
  <2> SUFFICES ASSUME m >= 1 PROVE Counts(y)
    BY <1>y, Zenon DEF Counts
  <2>1. \A t : \A i \in 1..m : Uncrossed(y, t, i) = Uncrossed(x, t, i)
    <3> SUFFICES ASSUME NEW t, NEW i \in 1..m PROVE Uncrossed(y, t, i) = Uncrossed(x, t, i)
      OBVIOUS
    <3>1. \A k \in 1..i : k \in 1..m
      BY <1>m
    <3> QED BY <3>1, <1>y DEF Uncrossed
  <2>2. \A t \in Threads : t # l => Uncrossed(x, t, m) = Uncrossed(x, t, n)
    <3> SUFFICES ASSUME NEW t \in Threads, t # l PROVE Uncrossed(x, t, m) = Uncrossed(x, t, n)
      OBVIOUS
    <3>1. \A k \in 1..n : x.cs[k].l = t => k \in 1..m
      BY <1>x, <1>m, <1>g
    <3> QED BY <3>1, <1>m DEF Uncrossed
  <2>3. \A t \in Threads :
            y.th[t].nny = Cardinality(Uncrossed(y, t, m))
                          + (IF t = Main \/ ~InChain(y, t) THEN 1 ELSE 0)
    <3> SUFFICES ASSUME NEW t \in Threads
                 PROVE  y.th[t].nny = Cardinality(Uncrossed(y, t, m))
                                      + (IF t = Main \/ ~InChain(y, t) THEN 1 ELSE 0)
      OBVIOUS
    <3>1. CASE t = l
      BY <3>1, <2>1, <1>m DEF Cuts
    <3>2. CASE t # l
      <4>1. x.th[t].nny = Cardinality(Uncrossed(x, t, n))
                          + (IF t = Main \/ ~InChain(x, t) THEN 1 ELSE 0)
        BY <1>x DEF Inv, Counts
      <4> QED BY <4>1, <3>2, <2>1, <2>2, <1>m, <1>o, <1>i
    <3> QED BY <3>1, <3>2
  <2>4. \A i \in 1..m : y.cs[i].f = "luaD_pcall" =>
              y.cs[i].nny = Cardinality(Uncrossed(y, y.cs[i].l, i))
                            + (IF y.cs[i].l = Main THEN 1 ELSE 0)
    <3>1. \A i \in 1..n : x.cs[i].f = "luaD_pcall" =>
              x.cs[i].nny = Cardinality(Uncrossed(x, x.cs[i].l, i))
                            + (IF x.cs[i].l = Main THEN 1 ELSE 0)
      BY <1>x DEF Inv, Counts
    <3> QED BY <3>1, <2>1, <1>m, <1>y
  <2> QED BY <2>3, <2>4, <1>y DEF Counts
<1>8. Stuck(y)
  <2> SUFFICES ASSUME NEW t \in Threads, InChain(y, t), NEW i \in 2..Len(y.th[t].ci)
               PROVE  Fine(y.th[t].ci[i]) \/ Framed(y, t, i)
    BY DEF Stuck
  <2>1. CASE t = l
    BY <2>1, <1>q DEF Cuts
  <2>2. CASE t # l
    <3>1. y.th[t] = x.th[t] /\ InChain(x, t)
      BY <2>2, <1>o, <1>i
    <3>2. Fine(x.th[t].ci[i]) \/ Framed(x, t, i)
      BY <3>1 DEF Inv, Stuck
    <3>3. ASSUME Framed(x, t, i) PROVE Framed(y, t, i)
      <4>1. PICK j \in 1..n :
                /\ x.cs[j].f = "C" /\ x.cs[j].l = t /\ x.cs[j].ci = i
                /\ j < n => \/ x.cs[j + 1].f = "luaD_call" /\ x.cs[j + 1].noyield
                            \/ x.cs[j + 1].f \in {"luaD_pcall", "lua_resume"}
        BY <3>3 DEF Framed
      <4>2. j \in 1..m
        BY <4>1, <2>2, <1>x, <1>m, <1>g
      <4>3. j < m => j < n /\ j + 1 \in 1..m
        BY <4>2, <1>m
      <4> QED BY <4>1, <4>2, <4>3, <1>y, Zenon DEF Framed
    <3> QED BY <3>1, <3>2, <3>3
  <2> QED BY <2>1, <2>2
<1>9. Executed(y)
  <2> SUFFICES ASSUME NEW j \in 1..m, x.cs[j].f = "luaV_execute"
               PROVE  LET c == y.th[x.cs[j].l].ci
                      IN  /\ c[x.cs[j].ci].fresh /\ isLua(c[x.cs[j].ci])
                          /\ \A k \in (x.cs[j].ci + 1)..Upper(y, j) : isLua(c[k]) /\ ~c[k].fresh
    BY <1>y, Zenon DEF Executed
  <2> DEFINE t == x.cs[j].l
             h == x.cs[j].ci
  <2>1. j \in 1..n /\ t \in Threads /\ h \in Nat /\ h >= 1 /\ h <= Len(x.th[t].ci)
    BY <1>m, FrameLevel
  <2>2. Upper(x, j) \in Int /\ h <= Upper(x, j) /\ Upper(x, j) <= Len(x.th[t].ci)
    BY <2>1, UpperLevel, Zenon
  <2>3. Upper(y, j) \in Int /\ Upper(y, j) <= Upper(x, j)
    <3>1. CASE j # m
      <4>1. j # n /\ j + 1 \in 1..m
        BY <3>1, <1>m
      <4> QED BY <4>1, <3>1, <2>2, <1>y DEF Upper
    <3>2. CASE j = m
      <4>1. Upper(y, j) = Len(y.th[t].ci)
        BY <3>2, <1>y, Zenon DEF Upper
      <4>2. CASE t = l
        <5>1. Upper(y, j) = p /\ x.cs[m].l = l /\ x.cs[m].f = "luaV_execute"
          BY <4>1, <4>2, <3>2, <1>q
        <5>2. p <= Upper(x, m)
          BY <5>1, <3>2 DEF Cuts
        <5> QED BY <5>1, <5>2, <3>2, <1>p
      <4>3. CASE t # l
        <5>1. m # n
          BY <4>3, <3>2, <1>g
        <5>2. Follows(x, x.cs[m], x.cs[m + 1])
          BY <5>1, <2>1, <3>2, NextFrame
        <5>3. x.cs[m + 1].l = l
          BY <5>1, <1>g, <1>m, <1>x
        <5> DEFINE a == x.cs[m]
                   b == x.cs[m + 1]
        <5>4. a.l # l /\ a.f = "luaV_execute"
          BY <4>3, <3>2
        <5>5. Follows(x, a, b) /\ b.l = l
          BY <5>2, <5>3
        <5> HIDE DEF a, b
        <5> QED BY <5>4, <5>5 DEF Follows
      <4> QED BY <4>2, <4>3, Zenon
    <3> QED BY <3>1, <3>2
  <2>4. /\ x.th[t].ci[h].fresh /\ isLua(x.th[t].ci[h])
        /\ \A k \in (h + 1)..Upper(x, j) : isLua(x.th[t].ci[k]) /\ ~x.th[t].ci[k].fresh
    BY <2>1, Zenon DEF Inv, Executed
  <2>5. h <= Len(y.th[t].ci) /\ Upper(y, j) <= Len(y.th[t].ci)
    <3>1. CASE t = l
      <4>1. h <= p
        BY <3>1, <1>c
      <4>2. Upper(y, j) <= p
        <5>1. CASE j = m
          BY <5>1, <3>1, <1>y, <1>q, <1>p DEF Upper
        <5>2. CASE j # m
          <6>1. j # n /\ j + 1 \in 1..m /\ j + 1 \in j..n
            BY <5>2, <1>m
          <6>2. x.cs[j + 1].l = l /\ x.cs[j + 1].f # "lua_resume" /\ j + 1 \in 1..n
            BY <6>1, <3>1, <1>s, <1>m
          <6>3. x.cs[j + 1].ci \in Nat /\ x.cs[j + 1].ci <= p
            BY <6>1, <6>2, <1>c, FrameLevel
          <6>4. Upper(y, j) = IF x.cs[j + 1].f = "luaD_call" THEN x.cs[j + 1].ci
                              ELSE x.cs[j + 1].ci - 1
            BY <6>1, <5>2, <1>y, Zenon DEF Upper
          <6> QED BY <6>3, <6>4, <1>p
        <5> QED BY <5>1, <5>2
      <4> QED BY <3>1, <4>1, <4>2, <1>q
    <3>2. CASE t # l
      <4>1. y.th[t] = x.th[t] /\ Len(x.th[t].ci) \in Nat
        BY <3>2, <2>1, <1>o, <1>n
      <4> QED BY <4>1, <2>1, <2>2, <2>3
    <3> QED BY <3>1, <3>2
  <2> DEFINE c == x.th[t].ci
             d == y.th[t].ci
             u == Upper(x, j)
             v == Upper(y, j)
             q == Len(y.th[t].ci)
  <2>6. q \in Nat /\ \A i \in 1..q : d[i] = c[i]
    <3>1. CASE t = l
      BY <3>1, <1>q, <1>p, Zenon
    <3>2. CASE t # l
      BY <3>2, <2>1, <1>o, <1>n, Zenon
    <3> QED BY <3>1, <3>2, Zenon
  <2> HIDE DEF c, d, u, v, q, t, h
  <2>7. /\ d[h] = c[h] /\ \A k \in (h + 1)..v : d[k] = c[k] /\ k \in (h + 1)..u
    BY <2>1, <2>2, <2>3, <2>5, <2>6 DEF u, v, q
  <2>8. /\ d[h].fresh /\ isLua(d[h])
        /\ \A k \in (h + 1)..v : isLua(d[k]) /\ ~d[k].fresh
    BY <2>4, <2>7 DEF c, u
  <2> QED BY <2>8, Zenon DEF d, v, t, h
<1>10. Statuses(y)
  <2> SUFFICES ASSUME NEW t \in Threads
               PROVE  /\ InChain(y, t) => y.th[t].status = "OK"
                      /\ (InChain(y, t) /\ m >= 1 /\ x.cs[m].l # t) => Len(y.th[t].ci) >= 2
                      /\ (~InChain(y, t) /\ y.th[t].status = "OK") =>
                            Len(y.th[t].ci) = 1 /\ Len(y.th[t].stack) >= 1
    BY <1>y, <1>m DEF Statuses
  <2>1. CASE t = l
    <3>1. ASSUME InChain(y, l), m >= 1, x.cs[m].l # l PROVE FALSE
      <4>1. \E i \in 1..m : x.cs[i].l = l
        <5>1. CASE l = Main
          BY <5>1, <3>1, <1>m, <1>x DEF Inv, Bottom
        <5>2. CASE l # Main
          BY <5>2, <3>1, <1>y DEF InChain
        <5> QED BY <5>1, <5>2
      <4>2. PICK i \in 1..m : x.cs[i].l = l
        BY <4>1
      <4>3. m \in i..n
        BY <1>m
      <4> QED BY <4>2, <4>3, <3>1, <1>s
    <3> QED BY <3>1, <2>1, <1>q DEF Cuts
  <2>2. CASE t # l
    BY <2>2, <1>i, <1>o, <1>g, <1>x DEF Inv, Statuses
  <2> QED BY <2>1, <2>2
<1> QED
  BY <1>1, <1>2, <1>3, <1>4, <1>5, <1>6, <1>7, <1>8, <1>9, <1>10 DEF Inv

(* The calls among the first frames of the C stack are finitely many.      *)
LEMMA UncrossedCount ==
    ASSUME NEW x, NEW t, NEW n \in Nat
    PROVE  IsFiniteSet(Uncrossed(x, t, n)) /\ Cardinality(Uncrossed(x, t, n)) \in Nat
<1>1. IsFiniteSet(1..n)
  BY FS_Interval
<1>2. Uncrossed(x, t, n) \subseteq 1..n
  BY DEF Uncrossed
<1>3. IsFiniteSet(Uncrossed(x, t, n))
  BY <1>1, <1>2, FS_Subset
<1> QED BY <1>3, FS_CardinalityType

(* A frame r of the thread l is pushed, for its last call info, which may  *)
(* be new.                                                                 *)
Pushes(x, y, l, r) ==
    LET n == Len(x.cs)
        p == Len(x.th[l].ci)
        q == Len(y.th[l].ci)
        a == x.cs[n]
    IN  /\ Beside(x, y, l) /\ n >= 1 /\ a.l = l
        /\ IsSeq(y.cs) /\ Len(y.cs) = n + 1 /\ (\A i \in 1..n : y.cs[i] = x.cs[i])
        /\ y.cs[n + 1] = r
        /\ FrameOK(r) /\ r.l = l /\ r.f # "lua_resume" /\ Follows(y, a, r)
        /\ r.ci = q /\ q \in {p, p + 1} /\ (\A i \in 1..p : y.th[l].ci[i] = x.th[l].ci[i])
        /\ r.f \in {"luaV_execute", "C"} => (q = p + 1 \/ a.f = "lua_resume")
        /\ r.f \notin {"luaV_execute", "C"} => q = p
        /\ r.f = "luaV_execute" => y.th[l].ci[q].fresh /\ isLua(y.th[l].ci[q])
        /\ y.th[l].status = x.th[l].status
        /\ y.th[l].nny = x.th[l].nny + (IF r.f = "luaD_call" /\ r.noyield THEN 1 ELSE 0)
        /\ r.f = "luaD_pcall" => r.nny = x.th[l].nny
        /\ (a.f = "C" /\ r.f = "luaD_call" /\ ~r.noyield) => Fine(x.th[l].ci[p])

(* Such a push keeps the invariant.                                        *)
LEMMA PushesInv ==
    ASSUME NEW x, NEW y, NEW l, NEW r, Inv(x), Pushes(x, y, l, r)
    PROVE  Inv(y)
<1> DEFINE n == Len(x.cs)
           p == Len(x.th[l].ci)
           q == Len(y.th[l].ci)
<1>l. l \in Threads /\ Beside(x, y, l)
  BY DEF Pushes, Beside
<1>x. MachineOK(x) /\ n \in Nat /\ n >= 1 /\ n \in 1..n /\ n + 1 \in 1..(n + 1)
      /\ (\A i \in 1..n : i \in 1..(n + 1)) /\ (\A i \in 1..(n + 1) : i \in 1..n \/ i = n + 1)
  BY FrameTypes DEF Inv, Pushes
<1>n. \A t \in Threads : Len(x.th[t].ci) \in Nat /\ Len(x.th[t].ci) >= 1
  BY <1>x, ThreadCalls, Zenon
<1>p. /\ p \in Nat /\ q \in {p, p + 1} /\ q \in Nat /\ p <= q /\ p >= 1
      /\ \A i \in 1..p : y.th[l].ci[i] = x.th[l].ci[i]
  <2>1. q \in {p, p + 1} /\ \A i \in 1..p : y.th[l].ci[i] = x.th[l].ci[i]
    BY DEF Pushes
  <2>2. l \in Threads
    BY <1>l, Zenon
  <2>3. p \in Nat /\ p >= 1
    BY <2>2, <1>n
  <2> QED BY <2>1, <2>3
<1>y. IsSeq(y.cs) /\ Len(y.cs) = n + 1 /\ (\A i \in 1..n : y.cs[i] = x.cs[i]) /\ y.cs[n + 1] = r
  BY Zenon DEF Pushes
<1>r. FrameOK(r) /\ r.l = l /\ r.f # "lua_resume" /\ r.ci = q /\ Follows(y, x.cs[n], r)
  BY Zenon DEF Pushes
<1>o. \A t \in Threads : t # l => y.th[t] = x.th[t]
  BY <1>l DEF Beside
<1>f. \A i \in 1..n : FrameOK(x.cs[i]) /\ x.cs[i].l \in Threads
  BY <1>x, FrameTypes, Zenon
<1>g. x.cs[n].l = l
  BY Zenon DEF Pushes
<1>e. y.th[l].status = x.th[l].status
  BY DEF Pushes
<1>s. ASSUME NEW i \in 1..n, x.cs[i].l = l
      PROVE  \A k \in i..n : x.cs[k].l = l /\ (k > i => x.cs[k].f # "lua_resume")
  BY <1>s, <1>x, <1>g, SameOwner
<1>c. InChain(x, l)
  BY <1>x, <1>g, OutOfChain
<1>i. \A t \in Threads : InChain(y, t) <=> InChain(x, t)
  BY <1>x, <1>y, <1>r DEF InChain
<1>1. MachineOK(y)
  <2>1. \A i \in 1..(n + 1) : FrameOK(y.cs[i])
    BY <1>f, <1>x, <1>y, <1>r, Zenon
  <2> QED BY <2>1, <1>y, <1>l, <1>x, BesideThreads, Zenon DEF MachineOK, Beside
<1>2. Bottom(y)
  BY <1>x, <1>y DEF Inv, Bottom
<1>3. Adjacent(y)
  <2> SUFFICES ASSUME NEW i \in 1..n PROVE Follows(y, y.cs[i], y.cs[i + 1])
    BY <1>x, <1>y DEF Adjacent
  <2>1. CASE i = n
    BY <2>1, <1>x, <1>y, <1>r
  <2>2. CASE i # n
    <3>1. i + 1 \in 1..n /\ i + 1 \in i..n /\ i + 1 > i
      BY <2>2, <1>x
    <3> DEFINE a == x.cs[i]
               b == x.cs[i + 1]
    <3>2. Follows(x, a, b)
      BY <2>2, NextFrame
    <3>3. a.l \in Threads /\ (a.f # "lua_resume" => a.ci \in 1..Len(x.th[a.l].ci))
      BY <1>f, FrameLevel
    <3>4. a.l = l => b.f # "lua_resume"
      BY <3>1, <1>s
    <3>5. y.cs[i] = a /\ y.cs[i + 1] = b
      BY <3>1, <1>y
    <3> HIDE DEF a, b
    <3>6. a.l # l => y.th[a.l] = x.th[a.l]
      BY <3>3, <1>o
    <3>7. (a.f = "C" /\ b.f # "lua_resume") => y.th[a.l].ci[a.ci].fn = x.th[a.l].ci[a.ci].fn
      BY <3>3, <3>6, <1>p
    <3>8. b.f = "lua_resume" => Len(y.th[a.l].ci) = Len(x.th[a.l].ci)
      BY <3>4, <3>6
    <3>9. Follows(y, a, b)
      BY <3>2, <3>7, <3>8, Zenon DEF Follows
    <3> QED BY <3>5, <3>9
  <2> QED BY <2>1, <2>2
<1>4. Top(y)
  BY <1>y, <1>r DEF Top
<1>5. Levels(y)
  <2>1. ASSUME NEW i \in 1..(n + 1), y.cs[i].f # "lua_resume"
        PROVE  y.cs[i].ci <= Len(y.th[y.cs[i].l].ci)
    <3>1. CASE i = n + 1
      BY <3>1, <1>y, <1>r, <1>p
    <3>2. CASE i \in 1..n
      <4>1. y.cs[i] = x.cs[i]
        BY <3>2, <1>y, Zenon
      <4>2. /\ x.cs[i].l \in Threads /\ x.cs[i].ci \in Nat
            /\ x.cs[i].ci <= Len(x.th[x.cs[i].l].ci)
        BY <4>1, <2>1, <3>2, FrameLevel, Zenon
      <4>3. CASE x.cs[i].l = l
        <5>1. x.cs[i].ci <= p
          BY <4>2, <4>3, Zenon
        <5>2. x.cs[i].ci <= q
          <6> HIDE DEF p, q
          <6> QED BY <4>2, <5>1, <1>p
        <5> QED BY <4>1, <4>3, <5>2, Zenon
      <4>4. CASE x.cs[i].l # l
        BY <4>1, <4>2, <4>4, <1>o
      <4> QED BY <4>3, <4>4
    <3> QED BY <3>1, <3>2, <1>x, Zenon
  <2>2. ASSUME NEW j \in 1..(n + 1), NEW i \in 1..(j - 1),
               y.cs[i].l = y.cs[j].l, y.cs[i].f # "lua_resume"
        PROVE  /\ y.cs[i].ci <= y.cs[j].ci
               /\ y.cs[j].f \in {"luaV_execute", "C"} => y.cs[i].ci < y.cs[j].ci
    <3>1. i \in 1..n /\ y.cs[i] = x.cs[i]
      BY <1>x, <1>y
    <3>2. CASE j \in 1..n
      BY <3>1, <3>2, <2>2, <1>y DEF Inv, Levels
    <3>3. CASE j = n + 1
      <4>1. x.cs[i].l = l /\ x.cs[i].f # "lua_resume"
        BY <3>1, <3>3, <2>2, <1>y, <1>r
      <4>2. x.cs[i].ci \in Nat /\ x.cs[i].ci <= p
        BY <4>1, <3>1, FrameLevel, Zenon
      <4>3. x.cs[n].f # "lua_resume"
        BY <4>1, <3>1, <1>s, <1>x
      <4>4. r.f \in {"luaV_execute", "C"} => q = p + 1
        BY <4>3 DEF Pushes
      <4>5. y.cs[i].ci = x.cs[i].ci /\ y.cs[j] = r /\ r.ci = q
        BY <3>1, <3>3, <1>r, <1>y
      <4> HIDE DEF n, p, q
      <4>6. x.cs[i].ci <= q /\ (r.f \in {"luaV_execute", "C"} => x.cs[i].ci < q)
        BY <4>2, <4>4, <1>p
      <4> QED BY <4>5, <4>6
    <3> QED BY <3>2, <3>3, <1>x, Zenon
  <2> QED BY <2>1, <2>2, <1>y DEF Levels
<1>6. Owners(y)
  <2>1. ASSUME NEW i \in 1..(n + 1), y.cs[i].l # Main
        PROVE  \E j \in 1..i : y.cs[j].f = "lua_resume" /\ y.cs[j].l = y.cs[i].l
    <3> DEFINE h == IF i = n + 1 THEN n ELSE i
    <3>1. h \in 1..n /\ y.cs[i].l = x.cs[h].l /\ \A j \in 1..h : j \in 1..i /\ j \in 1..n
      BY <1>x, <1>y, <1>r, <1>g
    <3>2. \E j \in 1..h : x.cs[j].f = "lua_resume" /\ x.cs[j].l = x.cs[h].l
      BY <3>1, <2>1 DEF Inv, Owners
    <3> HIDE DEF h
    <3> QED BY <3>1, <3>2, <1>y, Zenon
  <2>2. ASSUME NEW j \in 1..(n + 1), NEW i \in 1..(j - 1), y.cs[j].f = "lua_resume"
        PROVE  y.cs[i].l # y.cs[j].l
    <3>1. j \in 1..n /\ i \in 1..n
      BY <2>2, <1>x, <1>y, <1>r
    <3>2. y.cs[j] = x.cs[j] /\ y.cs[i] = x.cs[i]
      BY <3>1, <1>y, Zenon
    <3>3. Owners(x)
      BY Zenon DEF Inv
    <3>4. x.cs[j].f = "lua_resume" => x.cs[i].l # x.cs[j].l
      BY <3>1, <3>3, SMT DEF Owners
    <3> QED BY <3>2, <3>4, <2>2, Zenon
  <2>3. ASSUME NEW j \in 1..(n + 1), NEW i \in 1..(j - 1), y.cs[i].l = y.cs[j].l
        PROVE  \A m \in i..j : y.cs[m].l = y.cs[i].l
    <3>1. i \in 1..n
      BY <1>x
    <3>2. CASE j = n + 1
      <4>1. x.cs[i].l = l
        BY <3>1, <3>2, <2>3, <1>y, <1>r, Zenon
      <4>2. \A m \in i..n : m \in 1..n /\ x.cs[m].l = l
        BY <4>1, <3>1, <1>s
      <4>3. \A m \in i..j : m \in i..n \/ m = n + 1
        BY <3>1, <3>2, <1>x
      <4> QED BY <4>1, <4>2, <4>3, <3>1, <1>y, <1>r
    <3>3. CASE j \in 1..n
      <4>1. \A m \in i..j : m \in 1..n
        BY <3>1, <3>3
      <4>2. x.cs[i].l = x.cs[j].l
        BY <3>1, <3>3, <2>3, <1>y, Zenon
      <4>3. \A m \in i..j : x.cs[m].l = x.cs[i].l
        BY <3>3, <4>2, Zenon DEF Inv, Owners
      <4> QED BY <4>1, <4>3, <3>1, <1>y
    <3> QED BY <3>2, <3>3, <1>x
  <2> QED BY <2>1, <2>2, <2>3, <1>y DEF Owners
<1>7. Counts(y)
  <2>1. \A t : \A i \in 1..n : Uncrossed(y, t, i) = Uncrossed(x, t, i)
    <3> SUFFICES ASSUME NEW t, NEW i \in 1..n PROVE Uncrossed(y, t, i) = Uncrossed(x, t, i)
      OBVIOUS
    <3>1. \A k \in 1..i : k \in 1..n
      BY <1>x
    <3> QED BY <3>1, <1>y DEF Uncrossed
  <2>2. \A t : ~(t = l /\ r.f = "luaD_call" /\ r.noyield) =>
               Uncrossed(y, t, n + 1) = Uncrossed(x, t, n)
    BY <2>1, <1>x, <1>y, <1>r DEF Uncrossed
  <2>3. r.f = "luaD_call" /\ r.noyield =>
            Cardinality(Uncrossed(y, l, n + 1)) = Cardinality(Uncrossed(x, l, n)) + 1
    <3> SUFFICES ASSUME r.f = "luaD_call", r.noyield
                 PROVE  Cardinality(Uncrossed(y, l, n + 1)) = Cardinality(Uncrossed(x, l, n)) + 1
      BY Zenon
    <3>1. Uncrossed(y, l, n + 1) = Uncrossed(x, l, n) \cup {n + 1}
      BY <2>1, <1>x, <1>y, <1>r DEF Uncrossed
    <3>2. n + 1 \notin Uncrossed(x, l, n)
      BY <1>x DEF Uncrossed
    <3>3. IsFiniteSet(Uncrossed(x, l, n))
      BY <1>x, UncrossedCount
    <3> QED BY <3>1, <3>2, <3>3, FS_AddElement
  <2>4. \A t \in Threads : x.th[t].nny = Cardinality(Uncrossed(x, t, n))
                              + (IF t = Main \/ ~InChain(x, t) THEN 1 ELSE 0)
    BY <1>x DEF Inv, Counts
  <2>5. ASSUME NEW t \in Threads
        PROVE  y.th[t].nny = Cardinality(Uncrossed(y, t, n + 1))
                             + (IF t = Main \/ ~InChain(y, t) THEN 1 ELSE 0)
    <3>1. CASE t # l
      BY <3>1, <2>2, <2>4, <1>i, <1>o
    <3>2. CASE t = l /\ r.f = "luaD_call" /\ r.noyield
      <4>1. y.th[l].nny = x.th[l].nny + 1
        BY <3>2 DEF Pushes
      <4>2. Cardinality(Uncrossed(x, l, n)) \in Nat
        BY <1>x, UncrossedCount
      <4>3. x.th[l].nny = Cardinality(Uncrossed(x, l, n))
                              + (IF l = Main \/ ~InChain(x, l) THEN 1 ELSE 0)
        BY <2>4, <1>l
      <4> QED BY <3>2, <4>1, <4>2, <4>3, <2>3, <1>i, <1>l
    <3>3. CASE t = l /\ ~(r.f = "luaD_call" /\ r.noyield)
      <4>1. y.th[l].nny = x.th[l].nny + 0
        BY <3>3 DEF Pushes
      <4>2. y.th[l].nny = x.th[l].nny
        BY <4>1, <1>l, <1>x, ThreadCalls
      <4> QED BY <3>3, <4>2, <2>2, <2>4, <1>i, <1>l
    <3> QED BY <3>1, <3>2, <3>3
  <2>6. ASSUME NEW i \in 1..(n + 1), y.cs[i].f = "luaD_pcall"
        PROVE  y.cs[i].nny = Cardinality(Uncrossed(y, y.cs[i].l, i))
                            + (IF y.cs[i].l = Main THEN 1 ELSE 0)
    <3>1. CASE i = n + 1
      <4>1. r.f = "luaD_pcall" /\ y.cs[i] = r
        BY <3>1, <2>6, <1>y
      <4>2. r.nny = x.th[l].nny
        BY <4>1 DEF Pushes
      <4>3. Uncrossed(y, l, i) = Uncrossed(x, l, n)
        BY <4>1, <3>1, <2>2
      <4>4. x.th[l].nny = Cardinality(Uncrossed(x, l, n))
                              + (IF l = Main \/ ~InChain(x, l) THEN 1 ELSE 0)
        BY <2>4, <1>l
      <4> QED BY <4>1, <4>2, <4>3, <4>4, <1>r, <1>c
    <3>2. CASE i \in 1..n
      BY <3>2, <2>6, <2>1, <1>x, <1>y DEF Inv, Counts
    <3> QED BY <3>1, <3>2, <1>x
  <2> QED BY <2>5, <2>6, <1>y DEF Counts
<1>8. Stuck(y)
  <2> SUFFICES ASSUME NEW t \in Threads, InChain(y, t), NEW i \in 2..Len(y.th[t].ci)
               PROVE  Fine(y.th[t].ci[i]) \/ Framed(y, t, i)
    BY DEF Stuck
  <2>1. ASSUME i \in 2..Len(x.th[t].ci) PROVE Fine(x.th[t].ci[i]) \/ Framed(y, t, i)
    <3>1. Fine(x.th[t].ci[i]) \/ Framed(x, t, i)
      BY <2>1, <1>i DEF Inv, Stuck
    <3>2. ASSUME Framed(x, t, i), ~Fine(x.th[t].ci[i]) PROVE Framed(y, t, i)
      <4>1. PICK j \in 1..n :
                /\ x.cs[j].f = "C" /\ x.cs[j].l = t /\ x.cs[j].ci = i
                /\ j < n => \/ x.cs[j + 1].f = "luaD_call" /\ x.cs[j + 1].noyield
                            \/ x.cs[j + 1].f \in {"luaD_pcall", "lua_resume"}
        BY <3>2 DEF Framed
      <4>2. CASE j # n
        <5>1. j < n /\ j + 1 \in 1..n
          BY <4>2, <1>x
        <5> QED BY <4>1, <5>1, <1>x, <1>y DEF Framed
      <4>3. CASE j = n
        <5>1. t = l /\ x.cs[n].f = "C" /\ i = p
          BY <4>1, <4>3, <1>g, <1>x DEF Inv, Top
        <5>2. r.f \in {"luaD_call", "luaD_pcall"}
          BY <5>1, <1>r, Zenon DEF Follows, FrameOK
        <5>3. r.f = "luaD_call" => r.noyield
          BY <5>1, <3>2 DEF Pushes
        <5> QED BY <4>1, <4>3, <5>2, <5>3, <1>x, <1>y DEF Framed
      <4> QED BY <4>2, <4>3, Zenon
    <3> QED BY <3>1, <3>2
  <2>2. CASE t # l
    BY <2>1, <2>2, <1>o, Zenon
  <2>3. CASE t = l /\ i \in 2..p
    <3>1. i \in 1..p
      BY <2>3, <1>p
    <3> QED BY <2>1, <2>3, <3>1, <1>p
  <2>4. CASE t = l /\ i \notin 2..p
    <3>1. i = q /\ q = p + 1
      <4>1. i \in 2..q /\ i \notin 2..p
        BY <2>4
      <4> HIDE DEF p, q
      <4> QED BY <4>1, <1>p
    <3>2. r.f \in {"luaV_execute", "C"}
      BY <3>1, <1>p DEF Pushes
    <3>3. CASE r.f = "luaV_execute"
      BY <3>1, <3>3, <2>4, Zenon DEF Pushes, Fine
    <3>4. CASE r.f = "C"
      <4>1. /\ n + 1 \in 1..Len(y.cs) /\ ~(n + 1 < Len(y.cs))
            /\ y.cs[n + 1].f = "C" /\ y.cs[n + 1].l = t /\ y.cs[n + 1].ci = i
        BY <3>1, <3>4, <2>4, <1>x, <1>y, <1>r
      <4> QED BY <4>1, Zenon DEF Framed
    <3> QED BY <3>2, <3>3, <3>4, Zenon
  <2> QED BY <2>2, <2>3, <2>4
<1>9. Executed(y)
  <2> SUFFICES ASSUME NEW j \in 1..(n + 1), y.cs[j].f = "luaV_execute"
               PROVE  LET c == y.th[y.cs[j].l].ci
                      IN  /\ c[y.cs[j].ci].fresh /\ isLua(c[y.cs[j].ci])
                          /\ \A k \in (y.cs[j].ci + 1)..Upper(y, j) : isLua(c[k]) /\ ~c[k].fresh
    BY <1>y, Zenon DEF Executed
  <2>1. CASE j = n + 1
    <3>1. y.cs[j] = r /\ Upper(y, j) = q
      BY <2>1, <1>y, <1>r DEF Upper
    <3>2. y.th[l].ci[q].fresh /\ isLua(y.th[l].ci[q])
      BY <3>1, <2>1, Zenon DEF Pushes
    <3>3. (q + 1)..q = {}
      BY <1>p
    <3> QED BY <3>1, <3>2, <3>3, <1>r, Zenon
  <2>2. CASE j \in 1..n
    <3> DEFINE t == x.cs[j].l
               h == x.cs[j].ci
    <3>1. y.cs[j] = x.cs[j] /\ t \in Threads /\ h \in Nat /\ h >= 1 /\ h <= Len(x.th[t].ci)
      BY <2>2, <1>y, FrameLevel, Zenon
    <3>2. Upper(x, j) \in Int /\ h <= Upper(x, j) /\ Upper(x, j) <= Len(x.th[t].ci)
      BY <3>1, <2>2, UpperLevel, Zenon
    <3>3. Upper(y, j) = Upper(x, j)
      <4>1. CASE j # n
        <5>1. j + 1 \in 1..n /\ j # n + 1
          BY <4>1, <2>2, <1>x
        <5> QED BY <4>1, <5>1, <3>1, <1>y DEF Upper
      <4>2. CASE j = n
        <5>1. n # n + 1
          BY <1>x
        <5>2. Upper(x, j) = p /\ t = l
          BY <4>2, <1>g DEF Upper
        <5>3. x.cs[n].f = "luaV_execute"
          BY <3>1, <4>2
        <5>4. (r.f = "luaD_call" /\ q = p) \/ (r.f = "C" /\ q = p + 1)
          <6>1. r.f \in {"luaD_call", "C"}
            BY <5>3, <1>r, Zenon DEF Follows, FrameOK
          <6>2. (r.f = "C" => q = p + 1) /\ (r.f = "luaD_call" => q = p)
            BY <5>3 DEF Pushes
          <6> QED BY <6>1, <6>2
        <5>5. Upper(y, j) = IF r.f = "luaD_call" THEN q ELSE q - 1
          BY <5>1, <4>2, <1>y, <1>r DEF Upper
        <5> HIDE DEF n, p, q
        <5>6. CASE r.f = "luaD_call" /\ q = p
          BY <5>2, <5>5, <5>6
        <5>7. CASE r.f = "C" /\ q = p + 1
          <6>1. q - 1 = p
            BY <5>7, <1>p
          <6> QED BY <5>2, <5>5, <5>7, <6>1
        <5> QED BY <5>4, <5>6, <5>7
      <4> QED BY <4>1, <4>2
    <3>4. /\ x.th[t].ci[h].fresh /\ isLua(x.th[t].ci[h])
          /\ \A k \in (h + 1)..Upper(x, j) : isLua(x.th[t].ci[k]) /\ ~x.th[t].ci[k].fresh
      BY <3>1, <2>2, Zenon DEF Inv, Executed
    <3>5. \A i \in 1..Len(x.th[t].ci) : y.th[t].ci[i] = x.th[t].ci[i]
      BY <3>1, <1>o, <1>p, Zenon
    <3> DEFINE c == x.th[t].ci
               d == y.th[t].ci
               u == Upper(x, j)
    <3>6. Len(c) \in Nat
      BY <3>1, <1>n
    <3> HIDE DEF c, d, u, t, h
    <3>7. d[h] = c[h] /\ \A k \in (h + 1)..u : d[k] = c[k]
      BY <3>1, <3>2, <3>5, <3>6 DEF c, d, u
    <3>8. /\ d[h].fresh /\ isLua(d[h])
          /\ \A k \in (h + 1)..u : isLua(d[k]) /\ ~d[k].fresh
      BY <3>4, <3>7 DEF c, u
    <3> QED BY <3>8, <3>1, <3>3, Zenon DEF d, u, t, h
  <2> QED BY <2>1, <2>2, <1>x, Zenon
<1>10. Statuses(y)
  <2> SUFFICES ASSUME NEW t \in Threads
               PROVE  /\ InChain(y, t) => y.th[t].status = "OK"
                      /\ (InChain(y, t) /\ l # t) => Len(y.th[t].ci) >= 2
                      /\ (~InChain(y, t) /\ y.th[t].status = "OK") =>
                            Len(y.th[t].ci) = 1 /\ Len(y.th[t].stack) >= 1
    BY <1>x, <1>y, <1>r DEF Statuses
  <2>1. CASE t = l
    BY <2>1, <1>c, <1>e, <1>i DEF Inv, Statuses
  <2>2. CASE t # l
    BY <2>2, <1>i, <1>o, <1>g, <1>x DEF Inv, Statuses
  <2> QED BY <2>1, <2>2, Zenon
<1> QED
  BY <1>1, <1>2, <1>3, <1>4, <1>5, <1>6, <1>7, <1>8, <1>9, <1>10, Zenon DEF Inv

(* A Lua function calls another: its luaV_execute runs both.               *)
CallsLua(x, y, l) ==
    LET n == Len(x.cs)
        p == Len(x.th[l].ci)
    IN  /\ Beside(x, y, l) /\ n >= 1 /\ y.cs = x.cs
        /\ x.cs[n].f = "luaV_execute" /\ x.cs[n].l = l
        /\ Len(y.th[l].ci) = p + 1 /\ (\A i \in 1..p : y.th[l].ci[i] = x.th[l].ci[i])
        /\ isLua(y.th[l].ci[p + 1]) /\ ~y.th[l].ci[p + 1].fresh
        /\ y.th[l].status = x.th[l].status /\ y.th[l].nny = x.th[l].nny

(* Such a call keeps the invariant.                                        *)
LEMMA CallsLuaInv ==
    ASSUME NEW x, NEW y, NEW l, Inv(x), CallsLua(x, y, l)
    PROVE  Inv(y)
<1> DEFINE n == Len(x.cs)
           p == Len(x.th[l].ci)
<1>l. l \in Threads /\ Beside(x, y, l) /\ y.cs = x.cs
  BY Zenon DEF CallsLua, Beside
<1>x. MachineOK(x) /\ n \in Nat /\ n >= 1 /\ n \in 1..n
  <2>1. MachineOK(x) /\ n >= 1
    BY Zenon DEF Inv, CallsLua
  <2> QED BY <2>1, FrameTypes
<1>n. \A t \in Threads : Len(x.th[t].ci) \in Nat /\ Len(x.th[t].ci) >= 1
  BY <1>x, ThreadCalls, Zenon
<1>p. /\ p \in Nat /\ p >= 1 /\ Len(y.th[l].ci) = p + 1
      /\ \A i \in 1..p : y.th[l].ci[i] = x.th[l].ci[i]
  BY <1>l, <1>n, Zenon DEF CallsLua
<1>a. x.cs[n].f = "luaV_execute" /\ x.cs[n].l = l
  BY Zenon DEF CallsLua
<1>v. isLua(y.th[l].ci[p + 1]) /\ ~y.th[l].ci[p + 1].fresh
  BY Zenon DEF CallsLua
<1>e. y.th[l].status = x.th[l].status /\ y.th[l].nny = x.th[l].nny
  BY Zenon DEF CallsLua
<1>o. \A t \in Threads : t # l => y.th[t] = x.th[t]
  BY <1>l DEF Beside
<1>f. \A i \in 1..n : FrameOK(x.cs[i]) /\ x.cs[i].l \in Threads
  BY <1>x, FrameTypes
<1>s. ASSUME NEW i \in 1..n, x.cs[i].l = l
      PROVE  \A k \in i..n : x.cs[k].l = l /\ (k > i => x.cs[k].f # "lua_resume")
  BY <1>s, <1>x, <1>a, SameOwner
<1>c. InChain(x, l)
  BY <1>x, <1>a, OutOfChain
<1>i. \A t \in Threads : InChain(y, t) <=> InChain(x, t)
  BY <1>l DEF InChain
<1>1. MachineOK(y)
  BY <1>l, <1>x, BesideThreads DEF MachineOK, Beside
<1>2. Bottom(y)
  BY <1>l DEF Inv, Bottom
<1>3. Adjacent(y)
  <2> SUFFICES ASSUME NEW i \in 1..(n - 1) PROVE Follows(y, x.cs[i], x.cs[i + 1])
    BY <1>l DEF Adjacent
  <2>1. i \in 1..n /\ i # n /\ i + 1 \in 1..n /\ i + 1 \in i..n /\ i + 1 > i
    BY <1>x
  <2> DEFINE a == x.cs[i]
             b == x.cs[i + 1]
  <2>2. Follows(x, a, b)
    BY <2>1, NextFrame
  <2>3. a.l \in Threads /\ (a.f # "lua_resume" => a.ci \in 1..Len(x.th[a.l].ci))
    BY <2>1, <1>f, FrameLevel
  <2>4. a.l = l => b.f # "lua_resume"
    BY <2>1, <1>s
  <2> HIDE DEF a, b
  <2>6. a.l # l => y.th[a.l] = x.th[a.l]
    BY <2>3, <1>o, Zenon
  <2>7. (a.f = "C" /\ b.f # "lua_resume") => y.th[a.l].ci[a.ci].fn = x.th[a.l].ci[a.ci].fn
    BY <2>3, <2>6, <1>p, Zenon
  <2>8. b.f = "lua_resume" => Len(y.th[a.l].ci) = Len(x.th[a.l].ci)
    BY <2>4, <2>6
  <2>9. Follows(y, a, b)
    BY <2>2, <2>7, <2>8 DEF Follows
  <2> QED BY <2>9 DEF a, b
<1>4. Top(y)
  BY <1>l, <1>a DEF Top
<1>5. Levels(y)
  <2>1. ASSUME NEW i \in 1..n, x.cs[i].f # "lua_resume"
        PROVE  x.cs[i].ci <= Len(y.th[x.cs[i].l].ci)
    <3>1. /\ x.cs[i].l \in Threads /\ x.cs[i].ci \in Nat
          /\ x.cs[i].ci <= Len(x.th[x.cs[i].l].ci)
      BY <2>1, FrameLevel
    <3>2. CASE x.cs[i].l = l
      BY <3>1, <3>2, <1>p
    <3>3. CASE x.cs[i].l # l
      BY <3>1, <3>3, <1>o
    <3> QED BY <3>2, <3>3
  <2> QED BY <2>1, <1>l, Zenon DEF Inv, Levels
<1>6. Owners(y)
  BY <1>l DEF Inv, Owners
<1>7. Counts(y)
  <2>1. \A t, m : Uncrossed(y, t, m) = Uncrossed(x, t, m)
    BY <1>l DEF Uncrossed
  <2>2. \A t \in Threads : y.th[t].nny = x.th[t].nny
    BY <1>e, <1>o
  <2> QED BY <1>l, <1>i, <2>1, <2>2 DEF Inv, Counts
<1>8. Stuck(y)
  <2> SUFFICES ASSUME NEW t \in Threads, InChain(y, t), NEW i \in 2..Len(y.th[t].ci)
               PROVE  Fine(y.th[t].ci[i]) \/ Framed(y, t, i)
    BY DEF Stuck
  <2>1. ASSUME i \in 2..Len(x.th[t].ci) PROVE Fine(x.th[t].ci[i]) \/ Framed(y, t, i)
    BY <2>1, <1>i, <1>l DEF Inv, Stuck, Framed
  <2>2. CASE t # l
    BY <2>1, <2>2, <1>o
  <2>3. CASE t = l /\ i \in 2..p
    <3>1. i \in 1..p
      BY <2>3, <1>p
    <3> QED BY <2>1, <2>3, <3>1, <1>p
  <2>4. CASE t = l /\ i \notin 2..p
    <3>1. i = p + 1
      BY <2>4, <1>p
    <3> QED BY <3>1, <2>4, <1>v, Zenon DEF Fine
  <2> QED BY <2>2, <2>3, <2>4
<1>9. Executed(y)
  <2> SUFFICES ASSUME NEW j \in 1..n, x.cs[j].f = "luaV_execute"
               PROVE  LET c == y.th[x.cs[j].l].ci
                      IN  /\ c[x.cs[j].ci].fresh /\ isLua(c[x.cs[j].ci])
                          /\ \A k \in (x.cs[j].ci + 1)..Upper(y, j) : isLua(c[k]) /\ ~c[k].fresh
    BY <1>l, Zenon DEF Executed
  <2> DEFINE t == x.cs[j].l
             h == x.cs[j].ci
  <2>1. t \in Threads /\ h \in Nat /\ h >= 1 /\ h <= Len(x.th[t].ci)
    BY FrameLevel
  <2>2. Upper(x, j) \in Int /\ h <= Upper(x, j) /\ Upper(x, j) <= Len(x.th[t].ci)
    BY UpperLevel
  <2>3. Upper(y, j) = IF j = n THEN p + 1 ELSE Upper(x, j)
    BY <1>l, <1>a, <1>p DEF Upper
  <2>4. /\ x.th[t].ci[h].fresh /\ isLua(x.th[t].ci[h])
        /\ \A k \in (h + 1)..Upper(x, j) : isLua(x.th[t].ci[k]) /\ ~x.th[t].ci[k].fresh
    BY Zenon DEF Inv, Executed
  <2>5. \A i \in 1..Len(x.th[t].ci) : y.th[t].ci[i] = x.th[t].ci[i]
    BY <2>1, <1>o, <1>p
  <2>6. j = n => t = l /\ Upper(x, j) = p
    BY <1>a DEF Upper
  <2>7. Len(x.th[t].ci) \in Nat
    BY <2>1, <1>n
  <2> DEFINE c == x.th[t].ci
             d == y.th[t].ci
             u == Upper(x, j)
             v == Upper(y, j)
  <2> HIDE DEF c, d, u, v, t, h
  <2>8. d[h] = c[h] /\ \A k \in (h + 1)..u : d[k] = c[k]
    BY <2>1, <2>2, <2>5, <2>7 DEF c, d, u
  <2>9. j = n => isLua(d[p + 1]) /\ ~d[p + 1].fresh
    BY <2>6, <1>v, Zenon DEF d
  <2>10. \A k \in (h + 1)..v : k \in (h + 1)..u \/ (j = n /\ k = p + 1)
    <3> HIDE DEF p, n
    <3> QED BY <2>1, <2>2, <2>3, <2>6, <1>p DEF u, v
  <2>11. /\ d[h].fresh /\ isLua(d[h])
         /\ \A k \in (h + 1)..v : isLua(d[k]) /\ ~d[k].fresh
    <3> HIDE DEF p, n
    <3> QED BY <2>4, <2>8, <2>9, <2>10 DEF c, u
  <2> QED BY <2>11, Zenon DEF d, v, t, h
<1>10. Statuses(y)
  <2> SUFFICES ASSUME NEW t \in Threads
               PROVE  /\ InChain(y, t) => y.th[t].status = "OK"
                      /\ (InChain(y, t) /\ l # t) => Len(y.th[t].ci) >= 2
                      /\ (~InChain(y, t) /\ y.th[t].status = "OK") =>
                            Len(y.th[t].ci) = 1 /\ Len(y.th[t].stack) >= 1
    BY <1>l, <1>x, <1>a DEF Statuses
  <2>1. CASE t = l
    BY <2>1, <1>c, <1>e, <1>i DEF Inv, Statuses
  <2>2. CASE t # l
    BY <2>2, <1>i, <1>o, <1>a, <1>x DEF Inv, Statuses
  <2> QED BY <2>1, <2>2
<1> QED
  BY <1>1, <1>2, <1>3, <1>4, <1>5, <1>6, <1>7, <1>8, <1>9, <1>10 DEF Inv

(* The C function on the top goes on in another place.                     *)
Raises(x, y) ==
    LET n == Len(x.cs)
    IN  /\ y = [th |-> y.th, cs |-> y.cs] /\ y.th = x.th /\ n >= 1 /\ x.cs[n].f = "C"
        /\ IsSeq(y.cs) /\ Len(y.cs) = n /\ (\A i \in 1..(n - 1) : y.cs[i] = x.cs[i])
        /\ FrameOK(y.cs[n]) /\ y.cs[n].f = "C"
        /\ y.cs[n].l = x.cs[n].l /\ y.cs[n].ci = x.cs[n].ci

(* A C function that goes to another of its states keeps the invariant.    *)
LEMMA RaisesInv ==
    ASSUME NEW x, NEW y, Inv(x), Raises(x, y)
    PROVE  Inv(y)
<1> DEFINE n == Len(x.cs)
<1>x. MachineOK(x) /\ n \in Nat /\ n >= 1 /\ n \in 1..n
  BY FrameTypes DEF Inv, Raises
<1>y. /\ y = [th |-> y.th, cs |-> y.cs] /\ y.th = x.th /\ x.cs[n].f = "C"
      /\ IsSeq(y.cs) /\ Len(y.cs) = n
  BY DEF Raises
<1>f. \A i \in 1..n : FrameOK(x.cs[i]) /\ x.cs[i].l \in Threads
  BY <1>x, FrameTypes
<1>s. ASSUME NEW i \in 1..n
      PROVE  /\ FrameOK(y.cs[i]) /\ y.cs[i].f = x.cs[i].f /\ y.cs[i].l = x.cs[i].l
             /\ y.cs[i].ci = x.cs[i].ci
             /\ y.cs[i].f # "C" => y.cs[i] = x.cs[i]
  <2>1. CASE i = n
    BY <2>1 DEF Raises
  <2>2. CASE i # n
    <3>1. i \in 1..(n - 1)
      BY <2>2, <1>x
    <3> QED BY <3>1, <1>f DEF Raises
  <2> QED BY <2>1, <2>2
<1>i. \A t \in Threads : InChain(y, t) <=> InChain(x, t)
  BY <1>y, <1>s DEF InChain
<1>1. MachineOK(y)
  BY <1>x, <1>y, <1>s DEF MachineOK
<1>2. Bottom(y)
  <2>1. 1 \in 1..n
    BY <1>x
  <2> QED BY <2>1, <1>y, <1>s, <1>x DEF Inv, Bottom
<1>3. Adjacent(y)
  <2> SUFFICES ASSUME NEW i \in 1..(n - 1) PROVE Follows(y, y.cs[i], y.cs[i + 1])
    BY <1>y DEF Adjacent
  <2>1. i \in 1..n /\ i # n /\ i + 1 \in 1..n
    BY <1>x
  <2> DEFINE a == x.cs[i]
             b == x.cs[i + 1]
             c == y.cs[i]
             d == y.cs[i + 1]
  <2>2. Follows(x, a, b)
    BY <2>1, NextFrame
  <2>3. c.f = a.f /\ c.l = a.l /\ c.ci = a.ci
    BY <2>1, <1>s
  <2>4. d.f = b.f /\ d.l = b.l /\ d.ci = b.ci /\ (d.f # "C" => d = b)
    BY <2>1, <1>s, Zenon
  <2> HIDE DEF a, b, c, d
  <2>5. Follows(y, c, d)
    BY <2>2, <2>3, <2>4, <1>y, Zenon DEF Follows
  <2> QED BY <2>5 DEF c, d
<1>4. Top(y)
  BY <1>x, <1>y, <1>s, Zenon DEF Inv, Top
<1>5. Levels(y)
  <2>1. \A j \in 1..n : \A i \in 1..(j - 1) : i \in 1..n
    BY <1>x
  <2> QED BY <2>1, <1>y, <1>s, Zenon DEF Inv, Levels
<1>6. Owners(y)
  <2>1. \A j \in 1..n : (\A i \in 1..(j - 1) : i \in 1..n) /\ (\A i \in 1..j : i \in 1..n)
    BY <1>x
  <2>2. \A j \in 1..n : \A i \in 1..(j - 1) : \A m \in i..j : m \in 1..n
    BY <1>x
  <2>3. ASSUME NEW i \in 1..n, y.cs[i].l # Main
        PROVE  \E j \in 1..i : y.cs[j].f = "lua_resume" /\ y.cs[j].l = y.cs[i].l
    BY <2>1, <2>3, <1>s DEF Inv, Owners
  <2>4. ASSUME NEW j \in 1..n, NEW i \in 1..(j - 1), y.cs[j].f = "lua_resume"
        PROVE  y.cs[i].l # y.cs[j].l
    BY <2>1, <2>4, <1>s DEF Inv, Owners
  <2>5. ASSUME NEW j \in 1..n, NEW i \in 1..(j - 1), y.cs[i].l = y.cs[j].l
        PROVE  \A m \in i..j : y.cs[m].l = y.cs[i].l
    <3>1. x.cs[i].l = x.cs[j].l
      BY <2>1, <2>5, <1>s
    <3>2. \A m \in i..j : x.cs[m].l = x.cs[i].l
      BY <3>1 DEF Inv, Owners
    <3> QED BY <2>1, <2>2, <3>2, <1>s
  <2> QED BY <2>3, <2>4, <2>5, <1>y DEF Owners
<1>7. Counts(y)
  <2>1. ASSUME NEW t, NEW m \in 1..n PROVE Uncrossed(y, t, m) = Uncrossed(x, t, m)
    <3>1. \A i \in 1..m : i \in 1..n
      BY <1>x
    <3>2. \A i \in 1..m :
              (y.cs[i].l = t /\ y.cs[i].f = "luaD_call" /\ y.cs[i].noyield) <=>
              (x.cs[i].l = t /\ x.cs[i].f = "luaD_call" /\ x.cs[i].noyield)
      BY <3>1, <1>s
    <3> QED BY <3>2 DEF Uncrossed
  <2>2. ASSUME NEW i \in 1..n, y.cs[i].f = "luaD_pcall"
        PROVE  y.cs[i].nny = Cardinality(Uncrossed(y, y.cs[i].l, i))
                            + (IF y.cs[i].l = Main THEN 1 ELSE 0)
    <3>1. y.cs[i] = x.cs[i]
      BY <2>2, <1>s
    <3> QED BY <3>1, <2>1, <2>2, <1>x DEF Inv, Counts
  <2>3. ASSUME NEW t \in Threads
        PROVE  y.th[t].nny = Cardinality(Uncrossed(y, t, n))
                             + (IF t = Main \/ ~InChain(y, t) THEN 1 ELSE 0)
    BY <2>1, <1>x, <1>y, <1>i DEF Inv, Counts
  <2> QED BY <2>2, <2>3, <1>y DEF Counts
<1>8. Stuck(y)
  <2>1. ASSUME NEW t, NEW i, Framed(x, t, i) PROVE Framed(y, t, i)
    <3>1. PICK j \in 1..n :
              /\ x.cs[j].f = "C" /\ x.cs[j].l = t /\ x.cs[j].ci = i
              /\ j < n => \/ x.cs[j + 1].f = "luaD_call" /\ x.cs[j + 1].noyield
                          \/ x.cs[j + 1].f \in {"luaD_pcall", "lua_resume"}
      BY <2>1 DEF Framed
    <3>2. j < n => j + 1 \in 1..n
      BY <1>x
    <3>3. y.cs[j].f = "C" /\ y.cs[j].l = t /\ y.cs[j].ci = i
      BY <3>1, <1>s
    <3>4. j < n => \/ y.cs[j + 1].f = "luaD_call" /\ y.cs[j + 1].noyield
                   \/ y.cs[j + 1].f \in {"luaD_pcall", "lua_resume"}
      BY <3>1, <3>2, <1>s
    <3> QED BY <3>3, <3>4, <1>y DEF Framed
  <2> QED BY <2>1, <1>y, <1>i DEF Inv, Stuck
<1>9. Executed(y)
  <2> SUFFICES ASSUME NEW j \in 1..n, y.cs[j].f = "luaV_execute"
               PROVE  LET c == y.th[y.cs[j].l].ci
                      IN  /\ c[y.cs[j].ci].fresh /\ isLua(c[y.cs[j].ci])
                          /\ \A k \in (y.cs[j].ci + 1)..Upper(y, j) : isLua(c[k]) /\ ~c[k].fresh
    BY <1>y, Zenon DEF Executed
  <2>1. y.cs[j] = x.cs[j]
    BY <1>s
  <2>2. Upper(y, j) = Upper(x, j)
    <3>1. CASE j = n
      BY <3>1, <2>1, <1>y DEF Upper
    <3>2. CASE j # n
      <4>1. j + 1 \in 1..n
        BY <3>2, <1>x
      <4> QED BY <4>1, <3>2, <1>y, <1>s DEF Upper
    <3> QED BY <3>1, <3>2
  <2> QED BY <2>1, <2>2, <1>y, Zenon DEF Inv, Executed
<1>10. Statuses(y)
  BY <1>x, <1>y, <1>s, <1>i DEF Inv, Statuses
<1> QED
  BY <1>1, <1>2, <1>3, <1>4, <1>5, <1>6, <1>7, <1>8, <1>9, <1>10 DEF Inv

(* A thread that is not in the chain becomes another.                      *)
Outside(x, y, l) ==
    /\ Beside(x, y, l) /\ y.cs = x.cs /\ ~InChain(x, l) /\ y.th[l].nny = 1
    /\ y.th[l].status = "OK" => Len(y.th[l].ci) = 1 /\ Len(y.th[l].stack) >= 1

(* A change of a thread outside of the chain keeps the invariant.          *)
LEMMA OutsideInv ==
    ASSUME NEW x, NEW y, NEW l, Inv(x), Outside(x, y, l)
    PROVE  Inv(y)
<1> DEFINE n == Len(x.cs)
<1>l. l \in Threads /\ Beside(x, y, l) /\ y.cs = x.cs /\ ~InChain(x, l)
  BY Zenon DEF Outside, Beside
<1>x. MachineOK(x) /\ n \in Nat
  BY FrameTypes DEF Inv
<1>o. \A t \in Threads : t # l => y.th[t] = x.th[t]
  BY <1>l DEF Beside
<1>f. \A i \in 1..n : FrameOK(x.cs[i]) /\ x.cs[i].l \in Threads /\ x.cs[i].l # l
  BY <1>x, <1>l, FrameTypes, OutOfChain
<1>t. \A i \in 1..n : y.th[x.cs[i].l] = x.th[x.cs[i].l]
  BY <1>f, <1>o
<1>i. \A t : InChain(y, t) <=> InChain(x, t)
  BY <1>l DEF InChain
<1>1. MachineOK(y)
  BY <1>l, <1>x, BesideThreads DEF MachineOK, Beside
<1>2. Bottom(y)
  BY <1>l DEF Inv, Bottom
<1>3. Adjacent(y)
  <2> SUFFICES ASSUME NEW i \in 1..(n - 1) PROVE Follows(y, x.cs[i], x.cs[i + 1])
    BY <1>l DEF Adjacent
  <2>1. i \in 1..n /\ i # n
    BY <1>x
  <2> DEFINE a == x.cs[i]
             b == x.cs[i + 1]
  <2>2. Follows(x, a, b)
    BY <2>1, NextFrame
  <2>3. y.th[a.l] = x.th[a.l]
    BY <2>1, <1>t, Zenon
  <2> HIDE DEF a, b
  <2>4. Follows(y, a, b)
    BY <2>2, <2>3, Zenon DEF Follows
  <2> QED BY <2>4 DEF a, b
<1>4. Top(y)
  BY <1>l, <1>t, <1>x DEF Inv, Top
<1>5. Levels(y)
  BY <1>l, <1>t DEF Inv, Levels
<1>6. Owners(y)
  BY <1>l DEF Inv, Owners
<1>7. Counts(y)
  <2>1. \A t, m : Uncrossed(y, t, m) = Uncrossed(x, t, m)
    BY <1>l DEF Uncrossed
  <2>2. ASSUME NEW t \in Threads, n >= 1
        PROVE  y.th[t].nny = Cardinality(Uncrossed(y, t, n))
                             + (IF t = Main \/ ~InChain(y, t) THEN 1 ELSE 0)
    <3>1. CASE t # l
      BY <3>1, <2>1, <2>2, <1>i, <1>o DEF Inv, Counts
    <3>2. CASE t = l
      <4>1. Uncrossed(x, l, n) = {}
        BY <1>f DEF Uncrossed
      <4>2. Cardinality(Uncrossed(y, l, n)) = 0
        BY <4>1, <2>1, FS_EmptySet
      <4> QED BY <3>2, <4>2, <1>l, <1>i DEF Outside
    <3> QED BY <3>1, <3>2
  <2> QED BY <2>1, <2>2, <1>l DEF Inv, Counts
<1>8. Stuck(y)
  <2>1. \A t, i : Framed(y, t, i) <=> Framed(x, t, i)
    BY <1>l DEF Framed
  <2> SUFFICES ASSUME NEW t \in Threads, InChain(y, t), NEW i \in 2..Len(y.th[t].ci)
               PROVE  Fine(y.th[t].ci[i]) \/ Framed(y, t, i)
    BY DEF Stuck
  <2>2. t # l /\ InChain(x, t) /\ y.th[t] = x.th[t]
    BY <1>l, <1>i, <1>o
  <2> QED BY <2>1, <2>2 DEF Inv, Stuck
<1>9. Executed(y)
  <2> SUFFICES ASSUME NEW j \in 1..n, x.cs[j].f = "luaV_execute"
               PROVE  LET c == y.th[x.cs[j].l].ci
                      IN  /\ c[x.cs[j].ci].fresh /\ isLua(c[x.cs[j].ci])
                          /\ \A k \in (x.cs[j].ci + 1)..Upper(y, j) : isLua(c[k]) /\ ~c[k].fresh
    BY <1>l, Zenon DEF Executed
  <2>1. Upper(y, j) = Upper(x, j)
    BY <1>l, <1>t DEF Upper
  <2> QED BY <2>1, <1>t, Zenon DEF Inv, Executed
<1>10. Statuses(y)
  <2> SUFFICES ASSUME NEW t \in Threads
               PROVE  /\ InChain(y, t) => y.th[t].status = "OK"
                      /\ (InChain(y, t) /\ n >= 1 /\ x.cs[n].l # t) => Len(y.th[t].ci) >= 2
                      /\ (~InChain(y, t) /\ y.th[t].status = "OK") =>
                            Len(y.th[t].ci) = 1 /\ Len(y.th[t].stack) >= 1
    BY <1>l DEF Statuses
  <2>1. CASE t = l
    BY <2>1, <1>l, <1>i DEF Outside
  <2>2. CASE t # l
    BY <2>2, <1>i, <1>o DEF Inv, Statuses
  <2> QED BY <2>1, <2>2
<1> QED
  BY <1>1, <1>2, <1>3, <1>4, <1>5, <1>6, <1>7, <1>8, <1>9, <1>10 DEF Inv

(* The C function on the top resumes the thread l.                         *)
GoesOn(x, y, l, r) ==
    LET n == Len(x.cs)
    IN  /\ Beside(x, y, l) /\ n >= 1 /\ x.cs[n].f = "C" /\ ~InChain(x, l)
        /\ IsSeq(y.cs) /\ Len(y.cs) = n + 1 /\ (\A i \in 1..n : y.cs[i] = x.cs[i])
        /\ y.cs[n + 1] = r
        /\ r.f = "lua_resume" /\ r.l = l /\ r.from = x.cs[n].l /\ r.oldnny = x.th[l].nny
        /\ y.th[l].status = "OK" /\ y.th[l].nny = 0
        /\ \A i \in 2..Len(y.th[l].ci) : Fine(y.th[l].ci[i])

(* A thread that is resumed joins the chain, and the invariant holds.      *)
LEMMA GoesOnInv ==
    ASSUME NEW x, NEW y, NEW l, NEW r, Inv(x), GoesOn(x, y, l, r)
    PROVE  Inv(y)
<1> DEFINE n == Len(x.cs)
<1>l. l \in Threads /\ Beside(x, y, l) /\ ~InChain(x, l) /\ l # Main
  BY DEF GoesOn, Beside, InChain
<1>x. MachineOK(x) /\ n \in Nat /\ n >= 1 /\ n \in 1..n /\ n + 1 \in 1..(n + 1)
      /\ (\A i \in 1..n : i \in 1..(n + 1)) /\ (\A i \in 1..(n + 1) : i \in 1..n \/ i = n + 1)
  BY FrameTypes DEF Inv, GoesOn
<1>y. IsSeq(y.cs) /\ Len(y.cs) = n + 1 /\ (\A i \in 1..n : y.cs[i] = x.cs[i]) /\ y.cs[n + 1] = r
  BY DEF GoesOn
<1>r. r.f = "lua_resume" /\ r.l = l /\ r.from = x.cs[n].l /\ r.oldnny = x.th[l].nny
  BY DEF GoesOn
<1>a. x.cs[n].f = "C"
  BY DEF GoesOn
<1>e. /\ y.th[l].status = "OK" /\ y.th[l].nny = 0
      /\ \A i \in 2..Len(y.th[l].ci) : Fine(y.th[l].ci[i])
  BY DEF GoesOn
<1>o. \A t \in Threads : t # l => y.th[t] = x.th[t]
  BY <1>l DEF Beside
<1>f. \A i \in 1..n : FrameOK(x.cs[i]) /\ x.cs[i].l \in Threads /\ x.cs[i].l # l
  BY <1>x, <1>l, FrameTypes, OutOfChain
<1>t. \A i \in 1..n : y.th[x.cs[i].l] = x.th[x.cs[i].l]
  BY <1>f, <1>o
<1>i. /\ InChain(y, l)
      /\ \A t : t # l => (InChain(y, t) <=> InChain(x, t))
  BY <1>x, <1>y, <1>r DEF InChain
<1>u. \A t : Uncrossed(x, t, n) = {i \in 1..n : x.cs[i].l = t /\ x.cs[i].f = "luaD_call" /\ x.cs[i].noyield}
  BY DEF Uncrossed
<1>v. Uncrossed(x, l, n) = {} /\ Cardinality(Uncrossed(x, l, n)) = 0
  BY <1>f, <1>u, FS_EmptySet, Zenon
<1>w. FrameOK(r)
  <2>1. x.th[l].nny = Cardinality(Uncrossed(x, l, n)) + 1
    BY <1>l, <1>x DEF Inv, Counts
  <2>2. x.th[l].nny = 1
    BY <2>1, <1>v
  <2>3. x.cs[n].l \in Threads
    BY <1>f, <1>x
  <2> QED BY <2>2, <2>3, <1>r, <1>l DEF FrameOK
<1>1. MachineOK(y)
  <2>1. \A i \in 1..(n + 1) : FrameOK(y.cs[i])
    BY <1>f, <1>x, <1>y, <1>w
  <2> QED BY <2>1, <1>y, <1>l, <1>x, BesideThreads DEF MachineOK, Beside
<1>2. Bottom(y)
  BY <1>x, <1>y DEF Inv, Bottom
<1>3. Adjacent(y)
  <2> SUFFICES ASSUME NEW i \in 1..n PROVE Follows(y, y.cs[i], y.cs[i + 1])
    BY <1>x, <1>y DEF Adjacent
  <2>1. CASE i = n
    <3> DEFINE a == x.cs[n]
    <3>1. a.f = "C" /\ Len(x.th[a.l].ci) = a.ci /\ y.th[a.l] = x.th[a.l]
      BY <1>a, <1>t, <1>x DEF Inv, Top
    <3>2. r.from = a.l
      BY <1>r, Zenon
    <3> HIDE DEF a
    <3>3. Follows(y, a, r)
      BY <3>1, <3>2, <1>r DEF Follows
    <3> QED BY <3>3, <2>1, <1>x, <1>y DEF a
  <2>2. CASE i # n
    <3>1. i + 1 \in 1..n
      BY <2>2, <1>x
    <3> DEFINE a == x.cs[i]
               b == x.cs[i + 1]
    <3>2. Follows(x, a, b)
      BY <2>2, NextFrame
    <3>3. y.th[a.l] = x.th[a.l]
      BY <1>t
    <3>4. y.cs[i] = a /\ y.cs[i + 1] = b
      BY <3>1, <1>y, Zenon
    <3> HIDE DEF a, b
    <3>5. Follows(y, a, b)
      BY <3>2, <3>3 DEF Follows
    <3> QED BY <3>4, <3>5
  <2> QED BY <2>1, <2>2
<1>4. Top(y)
  BY <1>y, <1>r DEF Top
<1>5. Levels(y)
  <2>1. ASSUME NEW i \in 1..(n + 1), y.cs[i].f # "lua_resume"
        PROVE  y.cs[i].ci <= Len(y.th[y.cs[i].l].ci)
    BY <2>1, <1>x, <1>y, <1>r, <1>t DEF Inv, Levels
  <2>2. ASSUME NEW j \in 1..(n + 1), NEW i \in 1..(j - 1),
               y.cs[i].l = y.cs[j].l, y.cs[i].f # "lua_resume"
        PROVE  /\ y.cs[i].ci <= y.cs[j].ci
               /\ y.cs[j].f \in {"luaV_execute", "C"} => y.cs[i].ci < y.cs[j].ci
    <3>1. i \in 1..n
      BY <1>x
    <3>2. j # n + 1
      BY <3>1, <2>2, <1>y, <1>r, <1>f
    <3>3. j \in 1..n
      BY <3>2, <1>x
    <3> QED BY <3>1, <3>3, <2>2, <1>y, Zenon DEF Inv, Levels
  <2> QED BY <2>1, <2>2, <1>y DEF Levels
<1>6. Owners(y)
  <2>1. ASSUME NEW i \in 1..(n + 1), y.cs[i].l # Main
        PROVE  \E j \in 1..i : y.cs[j].f = "lua_resume" /\ y.cs[j].l = y.cs[i].l
    <3>1. CASE i = n + 1
      BY <3>1, <1>x, <1>y, <1>r, Zenon
    <3>2. CASE i \in 1..n
      <4>1. \E j \in 1..i : x.cs[j].f = "lua_resume" /\ x.cs[j].l = x.cs[i].l
        BY <3>2, <2>1, <1>y DEF Inv, Owners
      <4>2. \A j \in 1..i : j \in 1..n
        BY <3>2, <1>x
      <4> QED BY <4>1, <4>2, <3>2, <1>y
    <3> QED BY <3>1, <3>2, <1>x
  <2>2. ASSUME NEW j \in 1..(n + 1), NEW i \in 1..(j - 1)
        PROVE  /\ y.cs[j].f = "lua_resume" => y.cs[i].l # y.cs[j].l
               /\ y.cs[i].l = y.cs[j].l => \A m \in i..j : y.cs[m].l = y.cs[i].l
    <3>1. i \in 1..n
      BY <1>x
    <3>2. CASE j = n + 1
      BY <3>1, <3>2, <1>y, <1>r, <1>f, Zenon
    <3>3. CASE j \in 1..n
      <4>1. \A m \in i..j : m \in 1..n
        BY <3>1, <3>3, <1>x
      <4>2. x.cs[i].l = x.cs[j].l => \A m \in i..j : x.cs[m].l = x.cs[i].l
        BY <3>3 DEF Inv, Owners
      <4>3. x.cs[j].f = "lua_resume" => x.cs[i].l # x.cs[j].l
        BY <3>3 DEF Inv, Owners
      <4> QED BY <3>1, <3>3, <4>1, <4>2, <4>3, <1>y
    <3> QED BY <3>2, <3>3, <1>x, Zenon
  <2> QED BY <2>1, <2>2, <1>y DEF Owners
<1>7. Counts(y)
  <2>1. ASSUME NEW t, NEW m \in 1..n PROVE Uncrossed(y, t, m) = Uncrossed(x, t, m)
    <3>1. \A i \in 1..m : i \in 1..n
      BY <1>x
    <3> QED BY <3>1, <1>y DEF Uncrossed
  <2>2. \A t : Uncrossed(y, t, n + 1) = Uncrossed(x, t, n)
    BY <2>1, <1>x, <1>y, <1>r DEF Uncrossed
  <2>3. ASSUME NEW t \in Threads
        PROVE  y.th[t].nny = Cardinality(Uncrossed(y, t, n + 1))
                             + (IF t = Main \/ ~InChain(y, t) THEN 1 ELSE 0)
    <3>1. CASE t # l
      BY <3>1, <2>2, <1>i, <1>o, <1>x DEF Inv, Counts
    <3>2. CASE t = l
      <4>1. Uncrossed(y, l, n + 1) = Uncrossed(x, l, n)
        BY <2>2
      <4>2. ~(l = Main \/ ~InChain(y, l))
        BY <1>i, <1>l
      <4>3. y.th[l].nny = Cardinality(Uncrossed(x, l, n)) + 0
        BY <1>v, <1>e
      <4> QED BY <3>2, <4>1, <4>2, <4>3
    <3> QED BY <3>1, <3>2
  <2>4. ASSUME NEW i \in 1..(n + 1), y.cs[i].f = "luaD_pcall"
        PROVE  y.cs[i].nny = Cardinality(Uncrossed(y, y.cs[i].l, i))
                            + (IF y.cs[i].l = Main THEN 1 ELSE 0)
    <3>1. i \in 1..n
      BY <2>4, <1>x, <1>y, <1>r
    <3> QED BY <3>1, <2>1, <2>4, <1>x, <1>y DEF Inv, Counts
  <2> QED BY <2>3, <2>4, <1>y DEF Counts
<1>8. Stuck(y)
  <2> SUFFICES ASSUME NEW t \in Threads, InChain(y, t), NEW i \in 2..Len(y.th[t].ci)
               PROVE  Fine(y.th[t].ci[i]) \/ Framed(y, t, i)
    BY DEF Stuck
  <2>1. CASE t = l
    BY <2>1, <1>e
  <2>2. CASE t # l
    <3>1. y.th[t] = x.th[t] /\ InChain(x, t)
      BY <2>2, <1>o, <1>i
    <3>2. Fine(x.th[t].ci[i]) \/ Framed(x, t, i)
      BY <3>1 DEF Inv, Stuck
    <3>3. ASSUME Framed(x, t, i) PROVE Framed(y, t, i)
      <4>1. PICK j \in 1..n :
                /\ x.cs[j].f = "C" /\ x.cs[j].l = t /\ x.cs[j].ci = i
                /\ j < n => \/ x.cs[j + 1].f = "luaD_call" /\ x.cs[j + 1].noyield
                            \/ x.cs[j + 1].f \in {"luaD_pcall", "lua_resume"}
        BY <3>3 DEF Framed
      <4>2. CASE j # n
        <5>1. j < n /\ j + 1 \in 1..n
          BY <4>2, <1>x
        <5> QED BY <4>1, <5>1, <1>x, <1>y DEF Framed
      <4>3. CASE j = n
        BY <4>1, <4>3, <1>x, <1>y, <1>r, Zenon DEF Framed
      <4> QED BY <4>2, <4>3
    <3> QED BY <3>1, <3>2, <3>3
  <2> QED BY <2>1, <2>2
<1>9. Executed(y)
  <2> SUFFICES ASSUME NEW j \in 1..(n + 1), y.cs[j].f = "luaV_execute"
               PROVE  LET c == y.th[y.cs[j].l].ci
                      IN  /\ c[y.cs[j].ci].fresh /\ isLua(c[y.cs[j].ci])
                          /\ \A k \in (y.cs[j].ci + 1)..Upper(y, j) : isLua(c[k]) /\ ~c[k].fresh
    BY <1>y, Zenon DEF Executed
  <2>1. j # n + 1
    BY <1>y, <1>r
  <2>2. j \in 1..n /\ y.cs[j] = x.cs[j]
    BY <2>1, <1>x, <1>y
  <2>3. j # n
    BY <2>2, <1>a
  <2>4. j + 1 \in 1..n /\ j # n + 1
    BY <2>2, <2>3, <1>x
  <2>5. Upper(y, j) = Upper(x, j)
    BY <2>2, <2>3, <2>4, <1>y DEF Upper
  <2> QED BY <2>2, <2>5, <1>t, Zenon DEF Inv, Executed
<1>10. Statuses(y)
  <2> SUFFICES ASSUME NEW t \in Threads
               PROVE  /\ InChain(y, t) => y.th[t].status = "OK"
                      /\ (InChain(y, t) /\ l # t) => Len(y.th[t].ci) >= 2
                      /\ (~InChain(y, t) /\ y.th[t].status = "OK") =>
                            Len(y.th[t].ci) = 1 /\ Len(y.th[t].stack) >= 1
    BY <1>x, <1>y, <1>r DEF Statuses
  <2>1. CASE t = l
    BY <2>1, <1>e, <1>i, Zenon
  <2>2. CASE t # l
    <3>1. CASE t = x.cs[n].l
      <4>1. Len(x.th[t].ci) = x.cs[n].ci /\ x.cs[n].ci >= 2
        BY <3>1, <1>a, <1>f, <1>x, Zenon DEF Inv, Top, FrameOK
      <4> QED BY <4>1, <2>2, <1>i, <1>o, Zenon DEF Inv, Statuses
    <3>2. CASE t # x.cs[n].l
      BY <2>2, <3>2, <1>i, <1>o, <1>x, Zenon DEF Inv, Statuses
    <3> QED BY <3>1, <3>2, Zenon
  <2> QED BY <2>1, <2>2
<1> QED
  BY <1>1, <1>2, <1>3, <1>4, <1>5, <1>6, <1>7, <1>8, <1>9, <1>10 DEF Inv

-----------------------------------------------------------------------------
(* What the functions of the model do to a thread.                         *)

Formed(t) ==
    /\ t = [status |-> t.status, nny |-> t.nny, nCcalls |-> t.nCcalls,
            errfunc |-> t.errfunc, ci |-> t.ci, stack |-> t.stack]
    /\ t.status \in {"none", "OK", "YIELD", "ERRRUN"} /\ t.nny \in Int
    /\ IsSeq(t.ci) /\ Len(t.ci) >= 1 /\ IsSeq(t.stack)

(* The machine as far as an operation on the thread l needs it.            *)
Shaped(x, l) ==
    /\ l \in Threads /\ x = [th |-> x.th, cs |-> x.cs]
    /\ x.th = [t \in Threads |-> x.th[t]] /\ Formed(x.th[l])

(* The thread l of x may be another in y, and the C stack.                 *)
Only(x, y, l) == Shaped(y, l) /\ \A t \in Threads : t # l => y.th[t] = x.th[t]

(* Its calls are the same, and the C stack.                                *)
Likewise(x, y, l) ==
    /\ Only(x, y, l) /\ y.cs = x.cs
    /\ y.th[l].status = x.th[l].status /\ y.th[l].nny = x.th[l].nny
    /\ y.th[l].ci = x.th[l].ci

(* Threads have the shape that the operations of the machine need.         *)
LEMMA MachineShaped ==
    ASSUME NEW x, MachineOK(x), NEW l \in Threads
    PROVE  Shaped(x, l)
BY DEF MachineOK, ThreadInv, ThreadOK, Shaped, Formed

(* What a thread of that shape is.                                         *)
LEMMA FormedFacts ==
    ASSUME NEW x, NEW l, Shaped(x, l)
    PROVE  /\ Len(x.th[l].ci) \in Nat /\ Len(x.th[l].stack) \in Nat /\ x.th[l].nny \in Int
           /\ Last(x.th[l].ci) = x.th[l].ci[Len(x.th[l].ci)] /\ ci(x, l) = Last(x.th[l].ci)
           /\ IsSeq(x.th[l].ci) /\ IsSeq(x.th[l].stack) /\ Len(x.th[l].ci) >= 1 /\ l \in Threads
BY FrontFacts DEF Shaped, Formed, IsSeq, ci

(* Two changes of one thread are a change of that thread.                  *)
LEMMA OnlyTransitive ==
    ASSUME NEW x, NEW y, NEW z, NEW l, Only(x, y, l), Only(y, z, l)
    PROVE  Only(x, z, l)
BY DEF Only

(* Two changes of the values on one stack are such a change.               *)
LEMMA LikewiseTransitive ==
    ASSUME NEW x, NEW y, NEW z, NEW l, Likewise(x, y, l), Likewise(y, z, l)
    PROVE  Likewise(x, z, l)
BY OnlyTransitive DEF Likewise

(* And so is none.                                                         *)
LEMMA LikewiseItself ==
    ASSUME NEW x, NEW l, Shaped(x, l)
    PROVE  Likewise(x, x, l)
BY DEF Likewise, Only

(* A thread set anew.                                                      *)
LEMMA NewThread ==
    ASSUME NEW x, NEW l, Shaped(x, l), NEW u, Formed(u)
    PROVE  /\ Only(x, [x EXCEPT !.th[l] = u], l)
           /\ [x EXCEPT !.th[l] = u].cs = x.cs /\ [x EXCEPT !.th[l] = u].th[l] = u
<1> DEFINE h == [x.th EXCEPT ![l] = u]
           y == [x EXCEPT !.th[l] = u]
<1>1. l \in Threads /\ x = [th |-> x.th, cs |-> x.cs] /\ x.th = [t \in Threads |-> x.th[t]]
  BY DEF Shaped
<1>2. h = [t \in Threads |-> IF t = l THEN u ELSE x.th[t]]
  BY <1>1
<1>3. y = [th |-> h, cs |-> x.cs]
  BY <1>1
<1> HIDE DEF h, y
<1>4. h = [t \in Threads |-> h[t]] /\ h[l] = u /\ \A t \in Threads : t # l => h[t] = x.th[t]
  BY <1>1, <1>2
<1>5. y.th = h /\ y.cs = x.cs
  BY <1>3
<1>6. Only(x, y, l) /\ y.cs = x.cs /\ y.th[l] = u
  BY <1>1, <1>3, <1>4, <1>5 DEF Only, Shaped
<1> QED BY <1>6 DEF y

SetThread(x, l, u) == [x EXCEPT !.th[l] = u]
SetsThread(x, y, l, u) == Only(x, y, l) /\ y.cs = x.cs /\ y.th[l] = u

LEMMA ThreadSet ==
    ASSUME NEW x, NEW l, Shaped(x, l), NEW u, Formed(u)
    PROVE  SetsThread(x, SetThread(x, l, u), l, u)
BY NewThread DEF SetThread, SetsThread

(* Another stack is a change of nothing but the values.                    *)
LEMMA SetStackFacts ==
    ASSUME NEW x, NEW l, Shaped(x, l), NEW s, IsSeq(s)
    PROVE  Likewise(x, SetStack(x, l, s), l) /\ SetStack(x, l, s).th[l].stack = s
<1> DEFINE u == [x.th[l] EXCEPT !.stack = s]
<1>1. /\ Formed(u) /\ u.status = x.th[l].status /\ u.nny = x.th[l].nny
      /\ u.ci = x.th[l].ci /\ u.stack = s
  BY DEF Shaped, Formed
<1>2. SetStack(x, l, s) = [x EXCEPT !.th[l] = u]
  BY DEF SetStack, Shaped
<1> HIDE DEF u
<1> QED BY <1>1, <1>2, NewThread DEF Likewise

(* Another error function is a change of nothing that the invariant tells. *)
LEMMA ErrfuncFacts ==
    ASSUME NEW x, NEW l, Shaped(x, l), NEW e
    PROVE  /\ Likewise(x, [x EXCEPT !.th[l].errfunc = e], l)
           /\ [x EXCEPT !.th[l].errfunc = e].th[l].stack = x.th[l].stack
<1> DEFINE u == [x.th[l] EXCEPT !.errfunc = e]
<1>1. /\ Formed(u) /\ u.status = x.th[l].status /\ u.nny = x.th[l].nny
      /\ u.ci = x.th[l].ci /\ u.stack = x.th[l].stack
  BY DEF Shaped, Formed
<1>2. [x EXCEPT !.th[l].errfunc = e] = [x EXCEPT !.th[l] = u]
  BY DEF Shaped
<1> HIDE DEF u
<1> QED BY <1>1, <1>2, NewThread DEF Likewise

(* Values pushed.                                                          *)
LEMMA PushFacts ==
    ASSUME NEW x, NEW l, Shaped(x, l), NEW s, IsSeq(s)
    PROVE  Likewise(x, Push(x, l, s), l) /\ Push(x, l, s).th[l].stack = x.th[l].stack \o s
<1> DEFINE e == x.th[l].stack \o s
<1>1. Push(x, l, s) = SetStack(x, l, e)
  BY DEF Push, SetStack, Shaped
<1>2. IsSeq(e)
  BY ConcatFacts DEF Shaped, Formed
<1> HIDE DEF e
<1>3. Likewise(x, SetStack(x, l, e), l) /\ SetStack(x, l, e).th[l].stack = e
  BY <1>2, SetStackFacts
<1> QED BY <1>1, <1>3, Zenon DEF e

(* Values popped.                                                          *)
LEMMA DropFacts ==
    ASSUME NEW x, NEW l, Shaped(x, l), NEW n \in Int
    PROVE  /\ Likewise(x, Drop(x, l, n), l)
           /\ Drop(x, l, n).th[l].stack = SubSeq(x.th[l].stack, 1, Len(x.th[l].stack) - n)
<1> DEFINE s == SubSeq(x.th[l].stack, 1, Len(x.th[l].stack) - n)
<1>1. Drop(x, l, n) = SetStack(x, l, s)
  BY DEF Drop, SetStack, Shaped
<1>2. IsSeq(s)
  <2>1. Len(x.th[l].stack) - n \in Int
    BY FormedFacts
  <2> QED BY <2>1, SubSeqFacts
<1> HIDE DEF s
<1>3. Likewise(x, SetStack(x, l, s), l) /\ SetStack(x, l, s).th[l].stack = s
  BY <1>2, SetStackFacts
<1> QED BY <1>1, <1>3, Zenon DEF s

(* The last values of a stack are a sequence.                              *)
LEMMA LastOfFacts ==
    ASSUME NEW s, IsSeq(s), NEW n \in Int
    PROVE  IsSeq(LastOf(s, n))
<1>1. Len(s) - n + 1 \in Int /\ Len(s) \in Int
  BY DEF IsSeq
<1> QED BY <1>1, SubSeqFacts DEF LastOf

(* The call infos set anew.                                                *)
SetCalls(x, l, c) == [x EXCEPT !.th[l].ci = c]

LEMMA CallsFacts ==
    ASSUME NEW x, NEW l, Shaped(x, l), NEW c, IsSeq(c), Len(c) >= 1
    PROVE  LET y == SetCalls(x, l, c)
           IN  /\ Only(x, y, l) /\ y.cs = x.cs /\ y.th[l].ci = c
               /\ y.th[l].status = x.th[l].status /\ y.th[l].nny = x.th[l].nny
               /\ y.th[l].stack = x.th[l].stack
<1> DEFINE u == [x.th[l] EXCEPT !.ci = c]
<1>1. /\ Formed(u) /\ u.status = x.th[l].status /\ u.nny = x.th[l].nny
      /\ u.ci = c /\ u.stack = x.th[l].stack
  BY DEF Shaped, Formed
<1> DEFINE y == [x EXCEPT !.th[l] = u]
<1>2. SetCalls(x, l, c) = y
  BY DEF Shaped, SetCalls
<1> HIDE DEF u
<1>3. Only(x, y, l) /\ y.cs = x.cs /\ y.th[l] = u
  BY <1>1, NewThread
<1> HIDE DEF y
<1> QED BY <1>1, <1>2, <1>3

(* Another last call info: the others, the values and the counts stay.     *)
LEMMA SetCiFacts ==
    ASSUME NEW x, NEW l, Shaped(x, l), NEW c
    PROVE  LET y == SetCi(x, l, c)
               p == Len(x.th[l].ci)
           IN  /\ Only(x, y, l) /\ y.cs = x.cs
               /\ y.th[l].status = x.th[l].status /\ y.th[l].nny = x.th[l].nny
               /\ y.th[l].stack = x.th[l].stack
               /\ Len(y.th[l].ci) = p /\ y.th[l].ci[p] = c
               /\ \A i \in 1..(p - 1) : y.th[l].ci[i] = x.th[l].ci[i]
<1> DEFINE q == x.th[l].ci
           s == Append(Front(q), c)
<1>1. IsSeq(q) /\ Len(q) >= 1
  BY DEF Shaped, Formed
<1>2. SetCi(x, l, c) = SetCalls(x, l, s)
  BY Zenon DEF SetCi, SetCalls, Shaped
<1> HIDE DEF q
<1>3. /\ IsSeq(s) /\ Len(s) = Len(q) /\ s[Len(q)] = c
      /\ \A i \in 1..(Len(q) - 1) : s[i] = q[i]
  BY <1>1, ReplaceFacts
<1> HIDE DEF s
<1> DEFINE y == SetCi(x, l, c)
<1>4. /\ Only(x, y, l) /\ y.cs = x.cs /\ y.th[l].ci = s
      /\ y.th[l].status = x.th[l].status /\ y.th[l].nny = x.th[l].nny
      /\ y.th[l].stack = x.th[l].stack
  <2>1. IsSeq(s) /\ Len(s) >= 1
    BY <1>1, <1>3
  <2> QED BY <2>1, <1>2, CallsFacts
<1> HIDE DEF y
<1> QED BY <1>3, <1>4 DEF y, q

(* The frames set anew.                                                    *)
LEMMA FramesFacts ==
    ASSUME NEW x, NEW l, Shaped(x, l), NEW c
    PROVE  /\ Only(x, [x EXCEPT !.cs = c], l)
           /\ [x EXCEPT !.cs = c].th = x.th /\ [x EXCEPT !.cs = c].cs = c
BY DEF Only, Shaped

(* A frame pushed on the C stack.                                          *)
LEMMA PushCFacts ==
    ASSUME NEW x, NEW l, Shaped(x, l), NEW r, IsSeq(x.cs)
    PROVE  LET y == PushC(x, r)
           IN  /\ Only(x, y, l) /\ y.th = x.th /\ IsSeq(y.cs) /\ Len(y.cs) = Len(x.cs) + 1
               /\ y.cs[Len(x.cs) + 1] = r /\ \A i \in 1..Len(x.cs) : y.cs[i] = x.cs[i]
<1>1. PushC(x, r) = [x EXCEPT !.cs = Append(x.cs, r)]
  BY DEF PushC, Shaped
<1> DEFINE c == Append(x.cs, r)
<1>2. /\ IsSeq(c) /\ Len(c) = Len(x.cs) + 1
      /\ c[Len(x.cs) + 1] = r /\ \A i \in 1..Len(x.cs) : c[i] = x.cs[i]
  BY AppendFacts
<1> HIDE DEF c
<1>3. PushC(x, r) = [x EXCEPT !.cs = c]
  BY <1>1 DEF c
<1>4. /\ Only(x, [x EXCEPT !.cs = c], l)
      /\ [x EXCEPT !.cs = c].th = x.th /\ [x EXCEPT !.cs = c].cs = c
  BY FramesFacts
<1> QED BY <1>2, <1>3, <1>4

(* A frame popped off the C stack.                                         *)
LEMMA PopCFacts ==
    ASSUME NEW x, NEW l, Shaped(x, l), IsSeq(x.cs), Len(x.cs) >= 1
    PROVE  LET y == PopC(x)
           IN  /\ Only(x, y, l) /\ y.th = x.th /\ IsSeq(y.cs) /\ Len(y.cs) = Len(x.cs) - 1
               /\ \A i \in 1..(Len(x.cs) - 1) : y.cs[i] = x.cs[i]
<1>1. PopC(x) = [x EXCEPT !.cs = Front(x.cs)]
  BY DEF PopC, Shaped
<1> DEFINE c == Front(x.cs)
<1>2. /\ IsSeq(c) /\ Len(c) = Len(x.cs) - 1
      /\ \A i \in 1..(Len(x.cs) - 1) : c[i] = x.cs[i]
  BY FrontFacts
<1> HIDE DEF c
<1>3. PopC(x) = [x EXCEPT !.cs = c]
  BY <1>1 DEF c
<1>4. /\ Only(x, [x EXCEPT !.cs = c], l)
      /\ [x EXCEPT !.cs = c].th = x.th /\ [x EXCEPT !.cs = c].cs = c
  BY FramesFacts
<1> QED BY <1>2, <1>3, <1>4

(* The results that are wanted are a sequence.                             *)
LEMMA MoveresultsFacts ==
    ASSUME NEW s, IsSeq(s), NEW n \in Nat \cup {MULTRET}
    PROVE  IsSeq(moveresults(s, n))
<1>1. CASE n = MULTRET
  BY <1>1 DEF moveresults
<1>2. CASE n # MULTRET
  <2> DEFINE f == [i \in 1..n |-> IF i <= Len(s) THEN s[i] ELSE "nil"]
  <2>1. n \in Nat
    BY <1>2
  <2>2. Len(f) = n
    BY <2>1
  <2>3. f = [i \in 1..n |-> f[i]]
    OBVIOUS
  <2> HIDE DEF f
  <2>4. IsSeq(f)
    BY <2>1, <2>2, <2>3 DEF IsSeq
  <2> QED BY <2>4, <1>2 DEF moveresults, f
<1> QED BY <1>1, <1>2

(* luaD_poscall leaves the last call info.                                 *)
LEMMA PoscallFacts ==
    ASSUME NEW x, NEW l, Shaped(x, l), Len(x.th[l].ci) >= 2, CallInfoOK(ci(x, l)),
           NEW v, IsSeq(v)
    PROVE  LET y == luaD_poscall(x, l, v)
               p == Len(x.th[l].ci)
           IN  /\ Only(x, y, l) /\ y.cs = x.cs
               /\ y.th[l].status = x.th[l].status /\ y.th[l].nny = x.th[l].nny
               /\ Len(y.th[l].ci) = p - 1
               /\ \A i \in 1..(p - 1) : y.th[l].ci[i] = x.th[l].ci[i]
<1> DEFINE c == Front(x.th[l].ci)
           s == SubSeq(x.th[l].stack, 1, ci(x, l).func - 1) \o moveresults(v, ci(x, l).nresults)
           y == SetCalls(x, l, c)
<1>1. /\ IsSeq(c) /\ Len(c) = Len(x.th[l].ci) - 1
      /\ \A i \in 1..(Len(x.th[l].ci) - 1) : c[i] = x.th[l].ci[i]
  BY FrontFacts DEF Shaped, Formed
<1>2. IsSeq(s)
  <2>1. ci(x, l).func - 1 \in Int /\ ci(x, l).nresults \in Nat \cup {MULTRET}
    BY DEF CallInfoOK
  <2> QED BY <2>1, SubSeqFacts, MoveresultsFacts, ConcatFacts
<1>3. luaD_poscall(x, l, v) = SetStack(y, l, s)
  BY DEF luaD_poscall, SetCalls, SetStack, Shaped, Formed
<1>4. Len(c) >= 1
  BY <1>1, FormedFacts
<1> HIDE DEF c, s
<1>5. /\ Only(x, y, l) /\ y.cs = x.cs /\ y.th[l].ci = c
      /\ y.th[l].status = x.th[l].status /\ y.th[l].nny = x.th[l].nny
  BY <1>1, <1>4, CallsFacts
<1> HIDE DEF y
<1>6. Shaped(y, l)
  BY <1>5 DEF Only
<1>7. Likewise(y, SetStack(y, l, s), l)
  BY <1>2, <1>6, SetStackFacts
<1> QED BY <1>1, <1>3, <1>5, <1>7, OnlyTransitive DEF Likewise

-----------------------------------------------------------------------------
(* Steps that keep the invariant.                                          *)

(* A change of one thread that leaves it right.                            *)
LEMMA OnlyBeside ==
    ASSUME NEW x, NEW y, NEW l, Only(x, y, l), ThreadInv(y.th[l])
    PROVE  Beside(x, y, l)
BY DEF Only, Shaped, Beside

(* A change of one thread leaves it with its shape.                        *)
LEMMA OnlyFormed ==
    ASSUME NEW x, NEW y, NEW l, Only(x, y, l)
    PROVE  Shaped(y, l) /\ Formed(y.th[l]) /\ l \in Threads
BY DEF Only, Shaped

(* The thread with its first q call infos.                                 *)
LEMMA ThreadPrefix ==
    ASSUME NEW t, NEW u, ThreadInv(t), Formed(u), NEW q \in 1..Len(t.ci),
           Len(u.ci) = q, \A i \in 1..q : u.ci[i] = t.ci[i],
           u.status = "YIELD" => t.status = "YIELD" /\ q = Len(t.ci)
    PROVE  ThreadInv(u)
<1>1. Len(t.ci) \in Nat /\ q \in Nat /\ q >= 1 /\ q <= Len(t.ci) /\ IsSeq(t.ci)
  BY DEF ThreadInv, ThreadOK, IsSeq
<1>2. \A i \in 1..q : i \in 1..Len(t.ci)
  BY <1>1
<1>3. \A i \in 2..q : i \in 2..Len(t.ci) /\ i \in 1..q
  BY <1>1
<1>4. \A i \in 2..q : \A j \in 2..(i - 1) : j \in 1..q
  BY <1>1
<1>5. ThreadOK(u)
  BY <1>2 DEF ThreadInv, ThreadOK, Formed
<1>6. u.ci[1] = t.ci[1]
  BY <1>1
<1>7. \A i \in 2..q : Continues(u.ci[i])
  BY <1>3 DEF ThreadInv, CallsOK
<1>8. \A i \in 2..q : u.ci[i].k => \A j \in 2..(i - 1) : Fine(u.ci[j])
  BY <1>3, <1>4 DEF ThreadInv, CallsOK
<1>9. u.status = "YIELD" => /\ Len(u.ci) >= 2 /\ u.ci[Len(u.ci)].fn \in {"yield", "yieldk"}
                            /\ \A i \in 2..(Len(u.ci) - 1) : Fine(u.ci[i])
  <2> SUFFICES ASSUME u.status = "YIELD"
               PROVE  /\ q >= 2 /\ u.ci[q].fn \in {"yield", "yieldk"}
                      /\ \A i \in 2..(q - 1) : Fine(u.ci[i])
    OBVIOUS
  <2>1. t.status = "YIELD" /\ q = Len(t.ci)
    OBVIOUS
  <2>2. /\ q >= 2 /\ t.ci[q].fn \in {"yield", "yieldk"}
        /\ \A i \in 2..(q - 1) : Fine(t.ci[i])
    BY <2>1 DEF ThreadInv, CallsOK
  <2>3. q \in 1..q /\ \A i \in 2..(q - 1) : i \in 1..q
    BY <1>1
  <2> QED BY <2>2, <2>3
<1>10. CallsOK(u)
  BY <1>6, <1>7, <1>8, <1>9 DEF ThreadInv, CallsOK
<1> QED BY <1>5, <1>10 DEF ThreadInv

(* What the invariant says of one thread.                                  *)
LEMMA InvThread ==
    ASSUME NEW x, Inv(x), NEW l \in Threads
    PROVE  /\ ThreadInv(x.th[l]) /\ Shaped(x, l) /\ Formed(x.th[l])
           /\ Len(x.th[l].ci) \in Nat /\ Len(x.th[l].ci) >= 1
           /\ x.th[l].nny \in Int
           /\ \A i \in 1..Len(x.th[l].ci) : CallInfoOK(x.th[l].ci[i])
           /\ ci(x, l) = x.th[l].ci[Len(x.th[l].ci)] /\ CallInfoOK(ci(x, l))
<1>1. ThreadInv(x.th[l]) /\ Shaped(x, l)
  BY MachineShaped DEF Inv, MachineOK
<1>2. /\ Len(x.th[l].ci) \in Nat /\ Len(x.th[l].ci) >= 1 /\ x.th[l].nny \in Int
      /\ ci(x, l) = x.th[l].ci[Len(x.th[l].ci)]
  BY <1>1, FormedFacts
<1>3. \A i \in 1..Len(x.th[l].ci) : CallInfoOK(x.th[l].ci[i])
  BY <1>1 DEF ThreadInv, ThreadOK
<1>4. Len(x.th[l].ci) \in 1..Len(x.th[l].ci)
  BY <1>2
<1> QED BY <1>1, <1>2, <1>3, <1>4 DEF Shaped

(* The frame on the top of the C stack.                                    *)
LEMMA InvTop ==
    ASSUME NEW x, Inv(x), Len(x.cs) >= 1
    PROVE  LET n == Len(x.cs)
               r == x.cs[n]
           IN  /\ n \in Nat /\ n \in 1..n /\ IsSeq(x.cs) /\ Last(x.cs) = r
               /\ FrameOK(r) /\ r.l \in Threads /\ InChain(x, r.l)
               /\ x.th[r.l].status = "OK"
               /\ r.f \in {"C", "luaD_call", "luaD_pcall"} => Len(x.th[r.l].ci) = r.ci
<1>1. MachineOK(x) /\ Top(x) /\ Statuses(x)
  BY DEF Inv
<1>2. Len(x.cs) \in Nat /\ Len(x.cs) \in 1..Len(x.cs) /\ IsSeq(x.cs)
  BY <1>1, FrameTypes
<1>3. FrameOK(x.cs[Len(x.cs)]) /\ x.cs[Len(x.cs)].l \in Threads
  BY <1>1, <1>2, FrameTypes
<1>4. InChain(x, x.cs[Len(x.cs)].l)
  BY <1>2, OutOfChain
<1>5. Last(x.cs) = x.cs[Len(x.cs)]
  BY <1>2, FrontFacts
<1> QED BY <1>1, <1>2, <1>3, <1>4, <1>5 DEF Top, Statuses

(* A change of nothing but values keeps the invariant, if a thread that    *)
(* has not begun keeps its function.                                       *)
LEMMA LikewiseInv ==
    ASSUME NEW x, NEW y, NEW l, Inv(x), Likewise(x, y, l),
           (~InChain(x, l) /\ x.th[l].status = "OK") => Len(y.th[l].stack) >= 1
    PROVE  Inv(y)
<1>1. l \in Threads /\ Formed(y.th[l])
  BY OnlyFormed DEF Likewise
<1>2. ThreadInv(x.th[l]) /\ Len(x.th[l].ci) \in 1..Len(x.th[l].ci)
  BY <1>1, InvThread
<1>3. ThreadInv(y.th[l])
  BY <1>1, <1>2, ThreadPrefix DEF Likewise
<1>4. Beside(x, y, l)
  BY <1>3, OnlyBeside DEF Likewise
<1>5. Modifies(x, y, l)
  BY <1>4 DEF Modifies, Likewise
<1> QED BY <1>5, ModifiesInv

(* The calls that a yield cannot cross, without the last frame.            *)
LEMMA UncrossedLast ==
    ASSUME NEW x, NEW t, NEW n \in Nat, n >= 1
    PROVE  IF x.cs[n].l = t /\ x.cs[n].f = "luaD_call" /\ x.cs[n].noyield
           THEN Cardinality(Uncrossed(x, t, n)) = Cardinality(Uncrossed(x, t, n - 1)) + 1
           ELSE Uncrossed(x, t, n) = Uncrossed(x, t, n - 1)
<1>1. CASE x.cs[n].l = t /\ x.cs[n].f = "luaD_call" /\ x.cs[n].noyield
  <2>1. Uncrossed(x, t, n) = Uncrossed(x, t, n - 1) \cup {n}
    BY <1>1 DEF Uncrossed
  <2>2. n \notin Uncrossed(x, t, n - 1)
    BY DEF Uncrossed
  <2>3. n - 1 \in Nat
    OBVIOUS
  <2>4. IsFiniteSet(Uncrossed(x, t, n - 1))
    BY <2>3, UncrossedCount
  <2> DEFINE S == Uncrossed(x, t, n - 1)
  <2>5. Cardinality(S \cup {n}) = Cardinality(S) + 1
    <3> HIDE DEF S
    <3> QED BY <2>2, <2>4, FS_AddElement DEF S
  <2> QED BY <1>1, <2>1, <2>5
<1>2. CASE ~(x.cs[n].l = t /\ x.cs[n].f = "luaD_call" /\ x.cs[n].noyield)
  <2>1. \A i \in 1..n : i \in 1..(n - 1) \/ i = n
    OBVIOUS
  <2>2. \A i \in 1..(n - 1) : i \in 1..n
    OBVIOUS
  <2> QED BY <1>2, <2>1, <2>2 DEF Uncrossed
<1> QED BY <1>1, <1>2

(* The first m frames are left, and the first p call infos of l.           *)
Shortened(x, y, l, m, p) ==
    /\ Only(x, y, l) /\ y.th[l].status = x.th[l].status
    /\ IsSeq(y.cs) /\ Len(y.cs) = m /\ (\A i \in 1..m : y.cs[i] = x.cs[i])
    /\ Len(y.th[l].ci) = p /\ \A i \in 1..p : y.th[l].ci[i] = x.th[l].ci[i]

(* A thread that loses call infos is right.                                *)
LEMMA ShortenedThread ==
    ASSUME NEW x, NEW y, NEW l, NEW m, NEW p, Inv(x), l \in Threads,
           Shortened(x, y, l, m, p), p \in 1..Len(x.th[l].ci), x.th[l].status = "OK"
    PROVE  Beside(x, y, l)
<1>1. ThreadInv(x.th[l]) /\ Formed(y.th[l])
  BY InvThread, OnlyFormed DEF Shortened
<1>2. ThreadInv(y.th[l])
  BY <1>1, ThreadPrefix, Zenon DEF Shortened
<1> QED BY <1>2, OnlyBeside DEF Shortened

(* A call that has its frame returns, and its call info goes with it.      *)
LEMMA PopsCallInv ==
    ASSUME NEW x, NEW y, NEW l, Inv(x), Len(x.cs) >= 1, x.cs[Len(x.cs)].l = l,
           x.cs[Len(x.cs)].f \in {"luaV_execute", "C"},
           x.cs[Len(x.cs)].ci = Len(x.th[l].ci),
           Shortened(x, y, l, Len(x.cs) - 1, Len(x.th[l].ci) - 1), y.th[l].nny = x.th[l].nny
    PROVE  Inv(y)
<1> DEFINE n == Len(x.cs)
           p == Len(x.th[l].ci)
           r == x.cs[n]
<1>1. n \in Nat /\ n >= 1 /\ n \in 1..n /\ FrameOK(r) /\ l \in Threads /\ InChain(x, l)
      /\ x.th[l].status = "OK"
  BY InvTop, Zenon
<1>2. p \in Nat /\ p >= 2
  BY <1>1, InvThread DEF FrameOK
<1>3. p - 1 \in 1..p /\ p - 1 <= p /\ (\A i \in 1..(p - 1) : i \in 1..p)
  <2> HIDE DEF p
  <2> QED BY <1>2
<1>4. Beside(x, y, l)
  BY <1>1, <1>3, ShortenedThread
<1>5. n >= 2 /\ n - 1 \in 1..n /\ n - 1 # n /\ n - 1 + 1 = n
  <2>1. n # 1
    BY <1>1, Zenon DEF Inv, Bottom
  <2> HIDE DEF n
  <2> QED BY <2>1, <1>1
<1>6. Follows(x, x.cs[n - 1], r)
  BY <1>5, NextFrame, Zenon
<1>y. IsSeq(y.cs) /\ Len(y.cs) = n - 1 /\ (\A i \in 1..(n - 1) : y.cs[i] = x.cs[i])
      /\ Len(y.th[l].ci) = p - 1 /\ (\A i \in 1..(p - 1) : y.th[l].ci[i] = x.th[l].ci[i])
      /\ y.th[l].status = "OK"
  BY <1>1 DEF Shortened
<1>7. x.cs[n - 1].f # "C"
  BY <1>6, Zenon DEF Follows
<1>8. InChain(y, l)
  <2>1. CASE l = Main
    BY <2>1 DEF InChain
  <2>2. CASE l # Main
    <3>1. PICK i \in 1..n : x.cs[i].f = "lua_resume" /\ x.cs[i].l = l
      BY <1>1, <2>2 DEF InChain
    <3>2. i \in 1..(n - 1)
      BY <3>1, <1>1
    <3> QED BY <3>1, <3>2, <1>y DEF InChain
  <2> QED BY <2>1, <2>2
<1>9. ASSUME NEW i \in 1..(n - 1), x.cs[i].l = l, x.cs[i].f # "lua_resume"
      PROVE  x.cs[i].ci <= p - 1
  <2>1. x.cs[i].ci < p
    BY <1>1, <1>9, Zenon DEF Inv, Levels
  <2>2. i \in 1..n
    BY <1>1
  <2>3. x.cs[i].ci \in Nat
    BY <2>2, <1>9, FrameLevel
  <2> HIDE DEF p
  <2> QED BY <2>1, <2>3, <1>2
<1>10. (x.cs[n - 1].l = l /\ x.cs[n - 1].f \in {"C", "luaD_call", "luaD_pcall"}) =>
           p - 1 = x.cs[n - 1].ci
  <2> SUFFICES ASSUME x.cs[n - 1].l = l, x.cs[n - 1].f \in {"C", "luaD_call", "luaD_pcall"}
               PROVE  p - 1 = x.cs[n - 1].ci
    BY Zenon
  <2>1. x.cs[n - 1].f = "luaD_call" /\ p = x.cs[n - 1].ci + 1
    BY <1>6, Zenon DEF Follows
  <2>2. x.cs[n - 1].ci \in Nat
    BY <2>1, <1>5, FrameLevel
  <2> QED BY <2>1, <2>2
<1>11. x.cs[n - 1].f = "luaV_execute" => p - 1 <= Upper(x, n - 1)
  <2> SUFFICES ASSUME x.cs[n - 1].f = "luaV_execute" PROVE p - 1 <= Upper(x, n - 1)
    OBVIOUS
  <2>1. r.f = "C"
    BY <1>6 DEF Follows
  <2>2. Upper(x, n - 1) = p - 1
    BY <2>1, <1>5 DEF Upper
  <2> QED BY <2>2, <1>2
<1>12. x.th[l].nny = Cardinality(Uncrossed(x, l, n - 1))
                     + (IF l = Main \/ ~InChain(y, l) THEN 1 ELSE 0)
  <2>1. x.th[l].nny = Cardinality(Uncrossed(x, l, n))
                      + (IF l = Main \/ ~InChain(x, l) THEN 1 ELSE 0)
    BY <1>1 DEF Inv, Counts
  <2>2. Uncrossed(x, l, n) = Uncrossed(x, l, n - 1)
    BY <1>1, UncrossedLast
  <2> QED BY <2>1, <2>2, <1>1, <1>8
<1>13. ASSUME NEW i \in 2..(p - 1) PROVE Fine(y.th[l].ci[i]) \/ Framed(y, l, i)
  <2>1. i \in 1..(p - 1) /\ i \in 2..p /\ i # p
    BY <1>2
  <2>2. Fine(x.th[l].ci[i]) \/ Framed(x, l, i)
    BY <2>1, <1>1 DEF Inv, Stuck
  <2>3. ASSUME Framed(x, l, i) PROVE Framed(y, l, i)
    <3>1. PICK j \in 1..n :
              /\ x.cs[j].f = "C" /\ x.cs[j].l = l /\ x.cs[j].ci = i
              /\ j < n => \/ x.cs[j + 1].f = "luaD_call" /\ x.cs[j + 1].noyield
                          \/ x.cs[j + 1].f \in {"luaD_pcall", "lua_resume"}
      BY <2>3, Zenon DEF Framed
    <3>2. j # n /\ j # n - 1
      BY <3>1, <2>1, <1>7, Zenon
    <3>3. j \in 1..(n - 1) /\ j + 1 \in 1..(n - 1) /\ j < n
      BY <3>2, <1>5
    <3> QED BY <3>1, <3>3, <1>y DEF Framed
  <2> QED BY <2>1, <2>2, <2>3, <1>y, Zenon
<1>14. /\ n - 1 \in 0..n /\ n - 1 >= 1
       /\ \A i \in (n - 1 + 1)..n : x.cs[i].l = l
  <2>1. \A i \in (n - 1 + 1)..n : i = n
    BY <1>1
  <2> QED BY <2>1, <1>5
<1>15. Cuts(x, y, l, n - 1, p - 1)
  <2> DEFINE m == n - 1
             q == p - 1
  <2> HIDE DEF m, q
  <2>1. Beside(x, y, l) /\ m \in 0..Len(x.cs) /\ q \in 1..Len(x.th[l].ci)
        /\ IsSeq(y.cs) /\ Len(y.cs) = m /\ (\A i \in 1..m : y.cs[i] = x.cs[i])
        /\ Len(y.th[l].ci) = q /\ (\A i \in 1..q : y.th[l].ci[i] = x.th[l].ci[i])
        /\ Len(x.cs) >= 1 /\ x.cs[Len(x.cs)].l = l
        /\ \A i \in (m + 1)..Len(x.cs) : x.cs[i].l = l
    BY <1>3, <1>4, <1>y, <1>14 DEF m, q
  <2>2. /\ \A i \in 1..m : (x.cs[i].l = l /\ x.cs[i].f # "lua_resume") => x.cs[i].ci <= q
        /\ (m >= 1 /\ x.cs[m].l = l /\ x.cs[m].f \in {"C", "luaD_call", "luaD_pcall"}) =>
              q = x.cs[m].ci
        /\ (m >= 1 /\ x.cs[m].l = l /\ x.cs[m].f = "luaV_execute") => q <= Upper(x, m)
    BY <1>9, <1>10, <1>11 DEF m, q
  <2>3. m >= 1 => y.th[l].nny = Cardinality(Uncrossed(x, l, m))
                                + (IF l = Main \/ ~InChain(y, l) THEN 1 ELSE 0)
    BY <1>12 DEF m
  <2>4. InChain(y, l) => /\ y.th[l].status = "OK"
                         /\ \A i \in 2..q : Fine(y.th[l].ci[i]) \/ Framed(y, l, i)
    BY <1>13, <1>y, Zenon DEF q
  <2>5. Cuts(x, y, l, m, q)
    BY <2>1, <2>2, <2>3, <2>4, <1>8, Zenon DEF Cuts
  <2> QED BY <2>5, Zenon DEF m, q
<1> QED BY <1>15, CutsInv

(* A frame of luaD_call or luaD_pcall is left.                             *)
LEMMA PopsFrameInv ==
    ASSUME NEW x, NEW y, NEW l, Inv(x), Len(x.cs) >= 1, x.cs[Len(x.cs)].l = l,
           x.cs[Len(x.cs)].f \in {"luaD_call", "luaD_pcall"},
           Shortened(x, y, l, Len(x.cs) - 1, Len(x.th[l].ci)),
           y.th[l].nny = x.th[l].nny
               - (IF x.cs[Len(x.cs)].f = "luaD_call" /\ x.cs[Len(x.cs)].noyield THEN 1 ELSE 0)
    PROVE  Inv(y)
<1> DEFINE n == Len(x.cs)
           p == Len(x.th[l].ci)
           r == x.cs[n]
<1>1. n \in Nat /\ n >= 1 /\ n \in 1..n /\ FrameOK(r) /\ l \in Threads /\ InChain(x, l)
      /\ x.th[l].status = "OK" /\ r.ci = p
  BY InvTop
<1>2. p \in Nat /\ p >= 1 /\ p \in 1..p
  BY <1>1, InvThread
<1>4. Beside(x, y, l)
  BY <1>1, <1>2, ShortenedThread, Zenon
<1>y. IsSeq(y.cs) /\ Len(y.cs) = n - 1 /\ (\A i \in 1..(n - 1) : y.cs[i] = x.cs[i])
      /\ Len(y.th[l].ci) = p /\ (\A i \in 1..p : y.th[l].ci[i] = x.th[l].ci[i])
      /\ y.th[l].status = "OK"
  BY <1>1 DEF Shortened
<1>z. x.th[l].nny \in Int
      /\ y.th[l].nny = x.th[l].nny - (IF r.f = "luaD_call" /\ r.noyield THEN 1 ELSE 0)
  BY <1>1, InvThread
<1>5. n # 1 => n >= 2 /\ n - 1 \in 1..n /\ n - 1 # n /\ n - 1 + 1 = n
  <2> HIDE DEF n
  <2> QED BY <1>1
<1>6. n # 1 => Follows(x, x.cs[n - 1], r)
  BY <1>5, NextFrame, Zenon
<1>7. n = 1 => p = 1 /\ l = Main
  BY <1>1 DEF Inv, Bottom
<1>8. InChain(y, l)
  <2>1. CASE l = Main
    BY <2>1 DEF InChain
  <2>2. CASE l # Main
    <3>1. PICK i \in 1..n : x.cs[i].f = "lua_resume" /\ x.cs[i].l = l
      BY <1>1, <2>2, Zenon DEF InChain
    <3>2. i \in 1..(n - 1)
      BY <3>1, <1>1
    <3> QED BY <3>1, <3>2, <1>y DEF InChain
  <2> QED BY <2>1, <2>2
<1>9. ASSUME NEW i \in 1..(n - 1), x.cs[i].l = l, x.cs[i].f # "lua_resume"
      PROVE  x.cs[i].ci <= p
  <2>1. i \in 1..n
    BY <1>1
  <2> QED BY <2>1, <1>9, FrameLevel
<1>10. (n # 1 /\ x.cs[n - 1].f \in {"C", "luaD_call", "luaD_pcall"}) => p = x.cs[n - 1].ci
  BY <1>6, <1>1, Zenon DEF Follows
<1>11. (n # 1 /\ x.cs[n - 1].f = "luaV_execute") => p <= Upper(x, n - 1)
  <2> SUFFICES ASSUME n # 1, x.cs[n - 1].f = "luaV_execute" PROVE p <= Upper(x, n - 1)
    BY Zenon
  <2>1. r.f = "luaD_call"
    BY <1>6 DEF Follows
  <2>2. Upper(x, n - 1) = p
    BY <2>1, <1>1, <1>5 DEF Upper
  <2> QED BY <2>2, <1>2
<1>12. y.th[l].nny = Cardinality(Uncrossed(x, l, n - 1))
                     + (IF l = Main \/ ~InChain(y, l) THEN 1 ELSE 0)
  <2>1. x.th[l].nny = Cardinality(Uncrossed(x, l, n))
                      + (IF l = Main \/ ~InChain(x, l) THEN 1 ELSE 0)
    BY <1>1 DEF Inv, Counts
  <2>2. IF r.f = "luaD_call" /\ r.noyield
        THEN Cardinality(Uncrossed(x, l, n)) = Cardinality(Uncrossed(x, l, n - 1)) + 1
        ELSE Cardinality(Uncrossed(x, l, n)) = Cardinality(Uncrossed(x, l, n - 1))
    BY <1>1, UncrossedLast
  <2>3. Cardinality(Uncrossed(x, l, n - 1)) \in Nat /\ Cardinality(Uncrossed(x, l, n)) \in Nat
    <3>1. n - 1 \in Nat
      BY <1>1
    <3> QED BY <3>1, <1>1, UncrossedCount
  <2> DEFINE c == Cardinality(Uncrossed(x, l, n))
             d == Cardinality(Uncrossed(x, l, n - 1))
             e == IF l = Main THEN 1 ELSE 0
  <2>4. x.th[l].nny = c + e /\ e \in Nat
    BY <2>1, <1>1
  <2>5. (IF l = Main \/ ~InChain(y, l) THEN 1 ELSE 0) = e
    BY <1>8
  <2> HIDE DEF c, d, e
  <2>6. y.th[l].nny = d + e
    <3>1. CASE r.f = "luaD_call" /\ r.noyield
      <4>1. y.th[l].nny = x.th[l].nny - 1 /\ c = d + 1
        BY <3>1, <2>2, <1>z DEF c, d
      <4> QED BY <4>1, <2>3, <2>4 DEF c, d
    <3>2. CASE ~(r.f = "luaD_call" /\ r.noyield)
      <4>1. y.th[l].nny = x.th[l].nny - 0 /\ c = d
        BY <3>2, <2>2, <1>z DEF c, d
      <4> QED BY <4>1, <2>3, <2>4, <1>z DEF c, d
    <3> QED BY <3>1, <3>2
  <2> QED BY <2>5, <2>6 DEF d
<1>13. ASSUME NEW i \in 2..p PROVE Fine(y.th[l].ci[i]) \/ Framed(y, l, i)
  <2>1. i \in 1..p
    BY <1>2
  <2>2. Fine(x.th[l].ci[i]) \/ Framed(x, l, i)
    BY <2>1, <1>1, Zenon DEF Inv, Stuck
  <2>3. ASSUME Framed(x, l, i) PROVE Framed(y, l, i)
    <3>1. PICK j \in 1..n :
              /\ x.cs[j].f = "C" /\ x.cs[j].l = l /\ x.cs[j].ci = i
              /\ j < n => \/ x.cs[j + 1].f = "luaD_call" /\ x.cs[j + 1].noyield
                          \/ x.cs[j + 1].f \in {"luaD_pcall", "lua_resume"}
      BY <2>3 DEF Framed
    <3>2. j # n
      BY <3>1
    <3>3. j \in 1..(n - 1) /\ j < n /\ (j < n - 1 => j + 1 \in 1..(n - 1))
      BY <3>2, <1>1
    <3> QED BY <3>1, <3>3, <1>y, Zenon DEF Framed
  <2> QED BY <2>1, <2>2, <2>3, <1>y
<1>14. /\ n - 1 \in 0..n /\ (n - 1 >= 1 => n # 1)
       /\ \A i \in (n - 1 + 1)..n : x.cs[i].l = l
  <2>1. \A i \in (n - 1 + 1)..n : i = n
    BY <1>1
  <2> QED BY <2>1, <1>1
<1> DEFINE m == n - 1
<1> HIDE DEF m
<1>15. Cuts(x, y, l, m, p)
  <2>1. Beside(x, y, l) /\ m \in 0..Len(x.cs) /\ p \in 1..Len(x.th[l].ci)
        /\ IsSeq(y.cs) /\ Len(y.cs) = m /\ (\A i \in 1..m : y.cs[i] = x.cs[i])
        /\ Len(y.th[l].ci) = p /\ (\A i \in 1..p : y.th[l].ci[i] = x.th[l].ci[i])
        /\ Len(x.cs) >= 1 /\ x.cs[Len(x.cs)].l = l
        /\ \A i \in (m + 1)..Len(x.cs) : x.cs[i].l = l
    BY <1>2, <1>4, <1>y, <1>14 DEF m
  <2>2. /\ \A i \in 1..m : (x.cs[i].l = l /\ x.cs[i].f # "lua_resume") => x.cs[i].ci <= p
        /\ (m >= 1 /\ x.cs[m].l = l /\ x.cs[m].f \in {"C", "luaD_call", "luaD_pcall"}) =>
              p = x.cs[m].ci
        /\ (m >= 1 /\ x.cs[m].l = l /\ x.cs[m].f = "luaV_execute") => p <= Upper(x, m)
    BY <1>9, <1>10, <1>11, <1>14, Zenon DEF m
  <2>3. m >= 1 => y.th[l].nny = Cardinality(Uncrossed(x, l, m))
                                + (IF l = Main \/ ~InChain(y, l) THEN 1 ELSE 0)
    BY <1>12, Zenon DEF m
  <2>4. InChain(y, l) => /\ y.th[l].status = "OK"
                         /\ \A i \in 2..p : Fine(y.th[l].ci[i]) \/ Framed(y, l, i)
    BY <1>13, <1>y, Zenon
  <2> QED BY <2>1, <2>2, <2>3, <2>4, <1>8 DEF Cuts
<1> QED BY <1>15, CutsInv

(* The call infos of a thread that lua_resume runs, and of one that runs   *)
(* with no call that a yield cannot cross.                                 *)
LEMMA TopResume ==
    ASSUME NEW x, Inv(x), Len(x.cs) >= 1, x.cs[Len(x.cs)].f = "lua_resume"
    PROVE  LET l == x.cs[Len(x.cs)].l
           IN  /\ \A i \in 1..(Len(x.cs) - 1) : x.cs[i].l # l
               /\ \A i \in 2..Len(x.th[l].ci) : Fine(x.th[l].ci[i])
               /\ l # Main
<1> DEFINE n == Len(x.cs)
           l == x.cs[n].l
<1>1. n \in Nat /\ n \in 1..n /\ FrameOK(x.cs[n]) /\ l \in Threads /\ InChain(x, l)
  BY InvTop
<1>2. \A i \in 1..(n - 1) : x.cs[i].l # l
  BY <1>1, Zenon DEF Inv, Owners
<1>3. ASSUME NEW i \in 2..Len(x.th[l].ci), Framed(x, l, i) PROVE FALSE
  <2>1. PICK j \in 1..n : x.cs[j].f = "C" /\ x.cs[j].l = l
    BY <1>3 DEF Framed
  <2>2. j # n
    BY <2>1
  <2>3. j \in 1..(n - 1)
    BY <1>1, <2>2
  <2> QED BY <2>1, <2>3, <1>2
<1> QED BY <1>1, <1>2, <1>3 DEF Inv, Stuck, FrameOK

(* When lua_yieldk finds nny = 0, the thread is a coroutine, none of its   *)
(* frames is one that a yield cannot cross, and its call infos can be left *)
(* without their C frames.                                                 *)
LEMMA MayYield ==
    ASSUME NEW x, Inv(x), Len(x.cs) >= 1,
           x.cs[Len(x.cs)].f \in {"C", "luaV_execute"}, ~(x.th[x.cs[Len(x.cs)].l].nny > 0)
    PROVE  LET l == x.cs[Len(x.cs)].l
           IN  /\ l # Main
               /\ \A i \in 1..Len(x.cs) :
                     x.cs[i].l = l => /\ ~(x.cs[i].f = "luaD_call" /\ x.cs[i].noyield)
                                      /\ x.cs[i].f # "luaD_pcall"
               /\ \A i \in 2..(Len(x.th[l].ci) - 1) : Fine(x.th[l].ci[i])
<1> DEFINE n == Len(x.cs)
           l == x.cs[n].l
           p == Len(x.th[l].ci)
<1>1. n \in Nat /\ n \in 1..n /\ FrameOK(x.cs[n]) /\ l \in Threads /\ InChain(x, l)
  BY InvTop
<1>2. p \in Nat /\ p >= 1
  BY <1>1, InvThread
<1>3. Uncrossed(x, l, n) = {} /\ l # Main
  <2>1. x.th[l].nny = Cardinality(Uncrossed(x, l, n))
                      + (IF l = Main \/ ~InChain(x, l) THEN 1 ELSE 0)
    BY <1>1 DEF Inv, Counts
  <2>2. IsFiniteSet(Uncrossed(x, l, n)) /\ Cardinality(Uncrossed(x, l, n)) \in Nat
    BY <1>1, UncrossedCount
  <2>3. l # Main /\ Cardinality(Uncrossed(x, l, n)) = 0
    BY <2>1, <2>2, <1>1
  <2> QED BY <2>2, <2>3, FS_EmptySet
<1>4. ASSUME NEW i \in 1..n, x.cs[i].l = l, x.cs[i].f = "luaD_call", x.cs[i].noyield PROVE FALSE
  BY <1>3, <1>4 DEF Uncrossed
<1>5. ASSUME NEW i \in 1..n, x.cs[i].l = l, x.cs[i].f = "luaD_pcall" PROVE FALSE
  <2>1. i # n
    BY <1>5
  <2>2. i + 1 \in 1..n /\ Follows(x, x.cs[i], x.cs[i + 1])
    BY <2>1, NextFrame, Zenon
  <2>3. x.cs[i + 1].f = "luaD_call" /\ x.cs[i + 1].noyield /\ x.cs[i + 1].l = l
    BY <2>2, <1>5, Zenon DEF Follows
  <2> QED BY <2>2, <2>3, <1>4
<1>6. ASSUME NEW i \in 2..(p - 1) PROVE Fine(x.th[l].ci[i])
  <2>1. i \in 2..p /\ i # p
    BY <1>2
  <2> SUFFICES ASSUME Framed(x, l, i) PROVE FALSE
    BY <2>1, <1>1, Zenon DEF Inv, Stuck
  <2>2. PICK j \in 1..n :
            /\ x.cs[j].f = "C" /\ x.cs[j].l = l /\ x.cs[j].ci = i
            /\ j < n => \/ x.cs[j + 1].f = "luaD_call" /\ x.cs[j + 1].noyield
                        \/ x.cs[j + 1].f \in {"luaD_pcall", "lua_resume"}
    BY Zenon DEF Framed
  <2>3. j # n
    BY <2>1, <2>2, Zenon DEF Inv, Top
  <2>4. j < n /\ j + 1 \in 1..n /\ j + 1 \in j..n /\ j + 1 > j
    BY <2>3, <1>1
  <2>5. x.cs[j + 1].l = l /\ x.cs[j + 1].f # "lua_resume"
    BY <2>2, <2>4, <1>1, SameOwner
  <2> QED BY <2>2, <2>4, <2>5, <1>4, <1>5, Zenon
<1> QED BY <1>3, <1>4, <1>5, <1>6, Zenon

(* What luaV_execute runs on the top of the C stack.                       *)
LEMMA TopExecute ==
    ASSUME NEW x, Inv(x), Len(x.cs) >= 1, x.cs[Len(x.cs)].f = "luaV_execute"
    PROVE  LET r == x.cs[Len(x.cs)]
               p == Len(x.th[r.l].ci)
           IN  /\ r.ci \in Nat /\ r.ci >= 2 /\ r.ci <= p
               /\ ci(x, r.l).fresh <=> r.ci = p
<1> DEFINE n == Len(x.cs)
           r == x.cs[n]
           p == Len(x.th[r.l].ci)
<1>1. n \in Nat /\ n \in 1..n /\ FrameOK(r) /\ r.l \in Threads
  BY InvTop, Zenon
<1>2. r.ci \in Nat /\ r.ci >= 2 /\ r.ci <= p
  BY <1>1, FrameLevel DEF FrameOK
<1>3. p \in Nat /\ ci(x, r.l) = x.th[r.l].ci[p]
  BY <1>1, InvThread
<1>4. Upper(x, n) = p
  BY DEF Upper
<1>5. /\ x.th[r.l].ci[r.ci].fresh
      /\ \A m \in (r.ci + 1)..p : ~x.th[r.l].ci[m].fresh
  BY <1>1, <1>4, Zenon DEF Inv, Executed
<1>6. r.ci # p => p \in (r.ci + 1)..p
  <2> HIDE DEF r, p
  <2> QED BY <1>2, <1>3
<1> QED BY <1>2, <1>3, <1>5, <1>6, Zenon

(* A call returns whose frame is gone or is that of its caller.            *)
LEMMA LeavesInv ==
    ASSUME NEW x, NEW y, NEW l, Inv(x), Len(x.cs) >= 1, x.cs[Len(x.cs)].l = l,
           \/ x.cs[Len(x.cs)].f = "luaV_execute" /\ x.cs[Len(x.cs)].ci # Len(x.th[l].ci)
           \/ x.cs[Len(x.cs)].f = "lua_resume" /\ Len(x.th[l].ci) >= 2,
           Shortened(x, y, l, Len(x.cs), Len(x.th[l].ci) - 1), y.th[l].nny = x.th[l].nny
    PROVE  Inv(y)
<1> DEFINE n == Len(x.cs)
           p == Len(x.th[l].ci)
           r == x.cs[n]
<1>1. n \in Nat /\ n >= 1 /\ n \in 1..n /\ FrameOK(r) /\ l \in Threads /\ InChain(x, l)
      /\ x.th[l].status = "OK"
  BY InvTop
<1>2. p \in Nat
  BY <1>1, InvThread
<1>3. r.f = "luaV_execute" => r.ci \in Nat /\ r.ci >= 2 /\ r.ci <= p - 1
  <2> SUFFICES ASSUME r.f = "luaV_execute" PROVE r.ci \in Nat /\ r.ci >= 2 /\ r.ci <= p - 1
    OBVIOUS
  <2>1. r.ci \in Nat /\ r.ci >= 2 /\ r.ci <= p /\ r.ci # p
    BY TopExecute
  <2> HIDE DEF p, r
  <2> QED BY <2>1, <1>2
<1>4. p >= 2
  BY <1>2, <1>3
<1>5. p - 1 \in 1..p /\ p - 1 <= p /\ (\A i \in 1..(p - 1) : i \in 1..p)
  <2> HIDE DEF p
  <2> QED BY <1>2, <1>4
<1>6. Beside(x, y, l)
  BY <1>1, <1>5, ShortenedThread, Zenon
<1>y. IsSeq(y.cs) /\ Len(y.cs) = n /\ (\A i \in 1..n : y.cs[i] = x.cs[i])
      /\ Len(y.th[l].ci) = p - 1 /\ (\A i \in 1..(p - 1) : y.th[l].ci[i] = x.th[l].ci[i])
      /\ y.th[l].status = "OK"
  BY <1>1 DEF Shortened
<1>8. InChain(y, l) <=> InChain(x, l)
  BY <1>y DEF InChain
<1>9. ASSUME NEW i \in 1..n, x.cs[i].l = l, x.cs[i].f # "lua_resume"
      PROVE  x.cs[i].ci <= p - 1
  <2>1. x.cs[i].ci \in Nat
    BY <1>9, FrameLevel, Zenon
  <2>2. CASE r.f = "lua_resume"
    <3>1. i # n
      BY <2>2, <1>9
    <3>2. i \in 1..(n - 1)
      BY <3>1, <1>1
    <3> QED BY <3>2, <2>2, <1>9, TopResume
  <2>3. CASE r.f = "luaV_execute"
    <3>1. CASE i = n
      BY <3>1, <2>3, <1>3
    <3>2. CASE i # n
      <4>1. i \in 1..(n - 1)
        BY <3>2, <1>1
      <4>2. x.cs[i].ci <= r.ci
        BY <4>1, <1>1, <1>9, Zenon DEF Inv, Levels
      <4>3. r.ci \in Nat /\ r.ci <= p - 1 /\ p \in Nat
        BY <2>3, <1>2, <1>3
      <4> DEFINE h == x.cs[i].ci
                 k == r.ci
      <4>4. h \in Nat /\ k \in Nat /\ k <= p - 1 /\ p \in Nat /\ h <= k
        BY <4>2, <4>3, <2>1
      <4> HIDE DEF p, h, k
      <4>5. h <= p - 1
        BY <4>4
      <4> QED BY <4>5 DEF h
    <3> QED BY <3>1, <3>2
  <2> QED BY <2>2, <2>3
<1>11. x.cs[n].f = "luaV_execute" => p - 1 <= Upper(x, n)
  <2>1. Upper(x, n) = p
    BY DEF Upper
  <2> HIDE DEF p
  <2> QED BY <2>1, <1>2
<1>12. x.th[l].nny = Cardinality(Uncrossed(x, l, n))
                     + (IF l = Main \/ ~InChain(x, l) THEN 1 ELSE 0)
  BY <1>1, Zenon DEF Inv, Counts
<1>13. ASSUME NEW i \in 2..(p - 1) PROVE Fine(y.th[l].ci[i]) \/ Framed(y, l, i)
  <2>1. i \in 1..(p - 1) /\ i \in 2..p
    BY <1>2
  <2>2. Fine(x.th[l].ci[i]) \/ Framed(x, l, i)
    BY <2>1, <1>1 DEF Inv, Stuck
  <2>3. ASSUME Framed(x, l, i) PROVE Framed(y, l, i)
    <3>1. PICK j \in 1..n :
              /\ x.cs[j].f = "C" /\ x.cs[j].l = l /\ x.cs[j].ci = i
              /\ j < n => \/ x.cs[j + 1].f = "luaD_call" /\ x.cs[j + 1].noyield
                          \/ x.cs[j + 1].f \in {"luaD_pcall", "lua_resume"}
      BY <2>3, Zenon DEF Framed
    <3>2. j < n => j + 1 \in 1..n
      BY <1>1
    <3> QED BY <3>1, <3>2, <1>y DEF Framed
  <2> QED BY <2>1, <2>2, <2>3, <1>y, Zenon
<1>14. n \in 0..n /\ \A i \in (n + 1)..n : x.cs[i].l = l
  BY <1>1
<1> DEFINE q == p - 1
<1> HIDE DEF q
<1>15. Cuts(x, y, l, n, q)
  <2>1. Beside(x, y, l) /\ n \in 0..Len(x.cs) /\ q \in 1..Len(x.th[l].ci)
        /\ IsSeq(y.cs) /\ Len(y.cs) = n /\ (\A i \in 1..n : y.cs[i] = x.cs[i])
        /\ Len(y.th[l].ci) = q /\ (\A i \in 1..q : y.th[l].ci[i] = x.th[l].ci[i])
        /\ Len(x.cs) >= 1 /\ x.cs[Len(x.cs)].l = l
        /\ \A i \in (n + 1)..Len(x.cs) : x.cs[i].l = l
    BY <1>5, <1>6, <1>y, <1>14 DEF q
  <2>2. /\ \A i \in 1..n : (x.cs[i].l = l /\ x.cs[i].f # "lua_resume") => x.cs[i].ci <= q
        /\ (n >= 1 /\ x.cs[n].l = l /\ x.cs[n].f \in {"C", "luaD_call", "luaD_pcall"}) =>
              q = x.cs[n].ci
        /\ (n >= 1 /\ x.cs[n].l = l /\ x.cs[n].f = "luaV_execute") => q <= Upper(x, n)
    BY <1>9, <1>11 DEF q
  <2>3. n >= 1 => y.th[l].nny = Cardinality(Uncrossed(x, l, n))
                                + (IF l = Main \/ ~InChain(y, l) THEN 1 ELSE 0)
    BY <1>8, <1>12
  <2>4. InChain(y, l) => /\ y.th[l].status = "OK"
                         /\ \A i \in 2..q : Fine(y.th[l].ci[i]) \/ Framed(y, l, i)
    BY <1>13, <1>y DEF q
  <2> QED BY <2>1, <2>2, <2>3, <2>4, <1>1, <1>8, Zenon DEF Cuts
<1> QED BY <1>15, CutsInv, Zenon

-----------------------------------------------------------------------------
(* Calls.                                                                  *)

(* A thread with a call info more is right, if that one says nothing yet   *)
(* of a continuation.                                                      *)
LEMMA ThreadMore ==
    ASSUME NEW t, NEW u, ThreadInv(t), Formed(u), u.status = "OK",
           Len(u.ci) = Len(t.ci) + 1, \A i \in 1..Len(t.ci) : u.ci[i] = t.ci[i],
           CallInfoOK(u.ci[Len(t.ci) + 1]), ~u.ci[Len(t.ci) + 1].k, ~u.ci[Len(t.ci) + 1].ypcall
    PROVE  ThreadInv(u)
<1> DEFINE p == Len(t.ci)
<1>1. p \in Nat /\ p >= 1
  BY DEF ThreadInv, ThreadOK, IsSeq
<1>2. \A i \in 1..(p + 1) : i \in 1..p \/ i = p + 1
  BY <1>1
<1>3. \A i \in 2..(p + 1) : i \in 2..p \/ i = p + 1
  BY <1>1
<1>4. (\A i \in 2..p : i \in 1..p) /\ 1 \in 1..p
  BY <1>1
<1>5. \A i \in 2..p : \A j \in 2..(i - 1) : j \in 1..p
  BY <1>1
<1>6. ThreadOK(u)
  <2>1. \A i \in 1..(p + 1) : CallInfoOK(u.ci[i])
    BY <1>2 DEF ThreadInv, ThreadOK
  <2> QED BY <2>1 DEF ThreadOK, Formed
<1>7. u.ci[1].fn = "base" /\ u.ci[1].func = 1 /\ ~u.ci[1].ypcall
  BY <1>4 DEF ThreadInv, CallsOK
<1>8. ASSUME NEW i \in 2..(p + 1) PROVE Continues(u.ci[i])
  <2>1. CASE i = p + 1
    BY <2>1 DEF Continues
  <2>2. CASE i \in 2..p
    BY <2>2, <1>4 DEF ThreadInv, CallsOK
  <2> QED BY <2>1, <2>2, <1>3
<1>9. ASSUME NEW i \in 2..(p + 1), u.ci[i].k PROVE \A j \in 2..(i - 1) : Fine(u.ci[j])
  <2>1. i \in 2..p
    BY <1>3, <1>9
  <2>2. t.ci[i].k
    BY <2>1, <1>4, <1>9
  <2>3. \A j \in 2..(i - 1) : Fine(t.ci[j])
    BY <2>1, <2>2 DEF ThreadInv, CallsOK
  <2> QED BY <2>1, <2>3, <1>5
<1>10. CallsOK(u)
  BY <1>7, <1>8, <1>9 DEF CallsOK
<1> QED BY <1>6, <1>10 DEF ThreadInv

(* luaD_precall keeps the invariant, called by luaV_execute, by luaD_call  *)
(* or by lua_resume.                                                       *)
LEMMA PrecallInv ==
    ASSUME NEW x, NEW l, Inv(x), Len(x.cs) >= 1, x.cs[Len(x.cs)].l = l,
           NEW func \in Nat, NEW nresults \in Nat \cup {MULTRET}, NEW fresh \in BOOLEAN,
           \/ x.cs[Len(x.cs)].f = "luaV_execute" /\ ~fresh
           \/ x.cs[Len(x.cs)].f \in {"luaD_call", "lua_resume"} /\ fresh
    PROVE  Inv(luaD_precall(x, l, func, nresults, fresh))
<1> DEFINE n == Len(x.cs)
           p == Len(x.th[l].ci)
           fn == x.th[l].stack[func]
           e == CallInfo(fn, func, nresults, fresh)
           c == Append(x.th[l].ci, e)
           y == SetCalls(x, l, c)
           z == luaD_precall(x, l, func, nresults, fresh)
<1>1. n \in Nat /\ n >= 1 /\ n \in 1..n /\ IsSeq(x.cs) /\ FrameOK(x.cs[n]) /\ l \in Threads
      /\ x.th[l].status = "OK" /\ (x.cs[n].f = "luaD_call" => p = x.cs[n].ci)
  BY InvTop
<1>2. p \in Nat /\ p >= 1 /\ ThreadInv(x.th[l]) /\ Shaped(x, l) /\ IsSeq(x.th[l].ci)
  BY <1>1, InvThread, FormedFacts
<1>3. /\ CallInfoOK(e) /\ e.fn = fn /\ e.fresh = fresh /\ ~e.k /\ ~e.ypcall
  BY DEF CallInfo, CallInfoOK
<1>4. /\ IsSeq(c) /\ Len(c) = p + 1 /\ c[p + 1] = e /\ \A i \in 1..p : c[i] = x.th[l].ci[i]
  BY <1>2, AppendFacts
<1>5. z = IF fn # "L" THEN PushC(y, CFunction(l, Len(y.th[l].ci)))
          ELSE IF fresh THEN PushC(y, Exec(l, Len(y.th[l].ci))) ELSE y
  BY <1>2, Zenon DEF luaD_precall, SetCalls, Shaped
<1> HIDE DEF e, c, z, fn
<1>6. /\ Only(x, y, l) /\ y.cs = x.cs /\ y.th[l].ci = c
      /\ y.th[l].status = x.th[l].status /\ y.th[l].nny = x.th[l].nny
  BY <1>2, <1>4, CallsFacts
<1> HIDE DEF y
<1>7. ThreadInv(y.th[l]) /\ Shaped(y, l)
  <2>1. Formed(y.th[l]) /\ Shaped(y, l)
    BY <1>6, OnlyFormed
  <2>2. y.th[l].status = "OK"
    BY <1>1, <1>6
  <2> QED BY <2>1, <2>2, <1>2, <1>3, <1>4, <1>6, ThreadMore, Zenon
<1>8. ASSUME NEW r, z = PushC(y, r), FrameOK(r), r.l = l, r.ci = p + 1,
             r.f \in {"luaV_execute", "C"},
             r.f = "luaV_execute" => fn = "L" /\ fresh
      PROVE  Inv(z)
  <2>1. /\ Only(y, z, l) /\ z.th = y.th /\ IsSeq(z.cs) /\ Len(z.cs) = n + 1
        /\ z.cs[n + 1] = r /\ \A i \in 1..n : z.cs[i] = x.cs[i]
    <3>1. Shaped(y, l) /\ IsSeq(y.cs)
      BY <1>1, <1>6, <1>7
    <3>2. /\ Only(y, z, l) /\ z.th = y.th /\ IsSeq(z.cs) /\ Len(z.cs) = Len(y.cs) + 1
          /\ z.cs[Len(y.cs) + 1] = r /\ \A i \in 1..Len(y.cs) : z.cs[i] = y.cs[i]
      <4>1. z = PushC(y, r)
        BY <1>8
      <4> QED BY <3>1, <4>1, PushCFacts
    <3>3. y.cs = x.cs
      BY <1>6
    <3> QED BY <3>2, <3>3
  <2>2. Only(x, z, l)
    BY <2>1, <1>6, OnlyTransitive, Zenon
  <2>3. Beside(x, z, l)
    BY <2>1, <2>2, <1>7, OnlyBeside
  <2> DEFINE a == x.cs[n]
  <2>4. (a.f = "luaD_call" /\ r.ci = a.ci + 1) \/ a.f = "lua_resume"
        \/ (a.f = "luaV_execute" /\ r.f = "C" /\ a.ci \in Nat /\ a.ci <= p)
    <3>1. a.f = "luaV_execute" => a.ci \in Nat /\ a.ci <= p
      BY TopExecute
    <3> QED BY <3>1, <1>1, <1>8, Zenon
  <2>5. a.l = l
    OBVIOUS
  <2> HIDE DEF a
  <2>6. Follows(z, a, r)
    <3>1. (a.ci \in Nat /\ a.ci <= p) => r.ci > a.ci
      BY <1>2, <1>8
    <3> QED BY <3>1, <2>4, <2>5, <1>8 DEF Follows
  <2>7. z.th[l].ci = c /\ z.th[l].status = x.th[l].status /\ z.th[l].nny = x.th[l].nny
    BY <2>1, <1>6
  <2>8. r.f = "luaV_execute" => z.th[l].ci[p + 1].fresh /\ isLua(z.th[l].ci[p + 1])
    BY <2>7, <1>3, <1>4, <1>8 DEF isLua
  <2>9. z.th[l].nny = x.th[l].nny + (IF r.f = "luaD_call" /\ r.noyield THEN 1 ELSE 0)
    <3>1. x.th[l].nny \in Int
      BY <1>1, InvThread
    <3> QED BY <3>1, <2>7, <1>8
  <2>10. Pushes(x, z, l, r)
    BY <2>1, <2>3, <2>5, <2>6, <2>7, <2>8, <2>9, <1>1, <1>4, <1>8 DEF Pushes, a
  <2> QED BY <2>10, PushesInv
<1>9. Len(y.th[l].ci) = p + 1
  BY <1>4, <1>6
<1>10. CASE fn # "L"
  <2>1. z = PushC(y, CFunction(l, p + 1))
    BY <1>5, <1>9, <1>10, Zenon
  <2>2. /\ FrameOK(CFunction(l, p + 1)) /\ CFunction(l, p + 1).f = "C"
        /\ CFunction(l, p + 1).l = l /\ CFunction(l, p + 1).ci = p + 1
    BY <1>1, <1>2 DEF FrameOK, CFunction
  <2>3. Inv(z)
    BY <2>1, <2>2, <1>8, Zenon
  <2> QED BY <2>3 DEF z
<1>11. CASE fn = "L" /\ fresh
  <2>1. z = PushC(y, Exec(l, p + 1))
    BY <1>5, <1>9, <1>11, Zenon
  <2>2. /\ FrameOK(Exec(l, p + 1)) /\ Exec(l, p + 1).f = "luaV_execute"
        /\ Exec(l, p + 1).l = l /\ Exec(l, p + 1).ci = p + 1
    BY <1>1, <1>2 DEF FrameOK, Exec
  <2>3. Inv(z)
    BY <2>1, <2>2, <1>8, <1>11
  <2> QED BY <2>3 DEF z
<1>12. CASE fn = "L" /\ ~fresh
  <2>1. z = y
    BY <1>5, <1>12
  <2>2. Beside(x, y, l)
    BY <1>6, <1>7, OnlyBeside
  <2>3. CallsLua(x, y, l)
    BY <2>2, <1>1, <1>3, <1>4, <1>6, <1>12 DEF CallsLua, isLua
  <2>4. Inv(z)
    BY <2>1, <2>3, CallsLuaInv
  <2> QED BY <2>4 DEF z
<1> QED BY <1>10, <1>11, <1>12, Zenon

(* The calls that may be on a C stack in the course of another.            *)
MayCallOn(x, noyield) ==
    LET a == x.cs[Len(x.cs)]
        c == ci(x, a.l)
    IN  \/ a.f = "luaV_execute" /\ ~noyield
        \/ /\ a.f = "C" /\ c.fn \in {"pcall", "xpcall", "call", "dofile"}
           /\ (~noyield => c.k)
        \/ a.f = "luaD_pcall" /\ noyield

(* Another nCcalls leaves a thread with its shape.                         *)
LEMMA CcallsFormed ==
    ASSUME NEW t, Formed(t), NEW c
    PROVE  /\ Formed([t EXCEPT !.nCcalls = c])
           /\ [t EXCEPT !.nCcalls = c].status = t.status /\ [t EXCEPT !.nCcalls = c].nny = t.nny
           /\ [t EXCEPT !.nCcalls = c].ci = t.ci /\ [t EXCEPT !.nCcalls = c].stack = t.stack
BY DEF Formed

(* Another nny leaves a thread with its shape.                             *)
LEMMA NnyFormed ==
    ASSUME NEW t, Formed(t), NEW m \in Int
    PROVE  /\ Formed([t EXCEPT !.nny = m])
           /\ [t EXCEPT !.nny = m].status = t.status /\ [t EXCEPT !.nny = m].nny = m
           /\ [t EXCEPT !.nny = m].ci = t.ci /\ [t EXCEPT !.nny = m].stack = t.stack
BY DEF Formed

(* luaD_call and luaD_callnoyield keep the invariant, where they may be    *)
(* called.                                                                 *)
LEMMA DCallInv ==
    ASSUME NEW x, NEW l, Inv(x), Len(x.cs) >= 1, x.cs[Len(x.cs)].l = l,
           NEW nargs \in Int, NEW nresults \in Nat \cup {MULTRET}, NEW noyield \in BOOLEAN,
           MayCallOn(x, noyield), Len(x.th[l].stack) - nargs \in Nat
    PROVE  Inv(luaD_call(x, l, nargs, nresults, noyield))
<1> DEFINE n == Len(x.cs)
           p == Len(x.th[l].ci)
           k == IF noyield THEN 1 ELSE 0
           u == [x.th[l] EXCEPT !.nCcalls = @ + 1, !.nny = @ + k]
           y == [x EXCEPT !.th[l] = u]
           r == DCall(l, p, noyield)
           z == PushC(y, r)
           func == Len(x.th[l].stack) - nargs
<1>1. n \in Nat /\ n >= 1 /\ n \in 1..n /\ IsSeq(x.cs) /\ FrameOK(x.cs[n]) /\ l \in Threads
      /\ x.th[l].status = "OK" /\ (x.cs[n].f \in {"C", "luaD_pcall"} => p = x.cs[n].ci)
  BY InvTop
<1>2. p \in Nat /\ p >= 1 /\ p \in 1..p /\ ThreadInv(x.th[l]) /\ Shaped(x, l)
      /\ Formed(x.th[l]) /\ ci(x, l) = x.th[l].ci[p] /\ x.th[l].nny \in Int
  BY <1>1, InvThread
<1>3. /\ Formed(u) /\ u.status = x.th[l].status /\ u.nny = x.th[l].nny + k
      /\ u.ci = x.th[l].ci /\ u.stack = x.th[l].stack
  <2>1. x.th[l].nny + k \in Int
    BY <1>2
  <2> DEFINE t == x.th[l]
             c == t.nCcalls + 1
             m == t.nny + k
             v == [t EXCEPT !.nCcalls = c]
  <2>2. u = [v EXCEPT !.nny = m]
    OBVIOUS
  <2> HIDE DEF c, m, u
  <2>3. Formed(t) /\ m \in Int
    BY <2>1, <1>2 DEF m
  <2> HIDE DEF t
  <2>4. Formed(v) /\ v.status = t.status /\ v.ci = t.ci /\ v.stack = t.stack
    BY <2>3, CcallsFormed
  <2> HIDE DEF v
  <2>5. Formed(u) /\ u.status = v.status /\ u.nny = m /\ u.ci = v.ci /\ u.stack = v.stack
    BY <2>2, <2>3, <2>4, NnyFormed
  <2> QED BY <2>4, <2>5 DEF t, m
<1>4. luaD_call(x, l, nargs, nresults, noyield) = luaD_precall(z, l, func, nresults, TRUE)
  <2> HIDE DEF k
  <2>1. [x EXCEPT !.th[l].nCcalls = @ + 1, !.th[l].nny = @ + k] = y
    BY <1>2, ZenonT(40) DEF Shaped
  <2> QED BY <2>1 DEF luaD_call, k
<1>5. FrameOK(r) /\ r.f = "luaD_call" /\ r.l = l /\ r.ci = p /\ r.noyield = noyield
  BY <1>1, <1>2 DEF FrameOK, DCall
<1>6. func \in Nat
  OBVIOUS
<1> HIDE DEF u, r, func
<1>7. Only(x, y, l) /\ y.cs = x.cs /\ y.th[l] = u
  <2>1. Shaped(x, l) /\ Formed(u)
    BY <1>2, <1>3
  <2>2. SetsThread(x, SetThread(x, l, u), l, u)
    BY <2>1, ThreadSet, Zenon
  <2>3. SetThread(x, l, u) = y
    BY DEF SetThread
  <2> HIDE DEF y
  <2>4. SetsThread(x, y, l, u)
    BY <2>2, <2>3, Zenon
  <2> QED BY <2>4 DEF SetsThread
<1>8. Shaped(y, l)
  BY <1>7, OnlyFormed
<1> HIDE DEF y
<1>9. /\ Only(y, z, l) /\ z.th = y.th /\ IsSeq(z.cs) /\ Len(z.cs) = n + 1
      /\ z.cs[n + 1] = r /\ \A i \in 1..n : z.cs[i] = x.cs[i]
  BY <1>1, <1>7, <1>8, PushCFacts
<1> HIDE DEF z
<1>10. ThreadInv(z.th[l]) /\ z.th[l] = u
  <2>1. z.th[l] = u
    BY <1>7, <1>9, Zenon
  <2>2. ThreadInv(u)
    BY <1>1, <1>2, <1>3, ThreadPrefix
  <2> QED BY <2>1, <2>2
<1>11. Beside(x, z, l)
  BY <1>7, <1>9, <1>10, OnlyTransitive, OnlyBeside
<1> DEFINE a == x.cs[n]
<1>12. a.l = l /\ \/ a.f = "luaV_execute" /\ ~noyield /\ a.ci <= p
                  \/ /\ a.f = "C" /\ x.th[l].ci[p].fn \in {"pcall", "xpcall", "call", "dofile"}
                     /\ (~noyield => x.th[l].ci[p].k) /\ a.ci = p
                  \/ a.f = "luaD_pcall" /\ noyield /\ a.ci = p
  <2>1. a.f = "luaV_execute" => a.ci <= p
    BY TopExecute, Zenon
  <2> QED BY <2>1, <1>1, <1>2, Zenon DEF MayCallOn
<1> HIDE DEF a
<1>13. Follows(z, a, r)
  <2>1. z.th[l].ci = x.th[l].ci
    BY <1>3, <1>10
  <2> QED BY <2>1, <1>2, <1>5, <1>12, Zenon DEF Follows, FrameOK
<1>14. Pushes(x, z, l, r)
  <2>1. /\ z.th[l].status = x.th[l].status
        /\ z.th[l].nny = x.th[l].nny + (IF r.f = "luaD_call" /\ r.noyield THEN 1 ELSE 0)
    BY <1>3, <1>5, <1>10
  <2>2. Len(z.th[l].ci) = p /\ z.th[l].ci = x.th[l].ci
    BY <1>3, <1>10
  <2>3. (a.f = "C" /\ r.f = "luaD_call" /\ ~r.noyield) => Fine(x.th[l].ci[p])
    BY <1>5, <1>12 DEF Fine
  <2> QED BY <2>1, <2>2, <2>3, <1>1, <1>5, <1>9, <1>11, <1>12, <1>13 DEF Pushes, a
<1>15. Inv(z)
  BY <1>14, PushesInv
<1>16. Len(z.cs) >= 1 /\ z.cs[Len(z.cs)].l = l /\ z.cs[Len(z.cs)].f = "luaD_call"
  BY <1>1, <1>5, <1>9
<1>17. Inv(luaD_precall(z, l, func, nresults, TRUE))
  BY <1>6, <1>15, <1>16, PrecallInv
<1> QED BY <1>4, <1>17, Zenon

(* The last call info set anew.                                            *)
LEMMA ThreadLast ==
    ASSUME NEW t, NEW u, ThreadInv(t), Formed(u), u.status = "OK", Len(t.ci) >= 2,
           Len(u.ci) = Len(t.ci), \A i \in 1..(Len(t.ci) - 1) : u.ci[i] = t.ci[i],
           CallInfoOK(u.ci[Len(t.ci)]), Continues(u.ci[Len(t.ci)]),
           u.ci[Len(t.ci)].k => \A i \in 2..(Len(t.ci) - 1) : Fine(t.ci[i])
    PROVE  ThreadInv(u)
<1> DEFINE p == Len(t.ci)
<1>1. p \in Nat
  BY DEF ThreadInv, ThreadOK, IsSeq
<1>2. \A i \in 1..p : i \in 1..(p - 1) \/ i = p
  BY <1>1
<1>3. \A i \in 2..p : (i \in 2..p /\ i \in 1..(p - 1)) \/ i = p
  BY <1>1
<1>4. 1 \in 1..(p - 1)
  BY <1>1
<1>5. \A i \in 2..p : \A j \in 2..(i - 1) : j \in 1..(p - 1)
  BY <1>1
<1>5a. \A i \in 1..(p - 1) : i \in 1..p
  BY <1>1
<1>6. ThreadOK(u)
  <2>1. \A i \in 1..p : CallInfoOK(u.ci[i])
    BY <1>2, <1>5a DEF ThreadInv, ThreadOK
  <2> QED BY <2>1 DEF ThreadOK, Formed
<1>7. u.ci[1].fn = "base" /\ u.ci[1].func = 1 /\ ~u.ci[1].ypcall
  BY <1>4 DEF ThreadInv, CallsOK
<1>8. ASSUME NEW i \in 2..p PROVE Continues(u.ci[i])
  <2>1. CASE i = p
    BY <2>1
  <2>2. CASE i # p
    BY <2>2, <1>3 DEF ThreadInv, CallsOK
  <2> QED BY <2>1, <2>2
<1>9. ASSUME NEW i \in 2..p, u.ci[i].k PROVE \A j \in 2..(i - 1) : Fine(u.ci[j])
  <2>1. \A j \in 2..(i - 1) : Fine(t.ci[j])
    <3>1. CASE i = p
      BY <3>1, <1>9
    <3>2. CASE i # p
      <4>1. t.ci[i].k
        BY <3>2, <1>3, <1>9
      <4> QED BY <4>1 DEF ThreadInv, CallsOK
    <3> QED BY <3>1, <3>2
  <2> QED BY <2>1, <1>5
<1>10. CallsOK(u)
  BY <1>7, <1>8, <1>9 DEF CallsOK
<1> QED BY <1>6, <1>10 DEF ThreadInv

(* The last call info of the thread that runs may become c.                *)
MayBecome(x, l, c) ==
    /\ Inv(x) /\ Len(x.cs) >= 1 /\ x.cs[Len(x.cs)].l = l /\ Len(x.th[l].ci) >= 2
    /\ CallInfoOK(c) /\ Continues(c)
    /\ c.fn = ci(x, l).fn /\ (Fine(ci(x, l)) => Fine(c))
    /\ c.fresh = ci(x, l).fresh \/ x.cs[Len(x.cs)].f = "lua_resume"
    /\ c.k => \A i \in 2..(Len(x.th[l].ci) - 1) : Fine(x.th[l].ci[i])

(* A last call info that may become c keeps the invariant as it does.      *)
LEMMA SetCiInv ==
    ASSUME NEW x, NEW l, NEW c, MayBecome(x, l, c)
    PROVE  /\ Inv(SetCi(x, l, c)) /\ ci(SetCi(x, l, c), l) = c
           /\ Shaped(SetCi(x, l, c), l)
<1> DEFINE n == Len(x.cs)
           p == Len(x.th[l].ci)
           y == SetCi(x, l, c)
<1>0a. Inv(x) /\ Len(x.cs) >= 1 /\ x.cs[Len(x.cs)].l = l /\ Len(x.th[l].ci) >= 2
  BY DEF MayBecome
<1>0. /\ CallInfoOK(c) /\ Continues(c)
      /\ c.fn = ci(x, l).fn /\ (Fine(ci(x, l)) => Fine(c))
      /\ c.fresh = ci(x, l).fresh \/ x.cs[n].f = "lua_resume"
      /\ c.k => \A i \in 2..(p - 1) : Fine(x.th[l].ci[i])
  BY Zenon DEF MayBecome
<1>1. n \in Nat /\ n \in 1..n /\ l \in Threads /\ x.th[l].status = "OK" /\ InChain(x, l)
  BY <1>0a, InvTop, Zenon
<1>2. p \in Nat /\ ThreadInv(x.th[l]) /\ Shaped(x, l) /\ ci(x, l) = x.th[l].ci[p]
  BY <1>0a, <1>1, InvThread, Zenon
<1>3. /\ Only(x, y, l) /\ y.cs = x.cs
      /\ y.th[l].status = x.th[l].status /\ y.th[l].nny = x.th[l].nny
      /\ y.th[l].stack = x.th[l].stack
      /\ Len(y.th[l].ci) = p /\ y.th[l].ci[p] = c
      /\ \A i \in 1..(p - 1) : y.th[l].ci[i] = x.th[l].ci[i]
  BY <1>2, SetCiFacts
<1> HIDE DEF y
<1>4. Formed(y.th[l]) /\ Shaped(y, l)
  BY <1>3, OnlyFormed, Zenon
<1>5. ThreadInv(y.th[l])
  BY <1>0, <1>1, <1>2, <1>3, <1>4, <1>0a, ThreadLast
<1>6. Beside(x, y, l)
  BY <1>3, <1>5, OnlyBeside, Zenon
<1>7. \A i \in 1..p : i \in 1..(p - 1) \/ i = p
  BY <1>2
<1>8a. ASSUME NEW i \in 1..p
       PROVE  /\ y.th[l].ci[i].fn = x.th[l].ci[i].fn
              /\ Fine(x.th[l].ci[i]) => Fine(y.th[l].ci[i])
              /\ c.fresh = ci(x, l).fresh => y.th[l].ci[i].fresh = x.th[l].ci[i].fresh
  <2>1. CASE i = p
    <3>1. y.th[l].ci[i] = c /\ x.th[l].ci[i] = ci(x, l)
      BY <2>1, <1>2, <1>3
    <3> QED BY <3>1, <1>0
  <2>2. CASE i # p
    <3>1. y.th[l].ci[i] = x.th[l].ci[i]
      BY <2>2, <1>3, <1>7, Zenon
    <3> QED BY <3>1, Zenon
  <2> QED BY <2>1, <2>2
<1>8. Modifies(x, y, l)
  <2> HIDE DEF p
  <2>1. \A i \in 1..p : y.th[l].ci[i].fn = x.th[l].ci[i].fn
                        /\ (Fine(x.th[l].ci[i]) => Fine(y.th[l].ci[i]))
    BY <1>8a, Zenon
  <2>2. c.fresh = ci(x, l).fresh => \A i \in 1..p : y.th[l].ci[i].fresh = x.th[l].ci[i].fresh
    BY <1>8a, Zenon
  <2>3. \/ \A i \in 1..p : y.th[l].ci[i].fresh = x.th[l].ci[i].fresh
        \/ Len(x.cs) >= 1 /\ x.cs[Len(x.cs)].f = "lua_resume" /\ x.cs[Len(x.cs)].l = l
    BY <2>2, <1>0, <1>0a, <1>1, Zenon
  <2> QED BY <2>1, <2>3, <1>1, <1>3, <1>6, Zenon DEF Modifies, p
<1>9. ci(y, l) = c
  BY <1>3, <1>4, FormedFacts
<1>10. Inv(y)
  BY <1>0a, <1>8, ModifiesInv
<1> QED BY <1>4, <1>9, <1>10 DEF y

(* A field of a call info set anew.                                        *)
With_ypcall(c, b) == [c EXCEPT !.ypcall = b]

(* What is left of a call info whose ypcall is set.                        *)
LEMMA Sets_ypcall ==
    ASSUME NEW c, CallInfoOK(c), NEW b \in BOOLEAN
    PROVE  LET d == With_ypcall(c, b)
           IN  /\ CallInfoOK(d) /\ d.ypcall = b
               /\ d.fn = c.fn /\ d.func = c.func /\ d.nresults = c.nresults
               /\ d.fresh = c.fresh /\ d.k = c.k /\ d.extra = c.extra
               /\ d.old_errfunc = c.old_errfunc
<1> DEFINE d == With_ypcall(c, b)
<1>1. d = [fn |-> c.fn, func |-> c.func, nresults |-> c.nresults, fresh |-> c.fresh,
            k |-> c.k, ypcall |-> b, extra |-> c.extra, old_errfunc |-> c.old_errfunc]
  BY DEF CallInfoOK, With_ypcall
<1> HIDE DEF d
<1>2. /\ d.ypcall = b
      /\ d.fn = c.fn /\ d.func = c.func /\ d.nresults = c.nresults /\ d.fresh = c.fresh
      /\ d.k = c.k /\ d.extra = c.extra /\ d.old_errfunc = c.old_errfunc
  BY <1>1
<1>3. CallInfoOK(d)
  BY <1>1, <1>2 DEF CallInfoOK
<1> QED BY <1>2, <1>3 DEF d

With_k(c, b) == [c EXCEPT !.k = b]

(* What is left of a call info whose continuation is set.                  *)
LEMMA Sets_k ==
    ASSUME NEW c, CallInfoOK(c), NEW b \in BOOLEAN
    PROVE  LET d == With_k(c, b)
           IN  /\ CallInfoOK(d) /\ d.k = b
               /\ d.fn = c.fn /\ d.func = c.func /\ d.nresults = c.nresults
               /\ d.fresh = c.fresh /\ d.ypcall = c.ypcall /\ d.extra = c.extra
               /\ d.old_errfunc = c.old_errfunc
<1> DEFINE d == With_k(c, b)
<1>1. d = [fn |-> c.fn, func |-> c.func, nresults |-> c.nresults, fresh |-> c.fresh, k |-> b,
            ypcall |-> c.ypcall, extra |-> c.extra, old_errfunc |-> c.old_errfunc]
  BY DEF CallInfoOK, With_k
<1> HIDE DEF d
<1>2. /\ d.k = b
      /\ d.fn = c.fn /\ d.func = c.func /\ d.nresults = c.nresults /\ d.fresh = c.fresh
      /\ d.ypcall = c.ypcall /\ d.extra = c.extra /\ d.old_errfunc = c.old_errfunc
  BY <1>1
<1>3. CallInfoOK(d)
  BY <1>1, <1>2 DEF CallInfoOK
<1> QED BY <1>2, <1>3 DEF d

With_fresh(c, b) == [c EXCEPT !.fresh = b]

(* What is left of a call info whose fresh is set.                         *)
LEMMA Sets_fresh ==
    ASSUME NEW c, CallInfoOK(c), NEW b \in BOOLEAN
    PROVE  LET d == With_fresh(c, b)
           IN  /\ CallInfoOK(d) /\ d.fresh = b
               /\ d.fn = c.fn /\ d.func = c.func /\ d.nresults = c.nresults /\ d.k = c.k
               /\ d.ypcall = c.ypcall /\ d.extra = c.extra /\ d.old_errfunc = c.old_errfunc
<1> DEFINE d == With_fresh(c, b)
<1>1. d = [fn |-> c.fn, func |-> c.func, nresults |-> c.nresults, fresh |-> b, k |-> c.k,
            ypcall |-> c.ypcall, extra |-> c.extra, old_errfunc |-> c.old_errfunc]
  BY DEF CallInfoOK, With_fresh
<1> HIDE DEF d
<1>2. /\ d.fresh = b
      /\ d.fn = c.fn /\ d.func = c.func /\ d.nresults = c.nresults /\ d.k = c.k
      /\ d.ypcall = c.ypcall /\ d.extra = c.extra /\ d.old_errfunc = c.old_errfunc
  BY <1>1
<1>3. CallInfoOK(d)
  BY <1>1, <1>2 DEF CallInfoOK
<1> QED BY <1>2, <1>3 DEF d

With_extra(c, b) == [c EXCEPT !.extra = b]

(* What is left of a call info whose extra is set.                         *)
LEMMA Sets_extra ==
    ASSUME NEW c, CallInfoOK(c), NEW b \in Nat
    PROVE  LET d == With_extra(c, b)
           IN  /\ CallInfoOK(d) /\ d.extra = b
               /\ d.fn = c.fn /\ d.func = c.func /\ d.nresults = c.nresults
               /\ d.fresh = c.fresh /\ d.k = c.k /\ d.ypcall = c.ypcall
               /\ d.old_errfunc = c.old_errfunc
<1> DEFINE d == With_extra(c, b)
<1>1. d = [fn |-> c.fn, func |-> c.func, nresults |-> c.nresults, fresh |-> c.fresh,
            k |-> c.k, ypcall |-> c.ypcall, extra |-> b, old_errfunc |-> c.old_errfunc]
  BY DEF CallInfoOK, With_extra
<1> HIDE DEF d
<1>2. /\ d.extra = b
      /\ d.fn = c.fn /\ d.func = c.func /\ d.nresults = c.nresults /\ d.fresh = c.fresh
      /\ d.k = c.k /\ d.ypcall = c.ypcall /\ d.old_errfunc = c.old_errfunc
  BY <1>1
<1>3. CallInfoOK(d)
  BY <1>1, <1>2 DEF CallInfoOK
<1> QED BY <1>2, <1>3 DEF d

With_func(c, b) == [c EXCEPT !.func = b]

(* What is left of a call info whose func is set.                          *)
LEMMA Sets_func ==
    ASSUME NEW c, CallInfoOK(c), NEW b \in Nat
    PROVE  LET d == With_func(c, b)
           IN  /\ CallInfoOK(d) /\ d.func = b
               /\ d.fn = c.fn /\ d.nresults = c.nresults /\ d.fresh = c.fresh
               /\ d.k = c.k /\ d.ypcall = c.ypcall /\ d.extra = c.extra
               /\ d.old_errfunc = c.old_errfunc
<1> DEFINE d == With_func(c, b)
<1>1. d = [fn |-> c.fn, func |-> b, nresults |-> c.nresults, fresh |-> c.fresh, k |-> c.k,
            ypcall |-> c.ypcall, extra |-> c.extra, old_errfunc |-> c.old_errfunc]
  BY DEF CallInfoOK, With_func
<1> HIDE DEF d
<1>2. /\ d.func = b
      /\ d.fn = c.fn /\ d.nresults = c.nresults /\ d.fresh = c.fresh /\ d.k = c.k
      /\ d.ypcall = c.ypcall /\ d.extra = c.extra /\ d.old_errfunc = c.old_errfunc
  BY <1>1
<1>3. CallInfoOK(d)
  BY <1>1, <1>2 DEF CallInfoOK
<1> QED BY <1>2, <1>3 DEF d

With_old_errfunc(c, b) == [c EXCEPT !.old_errfunc = b]

(* What is left of a call info whose old_errfunc is set.                   *)
LEMMA Sets_old_errfunc ==
    ASSUME NEW c, CallInfoOK(c), NEW b
    PROVE  LET d == With_old_errfunc(c, b)
           IN  /\ CallInfoOK(d) /\ d.old_errfunc = b
               /\ d.fn = c.fn /\ d.func = c.func /\ d.nresults = c.nresults
               /\ d.fresh = c.fresh /\ d.k = c.k /\ d.ypcall = c.ypcall /\ d.extra = c.extra
<1> DEFINE d == With_old_errfunc(c, b)
<1>1. d = [fn |-> c.fn, func |-> c.func, nresults |-> c.nresults, fresh |-> c.fresh,
            k |-> c.k, ypcall |-> c.ypcall, extra |-> c.extra, old_errfunc |-> b]
  BY DEF CallInfoOK, With_old_errfunc
<1> HIDE DEF d
<1>2. /\ d.old_errfunc = b
      /\ d.fn = c.fn /\ d.func = c.func /\ d.nresults = c.nresults /\ d.fresh = c.fresh
      /\ d.k = c.k /\ d.ypcall = c.ypcall /\ d.extra = c.extra
  BY <1>1
<1>3. CallInfoOK(d)
  BY <1>1, <1>2 DEF CallInfoOK
<1> QED BY <1>2, <1>3 DEF d

SetErrfunc(x, l, e) == [x EXCEPT !.th[l].errfunc = e]

(* The invariant does not tell the error function.                         *)
LEMMA SetErrfuncFacts ==
    ASSUME NEW x, NEW l, Shaped(x, l), NEW e
    PROVE  Likewise(x, SetErrfunc(x, l, e), l) /\ SetErrfunc(x, l, e).th[l].stack = x.th[l].stack
BY ErrfuncFacts DEF SetErrfunc

(* EndYpcall keeps the calls, but for the place of the protected call.     *)
LEMMA EndYpcallInv ==
    ASSUME NEW x, NEW l, Inv(x), Len(x.cs) >= 1, x.cs[Len(x.cs)].l = l,
           Len(x.th[l].ci) >= 2
    PROVE  LET y == EndYpcall(x, l)
           IN  /\ Inv(y) /\ y.cs = x.cs /\ Len(y.th[l].ci) = Len(x.th[l].ci)
               /\ ci(y, l).fn = ci(x, l).fn
<1> DEFINE p == Len(x.th[l].ci)
           c == ci(x, l)
           d == With_ypcall(c, FALSE)
           z == SetCi(x, l, d)
           e == c.old_errfunc
<1>1. l \in Threads /\ x.th[l].status = "OK" /\ InChain(x, l)
  BY InvTop
<1>2. /\ p \in Nat /\ ThreadInv(x.th[l]) /\ Shaped(x, l) /\ c = x.th[l].ci[p] /\ CallInfoOK(c)
  BY <1>1, InvThread
<1>3. CASE ~c.ypcall
  BY <1>3 DEF EndYpcall
<1>4. CASE c.ypcall
  <2>1. EndYpcall(x, l) = SetErrfunc(z, l, e)
    BY <1>4 DEF EndYpcall, SetErrfunc, With_ypcall
  <2>2. p \in 2..p
    BY <1>2
  <2>3. Continues(c) /\ (c.k => \A i \in 2..(p - 1) : Fine(x.th[l].ci[i]))
    BY <2>2, <1>2, Zenon DEF ThreadInv, CallsOK
  <2> HIDE DEF c, e
  <2>4. /\ d.fn = c.fn /\ d.k = c.k /\ ~d.ypcall /\ d.fresh = c.fresh /\ CallInfoOK(d)
    BY <1>2, Sets_ypcall
  <2> HIDE DEF d
  <2>5. Continues(d) /\ (Fine(c) => Fine(d))
    BY <2>3, <2>4, Zenon DEF Continues, Fine, isLua
  <2>6. Inv(z) /\ ci(z, l) = d /\ Shaped(z, l)
    <3>1. MayBecome(x, l, d)
      BY <2>3, <2>4, <2>5, Zenon DEF MayBecome, c
    <3> QED BY <3>1, SetCiInv
  <2>7. z.cs = x.cs /\ Len(z.th[l].ci) = p
    BY <1>2, SetCiFacts
  <2> HIDE DEF z
  <2> DEFINE y == SetErrfunc(z, l, e)
  <2>8. Likewise(z, y, l) /\ y.th[l].stack = z.th[l].stack
    BY <2>6, SetErrfuncFacts
  <2>9. InChain(z, l)
    BY <1>1, <2>7 DEF InChain
  <2>10. Inv(y)
    BY <2>6, <2>8, <2>9, LikewiseInv
  <2>11. ci(y, l) = ci(z, l) /\ y.cs = x.cs /\ Len(y.th[l].ci) = p
    BY <2>7, <2>8 DEF Likewise, ci
  <2> HIDE DEF y
  <2>12. ci(y, l).fn = ci(x, l).fn
    BY <2>4, <2>6, <2>11, Zenon DEF c
  <2> QED BY <2>1, <2>10, <2>11, <2>12 DEF y
<1> QED BY <1>3, <1>4, Zenon

(* luaD_poscall, and the frame of the call.                                *)
LEMMA PoscallShortens ==
    ASSUME NEW x, NEW l, Inv(x), Len(x.cs) >= 1, x.cs[Len(x.cs)].l = l,
           Len(x.th[l].ci) >= 2, NEW v, IsSeq(v)
    PROVE  LET y == luaD_poscall(x, l, v)
           IN  /\ Shortened(x, y, l, Len(x.cs), Len(x.th[l].ci) - 1)
               /\ y.th[l].nny = x.th[l].nny /\ Shaped(y, l) /\ y.cs = x.cs
<1>1. l \in Threads /\ IsSeq(x.cs)
  BY InvTop
<1>2. Shaped(x, l) /\ CallInfoOK(ci(x, l))
  BY <1>1, InvThread
<1> DEFINE y == luaD_poscall(x, l, v)
<1>3. /\ Only(x, y, l) /\ y.cs = x.cs
      /\ y.th[l].status = x.th[l].status /\ y.th[l].nny = x.th[l].nny
      /\ Len(y.th[l].ci) = Len(x.th[l].ci) - 1
      /\ \A i \in 1..(Len(x.th[l].ci) - 1) : y.th[l].ci[i] = x.th[l].ci[i]
  BY <1>2, PoscallFacts
<1> HIDE DEF y
<1>4. Shaped(y, l)
  BY <1>3, OnlyFormed
<1>5. Shortened(x, y, l, Len(x.cs), Len(x.th[l].ci) - 1)
  BY <1>1, <1>3 DEF Shortened
<1> QED BY <1>3, <1>4, <1>5 DEF y

(* A function that returns, and its frame with it, keeps the invariant.    *)
LEMMA ReturnInv ==
    ASSUME NEW x, NEW l, Inv(x), Len(x.cs) >= 1, x.cs[Len(x.cs)].l = l,
           x.cs[Len(x.cs)].f \in {"luaV_execute", "C"},
           x.cs[Len(x.cs)].ci = Len(x.th[l].ci), NEW v, IsSeq(v)
    PROVE  Inv(PopC(luaD_poscall(x, l, v)))
<1> DEFINE n == Len(x.cs)
           p == Len(x.th[l].ci)
           y == luaD_poscall(x, l, v)
           z == PopC(y)
<1>1. n \in Nat /\ IsSeq(x.cs) /\ FrameOK(x.cs[n])
  BY InvTop
<1>2. p >= 2
  BY <1>1 DEF FrameOK
<1>3. /\ Shortened(x, y, l, n, p - 1) /\ y.th[l].nny = x.th[l].nny /\ Shaped(y, l) /\ y.cs = x.cs
  BY <1>2, PoscallShortens
<1> HIDE DEF y
<1>4. /\ Only(y, z, l) /\ z.th = y.th /\ IsSeq(z.cs) /\ Len(z.cs) = n - 1
      /\ \A i \in 1..(n - 1) : z.cs[i] = x.cs[i]
  BY <1>1, <1>3, PopCFacts
<1> HIDE DEF z
<1>5. Only(x, z, l)
  BY <1>3, <1>4, OnlyTransitive DEF Shortened
<1>6. Shortened(x, z, l, n - 1, p - 1) /\ z.th[l].nny = x.th[l].nny
  BY <1>3, <1>4, <1>5 DEF Shortened
<1>7. Inv(z)
  BY <1>6, PopsCallInv
<1> QED BY <1>7 DEF z, y

(* A C function that returns keeps the invariant.                          *)
LEMMA CReturnInv ==
    ASSUME NEW x, NEW l, Inv(x), Len(x.cs) >= 1, x.cs[Len(x.cs)].l = l,
           x.cs[Len(x.cs)].f = "C", NEW n \in Int
    PROVE  Inv(CReturn(x, l, n))
<1>1. l \in Threads /\ x.cs[Len(x.cs)].ci = Len(x.th[l].ci)
  BY InvTop
<1>2. IsSeq(LastOf(x.th[l].stack, n))
  BY <1>1, InvThread, LastOfFacts DEF Formed
<1> QED BY <1>1, <1>2, ReturnInv DEF CReturn

(* Frames of luaD_pcall and of luaD_call that are left.                    *)
UpTo(y, x, n) == Len(y.cs) = n /\ \A i \in 1..n : y.cs[i] = x.cs[i]

(* luaD_pcall returns, and the invariant holds.                            *)
LEMMA PcallDoneInv ==
    ASSUME NEW x, NEW l, Inv(x), Len(x.cs) >= 1, x.cs[Len(x.cs)].l = l,
           x.cs[Len(x.cs)].f = "luaD_pcall", NEW e
    PROVE  LET y == PopC(SetErrfunc(x, l, e))
           IN  Inv(y) /\ UpTo(y, x, Len(x.cs) - 1)
<1> DEFINE n == Len(x.cs)
           p == Len(x.th[l].ci)
           z == SetErrfunc(x, l, e)
           y == PopC(z)
<1>1. n \in Nat /\ IsSeq(x.cs) /\ l \in Threads
  BY InvTop
<1>2. Shaped(x, l) /\ x.th[l].nny \in Int
  BY <1>1, InvThread
<1>3. Likewise(x, z, l)
  BY <1>2, SetErrfuncFacts
<1> HIDE DEF z
<1>4. Shaped(z, l) /\ z.cs = x.cs
  BY <1>3, OnlyFormed DEF Likewise
<1>5. /\ Only(z, y, l) /\ y.th = z.th /\ IsSeq(y.cs) /\ Len(y.cs) = n - 1
      /\ \A i \in 1..(n - 1) : y.cs[i] = x.cs[i]
  BY <1>1, <1>4, PopCFacts
<1> HIDE DEF y
<1>6. Only(x, y, l)
  BY <1>3, <1>5, OnlyTransitive DEF Likewise
<1>7. Shortened(x, y, l, n - 1, p)
  BY <1>3, <1>5, <1>6 DEF Shortened, Likewise
<1>8. y.th[l].nny = x.th[l].nny - 0
  BY <1>2, <1>3, <1>5 DEF Likewise
<1>9. Inv(y)
  BY <1>7, <1>8, PopsFrameInv
<1>10. UpTo(y, x, n - 1)
  BY <1>5 DEF UpTo
<1> QED BY <1>9, <1>10 DEF y, z

(* luaD_call returns, and the invariant holds.                             *)
LEMMA CallDoneInv ==
    ASSUME NEW x, NEW l, Inv(x), Len(x.cs) >= 1, x.cs[Len(x.cs)].l = l,
           x.cs[Len(x.cs)].f = "luaD_call"
    PROVE  LET y == CallDone(x, l)
               n == Len(x.cs)
           IN  /\ Inv(y) /\ Len(y.cs) = n - 1 /\ (\A i \in 1..(n - 1) : y.cs[i] = x.cs[i])
               /\ y.th[l].ci = x.th[l].ci
<1> DEFINE n == Len(x.cs)
           p == Len(x.th[l].ci)
           r == x.cs[n]
           k == IF r.noyield THEN 1 ELSE 0
           t == x.th[l]
           c == t.nCcalls - 1
           m == t.nny - k
           v == [t EXCEPT !.nCcalls = c]
           u == [v EXCEPT !.nny = m]
           z == [x EXCEPT !.th[l] = u]
           y == PopC(z)
<1>1. n \in Nat /\ n \in 1..n /\ IsSeq(x.cs) /\ l \in Threads /\ Last(x.cs) = r
  BY InvTop
<1>2. Shaped(x, l) /\ Formed(t) /\ t.nny \in Int
  BY <1>1, InvThread
<1>3. CallDone(x, l) = y
  <2>1. CallDone(x, l) = PopC([x EXCEPT !.th[l].nCcalls = @ - 1, !.th[l].nny = @ - k])
    BY <1>1, Zenon DEF CallDone
  <2> HIDE DEF k
  <2>2. [x EXCEPT !.th[l].nCcalls = @ - 1, !.th[l].nny = @ - k] = z
    BY <1>2, ZenonT(40) DEF Shaped
  <2> QED BY <2>1, <2>2
<1>4. m \in Int
  BY <1>2
<1> HIDE DEF c, m, k
<1>5. Formed(v) /\ v.status = t.status /\ v.ci = t.ci /\ v.stack = t.stack
  BY <1>2, CcallsFormed, Zenon
<1> HIDE DEF v
<1>6. Formed(u) /\ u.status = v.status /\ u.nny = m /\ u.ci = v.ci /\ u.stack = v.stack
  BY <1>4, <1>5, NnyFormed
<1> HIDE DEF u
<1>7. Only(x, z, l) /\ z.cs = x.cs /\ z.th[l] = u
  BY <1>2, <1>6, NewThread
<1> HIDE DEF z
<1>8. Shaped(z, l)
  BY <1>7, OnlyFormed
<1>9. /\ Only(z, y, l) /\ y.th = z.th /\ IsSeq(y.cs) /\ Len(y.cs) = n - 1
      /\ \A i \in 1..(n - 1) : y.cs[i] = x.cs[i]
  BY <1>1, <1>7, <1>8, PopCFacts
<1> HIDE DEF y
<1>10. Only(x, y, l)
  BY <1>7, <1>9, OnlyTransitive
<1>11. y.th[l] = u
  BY <1>7, <1>9
<1>12. Shortened(x, y, l, n - 1, p)
  BY <1>5, <1>6, <1>9, <1>10, <1>11 DEF Shortened
<1>13. y.th[l].nny = x.th[l].nny - (IF r.f = "luaD_call" /\ r.noyield THEN 1 ELSE 0)
  BY <1>6, <1>11, Zenon DEF m, k
<1>14. Inv(y)
  BY <1>12, <1>13, PopsFrameInv
<1> QED BY <1>3, <1>5, <1>6, <1>9, <1>11, <1>14

-----------------------------------------------------------------------------
(* The calls of the interface.                                             *)

(* The calls of the running thread stay the same.                          *)
LEMMA LikewiseTop ==
    ASSUME NEW x, NEW y, NEW l, Inv(x), Len(x.cs) >= 1, x.cs[Len(x.cs)].l = l,
           Likewise(x, y, l)
    PROVE  /\ Inv(y) /\ y.cs = x.cs /\ Len(y.th[l].ci) = Len(x.th[l].ci)
           /\ ci(y, l) = ci(x, l)
<1>1. InChain(x, l)
  BY InvTop
<1>2. Inv(y)
  BY <1>1, LikewiseInv
<1>3. y.cs = x.cs /\ y.th[l].ci = x.th[l].ci
  BY DEF Likewise
<1> QED BY <1>2, <1>3 DEF ci

(* lua_callk keeps the place of the call when it has a continuation.       *)
LEMMA CallkInv ==
    ASSUME NEW x, NEW l, Inv(x), Len(x.cs) >= 1, x.cs[Len(x.cs)].l = l,
           x.cs[Len(x.cs)].f = "C", NEW k \in BOOLEAN,
           NEW nargs \in Int, NEW nresults \in Nat \cup {MULTRET},
           ci(x, l).fn \in {"call", "dofile"}, k => ci(x, l).fn = "dofile",
           Len(x.th[l].stack) - nargs \in Nat
    PROVE  Inv(lua_callk(x, l, nargs, nresults, k))
<1> DEFINE n == Len(x.cs)
           p == Len(x.th[l].ci)
<1>1. l \in Threads /\ FrameOK(x.cs[n]) /\ x.cs[n].ci = p
  BY InvTop, Zenon
<1>2. /\ p \in Nat /\ ThreadInv(x.th[l]) /\ Shaped(x, l) /\ x.th[l].nny \in Int
      /\ ci(x, l) = x.th[l].ci[p] /\ CallInfoOK(ci(x, l))
  BY <1>1, InvThread, Zenon
<1>3. p >= 2
  BY <1>1 DEF FrameOK
<1>4. CASE k /\ x.th[l].nny = 0
  <2> DEFINE c == ci(x, l)
             d == With_k(c, TRUE)
             y == SetCi(x, l, d)
  <2>1. lua_callk(x, l, nargs, nresults, k) = luaD_call(y, l, nargs, nresults, FALSE)
    BY <1>4 DEF lua_callk, With_k
  <2>2. \A i \in 2..(p - 1) : Fine(x.th[l].ci[i])
    <3>1. ~(x.th[l].nny > 0)
      BY <1>4
    <3> QED BY <3>1, MayYield
  <2>3. p \in 2..p
    BY <1>2, <1>3
  <2>4. Continues(c)
    BY <2>3, <1>2, Zenon DEF ThreadInv, CallsOK
  <2> HIDE DEF c
  <2>5. CallInfoOK(d) /\ d.k /\ d.fn = c.fn /\ d.fresh = c.fresh /\ d.ypcall = c.ypcall
    BY <1>2, Sets_k DEF c
  <2> HIDE DEF d
  <2>6. Continues(d) /\ Fine(d)
    <3>1. c.fn = "dofile"
      BY <1>4 DEF c
    <3> QED BY <3>1, <2>4, <2>5 DEF Continues, Fine
  <2>7. Inv(y) /\ ci(y, l) = d
    <3>1. /\ d.fn = ci(x, l).fn /\ d.fresh = ci(x, l).fresh
          /\ Fine(ci(x, l)) => Fine(d)
      BY <2>5, <2>6 DEF c
    <3>2. d.k => \A i \in 2..(Len(x.th[l].ci) - 1) : Fine(x.th[l].ci[i])
      BY <2>2
    <3>3. CallInfoOK(d) /\ Continues(d)
      BY <2>5, <2>6
    <3> HIDE DEF n, p
    <3>4. Len(x.th[l].ci) >= 2
      BY <1>3 DEF p
    <3>5. MayBecome(x, l, d)
      BY <3>1, <3>2, <3>3, <3>4, Zenon DEF MayBecome
    <3> QED BY <3>5, SetCiInv
  <2>8. y.cs = x.cs /\ y.th[l].stack = x.th[l].stack
    BY <1>2, SetCiFacts
  <2> HIDE DEF y
  <2>9. MayCallOn(y, FALSE)
    BY <2>5, <2>7, <2>8 DEF MayCallOn, c
  <2>10. Len(y.th[l].stack) - nargs \in Nat
    BY <2>8
  <2> QED BY <2>1, <2>7, <2>8, <2>9, <2>10, DCallInv
<1>5. CASE ~(k /\ x.th[l].nny = 0)
  <2>1. lua_callk(x, l, nargs, nresults, k) = luaD_call(x, l, nargs, nresults, TRUE)
    BY <1>5 DEF lua_callk
  <2>2. MayCallOn(x, TRUE)
    BY DEF MayCallOn
  <2> QED BY <2>1, <2>2, DCallInv, Zenon
<1> QED BY <1>4, <1>5, Zenon

(* luaD_pcall: its frame, and the call.                                    *)
LEMMA PcallInv ==
    ASSUME NEW x, NEW l, Inv(x), Len(x.cs) >= 1, x.cs[Len(x.cs)].l = l,
           x.cs[Len(x.cs)].f = "C", NEW nargs \in Int, NEW errfunc,
           Len(x.th[l].stack) - nargs \in Nat
    PROVE  Inv(luaD_pcall(x, l, nargs, errfunc))
<1> DEFINE n == Len(x.cs)
           p == Len(x.th[l].ci)
           r == [f |-> "luaD_pcall", l |-> l, ci |-> p, nny |-> x.th[l].nny,
                 errfunc |-> x.th[l].errfunc, oldtop |-> Len(x.th[l].stack) - nargs,
                 nCcalls |-> x.th[l].nCcalls]
           y == SetErrfunc(x, l, errfunc)
           z == PushC(y, r)
<1>1. n \in Nat /\ l \in Threads /\ FrameOK(x.cs[n]) /\ x.cs[n].ci = p /\ IsSeq(x.cs)
  BY InvTop, Zenon
<1>2. /\ p \in Nat /\ p >= 1 /\ Shaped(x, l) /\ x.th[l].nny \in Int /\ Len(x.th[l].stack) \in Nat
      /\ x.th[l].status = "OK"
  BY <1>1, InvThread, InvTop, Zenon DEF Formed, IsSeq
<1>3. luaD_pcall(x, l, nargs, errfunc) = luaD_call(z, l, nargs, MULTRET, TRUE)
  BY DEF luaD_pcall, SetErrfunc
<1>4. /\ r.f = "luaD_pcall" /\ r.l = l /\ r.ci = p /\ r.nny = x.th[l].nny
      /\ r.oldtop \in Int
  BY <1>2
<1> HIDE DEF r
<1>5. Likewise(x, y, l) /\ y.th[l].stack = x.th[l].stack
  BY <1>2, SetErrfuncFacts
<1> HIDE DEF y
<1>6. Inv(y) /\ y.cs = x.cs /\ Shaped(y, l) /\ y.th[l].ci = x.th[l].ci
      /\ y.th[l].nny = x.th[l].nny /\ y.th[l].status = x.th[l].status
  BY <1>5, LikewiseTop, OnlyFormed DEF Likewise
<1>7. /\ Only(y, z, l) /\ z.th = y.th /\ IsSeq(z.cs) /\ Len(z.cs) = n + 1
      /\ z.cs[n + 1] = r /\ \A i \in 1..n : z.cs[i] = x.cs[i]
  BY <1>1, <1>6, PushCFacts
<1> HIDE DEF z
<1>8. ThreadInv(z.th[l])
  BY <1>1, <1>6, <1>7, InvThread
<1>9. Beside(y, z, l)
  BY <1>7, <1>8, OnlyBeside, Zenon
<1>10. FrameOK(r)
  BY <1>1, <1>2, <1>4, Zenon DEF FrameOK
<1>11. Follows(z, y.cs[n], r)
  BY <1>1, <1>4, <1>6 DEF Follows
<1>12. Pushes(y, z, l, r)
  <2>1. \A i \in 1..p : z.th[l].ci[i] = y.th[l].ci[i]
    BY <1>7
  <2>2. Len(z.th[l].ci) = p /\ Len(y.th[l].ci) = p
    BY <1>6, <1>7
  <2> HIDE DEF n, p
  <2> QED BY <2>1, <2>2, <1>1, <1>2, <1>4, <1>6, <1>7, <1>9, <1>10, <1>11 DEF Pushes, n
<1>13. Inv(z)
  BY <1>6, <1>12, PushesInv
<1>14. MayCallOn(z, TRUE)
  BY <1>4, <1>7 DEF MayCallOn
<1>15. Len(z.cs) >= 1 /\ z.cs[Len(z.cs)].l = l
  BY <1>1, <1>4, <1>7
<1>16. MULTRET \in Nat \cup {MULTRET}
  OBVIOUS
<1>17. Len(z.th[l].stack) - nargs \in Nat
  BY <1>5, <1>7
<1> QED BY <1>3, <1>13, <1>14, <1>15, <1>16, <1>17, DCallInv, Zenon

(* lua_pcallk, which keeps the place of the call when a yield may cross it. *)
MayPcall(x, l, nargs) ==
    /\ Inv(x) /\ Len(x.cs) >= 1 /\ x.cs[Len(x.cs)].l = l
    /\ x.cs[Len(x.cs)].f = "C" /\ nargs \in Int
    /\ ci(x, l).fn \in {"pcall", "xpcall"}
    /\ Len(x.th[l].stack) - nargs = ci(x, l).func + 2 + Extra(ci(x, l).fn)

(* lua_pcallk, with a continuation or without, keeps the invariant.        *)
LEMMA PcallkInv ==
    ASSUME NEW x, NEW l, NEW nargs, NEW errfunc, MayPcall(x, l, nargs)
    PROVE  Inv(lua_pcallk(x, l, nargs, errfunc))
<1>p. /\ Inv(x) /\ Len(x.cs) >= 1 /\ x.cs[Len(x.cs)].l = l
      /\ x.cs[Len(x.cs)].f = "C" /\ nargs \in Int
      /\ ci(x, l).fn \in {"pcall", "xpcall"}
      /\ Len(x.th[l].stack) - nargs = ci(x, l).func + 2 + Extra(ci(x, l).fn)
  BY Zenon DEF MayPcall
<1> USE <1>p
<1> DEFINE n == Len(x.cs)
           p == Len(x.th[l].ci)
<1>1. l \in Threads /\ FrameOK(x.cs[n]) /\ x.cs[n].ci = p
  BY InvTop
<1>2. /\ p \in Nat /\ Shaped(x, l) /\ x.th[l].nny \in Int
      /\ Len(x.th[l].stack) \in Nat /\ CallInfoOK(ci(x, l))
  BY <1>1, InvThread DEF Formed, IsSeq
<1>3. p >= 2
  <2>1. FrameOK(x.cs[n]) => (x.cs[n].f = "C" => x.cs[n].ci >= 2)
    BY Zenon DEF FrameOK
  <2> QED BY <1>1, <2>1
<1> DEFINE size == Len(x.th[l].stack)
<1>6. size - nargs \in Nat
  <2>1. ci(x, l).func \in Nat /\ Extra(ci(x, l).fn) \in Nat
    BY <1>2 DEF Extra, CallInfoOK
  <2> DEFINE f == ci(x, l).func
             e == Extra(ci(x, l).fn)
  <2>2. size - nargs = f + 2 + e
    OBVIOUS
  <2> HIDE <1>p
  <2> HIDE DEF f, e, size
  <2> QED BY <2>1, <2>2 DEF f, e
<1>4. CASE x.th[l].nny > 0
  BY <1>4, <1>6, PcallInv, Zenon DEF lua_pcallk
<1>5. CASE ~(x.th[l].nny > 0)
  <2> DEFINE c == ci(x, l)
             f == x.th[l].errfunc
             e == Len(x.th[l].stack) - nargs
             c1 == With_k(c, TRUE)
             c2 == With_extra(c1, e)
             c3 == With_old_errfunc(c2, f)
             d == With_ypcall(c3, TRUE)
             y == SetCi(x, l, d)
             z == SetErrfunc(y, l, errfunc)
  <2>1. lua_pcallk(x, l, nargs, errfunc) = luaD_call(z, l, nargs, MULTRET, FALSE)
    BY <1>5, Zenon DEF lua_pcallk, With_k, With_extra, With_old_errfunc, With_ypcall, SetErrfunc
  <2>2. \A i \in 2..(p - 1) : Fine(x.th[l].ci[i])
    BY <1>5, MayYield
  <2>3. e \in Nat /\ e = c.func + 2 + Extra(c.fn) /\ c.fn \in {"pcall", "xpcall"}
    BY <1>6
  <2> HIDE DEF c, e, f
  <2>4. CallInfoOK(c1) /\ c1.fn = c.fn /\ c1.func = c.func /\ c1.fresh = c.fresh /\ c1.k
    BY <1>2, Sets_k DEF c
  <2> HIDE DEF c1
  <2>5. /\ CallInfoOK(c2) /\ c2.fn = c.fn /\ c2.func = c.func /\ c2.fresh = c.fresh /\ c2.k
        /\ c2.extra = e
    <3>1. /\ CallInfoOK(c2) /\ c2.fn = c1.fn /\ c2.func = c1.func /\ c2.fresh = c1.fresh
          /\ c2.k = c1.k /\ c2.extra = e
      <4>1. e \in Nat
        BY <2>3
      <4>2. CallInfoOK(c1)
        BY <2>4
      <4> HIDE <1>p
      <4> QED BY <4>1, <4>2, Sets_extra
    <3> QED BY <2>4, <3>1
  <2> HIDE DEF c2
  <2>6. /\ CallInfoOK(c3) /\ c3.fn = c.fn /\ c3.func = c.func /\ c3.fresh = c.fresh /\ c3.k
        /\ c3.extra = e
    BY <2>5, Sets_old_errfunc
  <2> HIDE DEF c3
  <2>7. /\ CallInfoOK(d) /\ d.fn = c.fn /\ d.func = c.func /\ d.fresh = c.fresh /\ d.k
        /\ d.extra = e
    BY <2>6, Sets_ypcall, Zenon
  <2> HIDE DEF d
  <2>8. Continues(d) /\ Fine(d)
    BY <2>3, <2>7 DEF Continues, Fine
  <2>9. Inv(y) /\ ci(y, l) = d
    <3>1. /\ d.fn = ci(x, l).fn /\ d.fresh = ci(x, l).fresh
          /\ Fine(ci(x, l)) => Fine(d)
      BY <2>7, <2>8 DEF c
    <3>2. d.k => \A i \in 2..(Len(x.th[l].ci) - 1) : Fine(x.th[l].ci[i])
      BY <2>2
    <3>3. CallInfoOK(d) /\ Continues(d)
      BY <2>7, <2>8
    <3> HIDE DEF n, p
    <3>4. Len(x.th[l].ci) >= 2
      BY <1>3 DEF p
    <3>5. MayBecome(x, l, d)
      BY <3>1, <3>2, <3>3, <3>4 DEF MayBecome
    <3> QED BY <3>5, SetCiInv
  <2>10. y.cs = x.cs /\ y.th[l].stack = x.th[l].stack
    BY <1>2, SetCiFacts
  <2> HIDE DEF y
  <2>11. Likewise(y, z, l) /\ z.th[l].stack = y.th[l].stack
    BY <1>1, <2>9, InvThread, SetErrfuncFacts
  <2> HIDE DEF z
  <2>12. Inv(z) /\ z.cs = x.cs /\ ci(z, l) = d
    <3>1. InChain(y, l)
      <4>1. InChain(x, l)
        BY InvTop
      <4>2. y.cs = x.cs
        BY <2>10
      <4> QED BY <4>1, <4>2 DEF InChain
    <3>2. Inv(z)
      <4>1. Inv(y) /\ Likewise(y, z, l)
        BY <2>9, <2>11
      <4> QED BY <3>1, <4>1, LikewiseInv, Zenon
    <3>3. z.cs = y.cs /\ z.th[l].ci = y.th[l].ci
      BY <2>11 DEF Likewise
    <3>4. ci(z, l) = ci(y, l)
      BY <3>3 DEF ci
    <3> QED BY <3>2, <3>3, <3>4, <2>9, <2>10
  <2>13. MayCallOn(z, FALSE)
    BY <2>3, <2>7, <2>12 DEF MayCallOn
  <2>14. MULTRET \in Nat \cup {MULTRET}
    BY Zenon
  <2>15. Len(z.th[l].stack) - nargs \in Nat
    BY <1>6, <2>10, <2>11
  <2> QED BY <2>1, <2>12, <2>13, <2>14, <2>15, DCallInv, Zenon
<1> QED BY <1>4, <1>5

(* What a function returns when the function it called has returned.       *)
LEMMA ReturnsInt ==
    ASSUME NEW x, NEW l, Shaped(x, l), ci(x, l).func \in Int,
           ci(x, l).fn \in {"pcall", "xpcall", "call", "dofile", "yieldk"}
    PROVE  Returns(x, l) \in Int
<1>1. lua_gettop(x, l) \in Int
  BY FormedFacts DEF lua_gettop
<1>2. Extra(ci(x, l).fn) \in Int
  BY DEF Extra
<1>3. finishpcall(x, l, FALSE) \in Int
  BY <1>1, <1>2 DEF finishpcall
<1>4. CASE ci(x, l).fn \in {"pcall", "xpcall"}
  BY <1>3, <1>4 DEF Returns
<1>5. CASE ci(x, l).fn = "call"
  BY <1>5 DEF Returns
<1>6. CASE ci(x, l).fn = "dofile"
  BY <1>1, <1>6 DEF Returns
<1>7. CASE ci(x, l).fn = "yieldk"
  BY <1>1, <1>7 DEF Returns
<1> QED BY <1>4, <1>5, <1>6, <1>7

(* What a continuation leaves on the stack is a change of values.          *)
LEMMA FinishedCallFacts ==
    ASSUME NEW x, NEW l, Shaped(x, l), NEW failed \in BOOLEAN
    PROVE  Likewise(x, FinishedCall(x, l, failed), l)
<1> DEFINE s == <<"false", Last(x.th[l].stack)>>
<1>1. IsSeq(s)
  BY TupleFacts
<1> HIDE DEF s
<1>2. FinishedCall(x, l, failed) = IF failed THEN Push(x, l, s) ELSE x
  BY DEF FinishedCall, s
<1> QED BY <1>1, <1>2, PushFacts, LikewiseItself

(* finishCcall, run by lua_resume.                                         *)
LEMMA FinishInv ==
    ASSUME NEW x, NEW l, Inv(x), Len(x.cs) >= 1, x.cs[Len(x.cs)].l = l,
           x.cs[Len(x.cs)].f = "lua_resume", Len(x.th[l].ci) >= 2,
           NEW failed \in BOOLEAN, ~failed => ~isLua(ci(x, l))
    PROVE  Inv(finishCcall(x, l, failed))
<1> DEFINE p == Len(x.th[l].ci)
           w == EndYpcall(x, l)
           y == FinishedCall(w, l, failed)
           m == IF failed THEN 2 ELSE Returns(y, l)
           v == LastOf(y.th[l].stack, m)
           z == luaD_poscall(y, l, v)
<1>1. l \in Threads
  BY InvTop
<1>2. finishCcall(x, l, failed) = z
  BY DEF finishCcall
<1>3. p \in Nat /\ ThreadInv(x.th[l]) /\ ci(x, l) = x.th[l].ci[p]
  BY <1>1, InvThread
<1>4. Inv(w) /\ w.cs = x.cs /\ Len(w.th[l].ci) = p /\ ci(w, l).fn = ci(x, l).fn
  BY EndYpcallInv
<1> HIDE DEF w
<1>4a. Len(w.cs) >= 1 /\ w.cs[Len(w.cs)].l = l
  BY <1>4
<1>5. Likewise(w, y, l)
  <2>1. Shaped(w, l)
    BY <1>1, <1>4, InvThread
  <2> QED BY <2>1, FinishedCallFacts
<1> HIDE DEF y
<1>6. Inv(y) /\ y.cs = x.cs /\ Len(y.th[l].ci) = p /\ ci(y, l).fn = ci(x, l).fn
  <2>1. Inv(y) /\ y.cs = w.cs /\ Len(y.th[l].ci) = Len(w.th[l].ci) /\ ci(y, l) = ci(w, l)
    BY <1>4, <1>4a, <1>5, LikewiseTop
  <2> QED BY <2>1, <1>4
<1>6a. /\ Len(y.cs) >= 1 /\ y.cs[Len(y.cs)].l = l /\ y.cs[Len(y.cs)].f = "lua_resume"
       /\ Len(y.th[l].ci) >= 2
  BY <1>4, <1>6
<1>7. Shaped(y, l) /\ IsSeq(y.th[l].stack) /\ CallInfoOK(ci(y, l))
  BY <1>1, <1>6, InvThread, Zenon DEF Formed
<1>8. ~failed => ci(x, l).fn \in {"pcall", "xpcall", "dofile", "yieldk"}
  <2>1. p \in 2..p
    BY <1>3
  <2>2. Continues(ci(x, l))
    BY <2>1, <1>3 DEF ThreadInv, CallsOK
  <2>3. Fine(ci(x, l))
    BY <2>1, <1>3, TopResume
  <2> QED BY <2>2, <2>3, Zenon DEF Continues, Fine
<1>9. m \in Int
  <2>1. CASE failed
    BY <2>1
  <2>2. CASE ~failed
    <3>1. ci(y, l).fn \in {"pcall", "xpcall", "call", "dofile", "yieldk"}
      BY <2>2, <1>6, <1>8
    <3>2. ci(y, l).func \in Int
      BY <1>7 DEF CallInfoOK
    <3>3. Returns(y, l) \in Int
      BY <1>7, <3>1, <3>2, ReturnsInt
    <3> QED BY <2>2, <3>3
  <2> QED BY <2>1, <2>2
<1> HIDE DEF m
<1>10. IsSeq(v)
  BY <1>7, <1>9, LastOfFacts
<1> HIDE DEF v
<1>11. /\ Shortened(y, z, l, Len(y.cs), Len(y.th[l].ci) - 1)
       /\ z.th[l].nny = y.th[l].nny
  <2>1. Inv(y)
    BY <1>6
  <2> QED BY <2>1, <1>6a, <1>10, PoscallShortens
<1> HIDE DEF z
<1> HIDE DEF p
<1> HIDE DEF p
<1>12. Inv(z)
  <2>1. \/ y.cs[Len(y.cs)].f = "luaV_execute" /\ y.cs[Len(y.cs)].ci # Len(y.th[l].ci)
        \/ y.cs[Len(y.cs)].f = "lua_resume" /\ Len(y.th[l].ci) >= 2
    BY <1>6a
  <2>2. Inv(y) /\ Len(y.cs) >= 1 /\ y.cs[Len(y.cs)].l = l
    BY <1>6, <1>6a
  <2> QED BY <2>1, <2>2, <1>11, LeavesInv
<1> QED BY <1>2, <1>12 DEF z

-----------------------------------------------------------------------------
(* Errors and yields: what they leave of the C stack.                      *)

WithElement(s, i, e) == [s EXCEPT ![i] = e]

(* A sequence with another element.                                        *)
LEMMA ExceptFacts ==
    ASSUME NEW s, IsSeq(s), NEW i \in 1..Len(s), NEW e
    PROVE  LET u == WithElement(s, i, e)
           IN  IsSeq(u) /\ Len(u) = Len(s) /\ u[i] = e /\ \A j \in 1..Len(s) : j # i => u[j] = s[j]
<1> DEFINE u == WithElement(s, i, e)
<1>1. PICK n \in Nat : n = Len(s)
  BY DEF IsSeq
<1>2. s = [j \in 1..n |-> s[j]]
  BY <1>1 DEF IsSeq
<1>3. u = [j \in 1..n |-> IF j = i THEN e ELSE s[j]]
  BY <1>1, <1>2 DEF WithElement
<1> HIDE DEF u
<1>4. u \in Seq({u[j] : j \in 1..n})
  BY <1>3
<1>5. Len(u) = n
  BY <1>3, <1>4
<1>6. \A j \in 1..n : u[j] = IF j = i THEN e ELSE s[j]
  BY <1>3
<1>7. IsSeq(u)
  BY <1>4, InSeq
<1> QED BY <1>1, <1>5, <1>6, <1>7 DEF u

(* A C function that raises what its call left.                            *)
Raising(x) == [x EXCEPT !.cs[Len(x.cs)].st = "raise"]

(* A C function about to raise an error keeps the invariant.               *)
LEMMA RaisingInv ==
    ASSUME NEW x, Inv(x), Len(x.cs) >= 1, x.cs[Len(x.cs)].f = "C"
    PROVE  Inv(Raising(x))
<1> DEFINE n == Len(x.cs)
           r == x.cs[n]
           e == [r EXCEPT !.st = "raise"]
           s == WithElement(x.cs, n, e)
           y == [x EXCEPT !.cs = s]
<1>1. n \in 1..n /\ IsSeq(x.cs) /\ FrameOK(r) /\ r.l \in Threads
  BY InvTop
<1>2. x = [th |-> x.th, cs |-> x.cs]
  BY DEF Inv, MachineOK
<1>3. Raising(x) = y
  BY <1>1, <1>2 DEF Raising, WithElement
<1>4. r = [f |-> "C", l |-> r.l, ci |-> r.ci, st |-> r.st]
  BY <1>1 DEF FrameOK
<1> HIDE DEF r
<1>5. e = [f |-> "C", l |-> r.l, ci |-> r.ci, st |-> "raise"]
  BY <1>4
<1> HIDE DEF e
<1>6. e.f = "C" /\ e.l = r.l /\ e.ci = r.ci /\ e.st = "raise"
  BY <1>5
<1>7. FrameOK(e)
  <2>1. r.f = "C"
    BY DEF r
  <2>2. r.ci \in Nat \ {0} /\ r.ci >= 2 /\ r.l \in Threads
    BY <2>1, <1>1 DEF FrameOK, r
  <2> QED BY <2>2, <1>5, <1>6 DEF FrameOK
<1>8. IsSeq(s) /\ Len(s) = n /\ s[n] = e /\ \A j \in 1..n : j # n => s[j] = x.cs[j]
  BY <1>1, ExceptFacts
<1> HIDE DEF s
<1>9. y = [th |-> x.th, cs |-> s]
  BY <1>2
<1>10. y = [th |-> y.th, cs |-> y.cs] /\ y.th = x.th /\ y.cs = s
  BY <1>9
<1> HIDE DEF y
<1>11. \A i \in 1..(n - 1) : y.cs[i] = x.cs[i]
  <2>1. \A i \in 1..(n - 1) : i \in 1..n /\ i # n
    BY <1>1
  <2> QED BY <2>1, <1>8, <1>10
<1>12. Raises(x, y)
  BY <1>6, <1>7, <1>8, <1>10, <1>11 DEF Raises, r
<1> QED BY <1>3, <1>12, RaisesInv

(* What auxresume does in the thread that resumed another.                 *)
LEMMA AnswersInv ==
    ASSUME NEW u, NEW l, Inv(u), Len(u.cs) >= 1, u.cs[Len(u.cs)].f = "C",
           u.cs[Len(u.cs)].l = l, NEW s, IsSeq(s), NEW v, IsSeq(v), NEW n \in Int
    PROVE  LET y == Push(u, l, s)
           IN  Inv(PopC(luaD_poscall(y, l, v))) /\ Inv(CReturn(y, l, n)) /\ Inv(Raising(y))
<1> DEFINE y == Push(u, l, s)
<1>1. Likewise(u, y, l)
  <2>1. Shaped(u, l)
    BY InvTop, InvThread
  <2> QED BY <2>1, PushFacts
<1> HIDE DEF y
<1>2. Inv(y) /\ y.cs = u.cs
  BY <1>1, LikewiseTop
<1>3. Len(y.cs) >= 1 /\ y.cs[Len(y.cs)].f = "C" /\ y.cs[Len(y.cs)].l = l
  BY <1>2
<1>4. y.cs[Len(y.cs)].ci = Len(y.th[l].ci)
  BY <1>2, <1>3, InvTop
<1>5. Inv(PopC(luaD_poscall(y, l, v)))
  <2>1. y.cs[Len(y.cs)].f \in {"luaV_execute", "C"}
    BY <1>3
  <2> QED BY <1>2, <1>3, <1>4, <2>1, ReturnInv
<1>6. Inv(CReturn(y, l, n))
  BY <1>2, <1>3, CReturnInv
<1>7. Inv(Raising(y))
  BY <1>2, <1>3, RaisingInv
<1> QED BY <1>5, <1>6, <1>7, Zenon DEF y

(* auxresume, when lua_resume has returned, keeps the invariant.           *)
LEMMA AuxresumeInv ==
    ASSUME NEW x, NEW from, NEW co, NEW ok \in BOOLEAN, Shaped(x, co), ci(x, co).func \in Int,
           LET n == IF ok THEN lua_gettop(x, co) ELSE 1
               u == Drop(x, co, n)
           IN  /\ Inv(u) /\ Len(u.cs) >= 1
               /\ u.cs[Len(u.cs)].f = "C" /\ u.cs[Len(u.cs)].l = from
    PROVE  Inv(auxresume(x, from, co, ok))
<1> DEFINE n == IF ok THEN lua_gettop(x, co) ELSE 1
           u == Drop(x, co, n)
           v == LastOf(x.th[co].stack, n)
           a == IF ok THEN "true" ELSE "false"
           y == Push(u, from, v)
           w == <<a>> \o v
<1>1. n \in Int
  <2>1. lua_gettop(x, co) \in Int
    BY FormedFacts DEF lua_gettop
  <2> QED BY <2>1
<1>2. auxresume(x, from, co, ok) =
         CASE ci(x, from).fn = "resume" -> PopC(luaD_poscall(y, from, w))
           [] ci(x, from).fn # "resume" /\ ok -> CReturn(y, from, n)
           [] OTHER -> Raising(y)
  BY DEF auxresume, Raising
<1>3. /\ Inv(u) /\ Len(u.cs) >= 1 /\ u.cs[Len(u.cs)].f = "C" /\ u.cs[Len(u.cs)].l = from
  OBVIOUS
<1> HIDE DEF n
<1>4. IsSeq(v)
  BY <1>1, FormedFacts, LastOfFacts
<1> HIDE DEF v
<1>5. IsSeq(w)
  <2>1. IsSeq(<<a>>)
    BY TupleFacts
  <2> HIDE DEF a
  <2> QED BY <2>1, <1>4, ConcatFacts
<1> HIDE DEF u, w
<1>6. Inv(PopC(luaD_poscall(y, from, w))) /\ Inv(CReturn(y, from, n)) /\ Inv(Raising(y))
  BY <1>1, <1>3, <1>4, <1>5, AnswersInv
<1> HIDE DEF y
<1>7. CASE ci(x, from).fn = "resume"
  BY <1>2, <1>6, <1>7
<1>8. CASE ci(x, from).fn # "resume" /\ ok
  BY <1>2, <1>6, <1>8
<1>9. CASE ci(x, from).fn # "resume" /\ ~ok
  BY <1>2, <1>6, <1>9
<1> QED BY <1>7, <1>8, <1>9

(* The end of lua_resume, in the thread l that it ran: what is left is the *)
(* thread u, and from goes on.                                             *)
Ended(w, u, l, ok) ==
    LET n == Len(w.cs)
        s == w.th[l].stack
    IN  /\ Only(w, u, l) /\ IsSeq(u.cs) /\ Len(u.cs) = n - 1
        /\ \A i \in 1..(n - 1) : u.cs[i] = w.cs[i]
        /\ u.th[l].status = w.th[l].status /\ u.th[l].nny = w.cs[n].oldnny
        /\ u.th[l].ci = w.th[l].ci
        /\ u.th[l].stack = SubSeq(s, 1, Len(s) - (IF ok THEN lua_gettop(w, l) ELSE 1))

(* lua_resume returns to a C function, and if what it leaves is right, so  *)
(* is what that function makes of it.                                      *)
LEMMA ResumeEndsInv ==
    ASSUME NEW w, NEW l, NEW ok \in BOOLEAN, Shaped(w, l), IsSeq(w.cs), Len(w.cs) >= 2,
           w.cs[Len(w.cs)].l = l, w.cs[Len(w.cs)].oldnny \in Int,
           w.cs[Len(w.cs) - 1].f = "C", w.cs[Len(w.cs) - 1].l = w.cs[Len(w.cs)].from,
           ci(w, l).func \in Int,
           \A u : Ended(w, u, l, ok) => Inv(u)
    PROVE  Inv(ResumeEnds(w, ok))
<1> DEFINE n == Len(w.cs)
           r == w.cs[n]
           t == w.th[l]
           m == r.oldnny
           c == t.nCcalls - 1
           a == [t EXCEPT !.nny = m]
           b == [a EXCEPT !.nCcalls = c]
           z == [w EXCEPT !.th[l] = b]
           y == PopC(z)
           k == IF ok THEN lua_gettop(y, l) ELSE 1
           u == Drop(y, l, k)
           from == r.from
<1>1. n \in Nat /\ n - 1 \in Nat /\ n - 1 >= 1 /\ Last(w.cs) = r /\ Formed(t) /\ m \in Int
  <2>1. n \in Nat
    BY DEF IsSeq
  <2>2. Last(w.cs) = r
    BY <2>1, FrontFacts
  <2>3. Formed(t)
    BY DEF Shaped
  <2> HIDE DEF t
  <2> QED BY <2>1, <2>2, <2>3
<1>2. ResumeEnds(w, ok) = auxresume(y, from, l, ok)
  <2>1. Last(w.cs) = r
    BY <1>1
  <2> QED BY <2>1, Zenon DEF ResumeEnds
<1> HIDE DEF m, c, from
<1>3. Formed(a) /\ a.status = t.status /\ a.nny = m /\ a.ci = t.ci /\ a.stack = t.stack
  BY <1>1, NnyFormed
<1> HIDE DEF a
<1>4. Formed(b) /\ b.status = t.status /\ b.nny = m /\ b.ci = t.ci /\ b.stack = t.stack
  <2> HIDE DEF m, t
  <2>1. Formed(b) /\ b.status = a.status /\ b.nny = a.nny /\ b.ci = a.ci /\ b.stack = a.stack
    BY <1>3, CcallsFormed, Zenon
  <2> QED BY <1>3, <2>1
<1> HIDE DEF b
<1>5. Only(w, z, l) /\ z.cs = w.cs /\ z.th[l] = b
  BY <1>4, NewThread
<1> HIDE DEF z
<1>6. Shaped(z, l)
  BY <1>5, OnlyFormed
<1>7. /\ Only(z, y, l) /\ y.th = z.th /\ IsSeq(y.cs) /\ Len(y.cs) = n - 1
      /\ \A i \in 1..(n - 1) : y.cs[i] = w.cs[i]
  <2>1. IsSeq(z.cs) /\ Len(z.cs) >= 1 /\ z.cs = w.cs
    BY <1>5
  <2> QED BY <1>6, <2>1, PopCFacts
<1> HIDE DEF y
<1>8. Only(w, y, l) /\ Shaped(y, l) /\ y.th[l] = b
  BY <1>5, <1>7, OnlyTransitive, OnlyFormed
<1>9. ci(y, l) = ci(w, l) /\ lua_gettop(y, l) = lua_gettop(w, l)
  BY <1>4, <1>8 DEF ci, lua_gettop
<1>10. k \in Int
  <2>1. lua_gettop(y, l) \in Int
    BY <1>8, <1>9, FormedFacts DEF lua_gettop
  <2> QED BY <2>1
<1>11. k = IF ok THEN lua_gettop(w, l) ELSE 1
  BY <1>9
<1> HIDE DEF k
<1>12. Likewise(y, u, l) /\ u.th[l].stack = SubSeq(t.stack, 1, Len(t.stack) - k)
  <2>1. y.th[l].stack = t.stack
    BY <1>4, <1>8
  <2>2. /\ Likewise(y, u, l)
        /\ u.th[l].stack = SubSeq(y.th[l].stack, 1, Len(y.th[l].stack) - k)
    <3>1. Shaped(y, l)
      BY <1>8
    <3> QED BY <3>1, <1>10, DropFacts
  <2> QED BY <2>1, <2>2
<1> HIDE DEF u
<1>13. Ended(w, u, l, ok)
  <2>1. Only(w, u, l)
    BY <1>8, <1>12, OnlyTransitive DEF Likewise
  <2>2. u.cs = y.cs /\ u.th[l].status = t.status /\ u.th[l].nny = m /\ u.th[l].ci = t.ci
    BY <1>4, <1>8, <1>12 DEF Likewise
  <2> QED BY <2>1, <2>2, <1>7, <1>11, <1>12, Zenon DEF Ended, m
<1>14. Inv(u)
  BY <1>13
<1>15. /\ Len(u.cs) >= 1 /\ u.cs[Len(u.cs)].f = "C" /\ u.cs[Len(u.cs)].l = from
  <2>1. u.cs = y.cs
    BY <1>12 DEF Likewise
  <2>2. n - 1 \in 1..(n - 1)
    BY <1>1
  <2> QED BY <2>1, <2>2, <1>1, <1>7 DEF from
<1>16. ci(y, l).func \in Int
  BY <1>9, Zenon
<1>17. Inv(auxresume(y, from, l, ok))
  BY <1>8, <1>14, <1>15, <1>16, AuxresumeInv DEF u, k
<1> QED BY <1>2, <1>17

(* The last protected point of the thread, and the frames above it.        *)
RawAt(x, l, i) ==
    /\ i \in 1..Len(x.cs) /\ IsRaw(x.cs[i]) /\ x.cs[i].l = l
    /\ \A m \in i..Len(x.cs) : x.cs[m].l = l
    /\ \A m \in (i + 1)..Len(x.cs) : ~IsRaw(x.cs[m])

(* There is always a frame that an error of the running thread goes to,    *)
(* above it only frames of that thread.                                    *)
LEMMA RawTop ==
    ASSUME NEW x, NEW l, Inv(x), Len(x.cs) >= 1, x.cs[Len(x.cs)].l = l
    PROVE  \E i : RawAt(x, l, i)
<1> DEFINE n == Len(x.cs)
           raws == {i \in 1..n : IsRaw(x.cs[i]) /\ x.cs[i].l = l}
<1>1. n \in Nat /\ n \in 1..n /\ l \in Threads
  BY InvTop
<1>2. raws # {}
  <2>1. CASE l = Main
    <3>1. 1 \in 1..n
      BY <1>1
    <3>2. x.cs[1].f = "luaD_pcall" /\ x.cs[1].l = Main
      BY DEF Inv, Bottom
    <3> QED BY <2>1, <3>1, <3>2 DEF IsRaw
  <2>2. CASE l # Main
    <3>1. PICK j \in 1..n : x.cs[j].f = "lua_resume" /\ x.cs[j].l = x.cs[n].l
      BY <1>1, <2>2 DEF Inv, Owners
    <3> QED BY <3>1 DEF IsRaw
  <2> QED BY <2>1, <2>2
<1>3. PICK i \in raws : \A j \in raws : j <= i
  BY <1>1, <1>2, GreatestOf
<1>4. \A m \in i..n : x.cs[m].l = l
  <2>1. CASE i = n
    BY <1>1, <2>1
  <2>2. CASE i # n
    <3>1. i \in 1..(n - 1) /\ x.cs[i].l = x.cs[n].l
      BY <1>1, <1>3, <2>2
    <3> QED BY <1>1, <3>1 DEF Inv, Owners
  <2> QED BY <2>1, <2>2
<1>5. ASSUME NEW m \in (i + 1)..n PROVE ~IsRaw(x.cs[m])
  <2>1. m \in 1..n /\ m \in i..n /\ ~(m <= i)
    BY <1>1, <1>3
  <2> QED BY <2>1, <1>3, <1>4
<1>6. RawAt(x, l, i)
  BY <1>3, <1>4, <1>5, Zenon DEF RawAt
<1> QED BY <1>6

(* The thread with its first q call infos, as luaD_pcall and recover leave *)
(* it.                                                                     *)
Restored(x, l, q, m, e) ==
    [x EXCEPT !.th[l].ci = SubSeq(@, 1, q), !.th[l].nny = m, !.th[l].errfunc = e]

(* luaD_pcall puts back what it saved.                                     *)
LEMMA RestoredFacts ==
    ASSUME NEW x, NEW l, Shaped(x, l), NEW q \in 1..Len(x.th[l].ci), NEW m \in Int, NEW e
    PROVE  LET y == Restored(x, l, q, m, e)
           IN  /\ Only(x, y, l) /\ y.cs = x.cs
               /\ y.th[l].status = x.th[l].status /\ y.th[l].nny = m
               /\ y.th[l].stack = x.th[l].stack /\ Len(y.th[l].ci) = q
               /\ \A i \in 1..q : y.th[l].ci[i] = x.th[l].ci[i]
<1> DEFINE t == x.th[l]
           c == SubSeq(t.ci, 1, q)
           a == [t EXCEPT !.ci = c]
           b == [a EXCEPT !.nny = m]
           d == [b EXCEPT !.errfunc = e]
           y == [x EXCEPT !.th[l] = d]
<1>1. Formed(t) /\ q \in Nat /\ q >= 1
  BY DEF Shaped, Formed, IsSeq
<1>2. Restored(x, l, q, m, e) = y
  BY Zenon DEF Restored, Shaped
<1>3. IsSeq(c) /\ Len(c) = q /\ \A i \in 1..q : c[i] = t.ci[i]
  <2>1. /\ IsSeq(c) /\ Len(c) = IF 1 <= q THEN q - 1 + 1 ELSE 0
        /\ \A i \in 1..(q - 1 + 1) : c[i] = t.ci[1 + i - 1]
    BY <1>1, SubSeqFacts
  <2>2. q - 1 + 1 = q /\ 1 <= q /\ \A i \in 1..q : 1 + i - 1 = i
    BY <1>1
  <2> QED BY <2>1, <2>2
<1> HIDE DEF c
<1>4. Formed(a) /\ a.status = t.status /\ a.nny = t.nny /\ a.ci = c /\ a.stack = t.stack
  <2>1. Len(c) >= 1
    BY <1>1, <1>3
  <2> QED BY <2>1, <1>1, <1>3 DEF Formed
<1> HIDE DEF a
<1>5. Formed(b) /\ b.status = t.status /\ b.nny = m /\ b.ci = c /\ b.stack = t.stack
  BY <1>4, NnyFormed
<1> HIDE DEF b
<1>6. Formed(d) /\ d.status = t.status /\ d.nny = m /\ d.ci = c /\ d.stack = t.stack
  BY <1>5 DEF Formed
<1> HIDE DEF d
<1>7. Only(x, y, l) /\ y.cs = x.cs /\ y.th[l] = d
  BY <1>6, NewThread
<1> HIDE DEF y
<1> QED BY <1>2, <1>3, <1>6, <1>7

(* The frames above the point are gone.                                    *)
CutTo(x, l, i) == [x EXCEPT !.cs = SubSeq(@, 1, i), !.th[l].nCcalls = x.cs[i].nCcalls]

(* What longjmp leaves.                                                    *)
LEMMA CutToFacts ==
    ASSUME NEW x, NEW l, Shaped(x, l), IsSeq(x.cs), NEW i \in 1..Len(x.cs)
    PROVE  LET y == CutTo(x, l, i)
           IN  /\ Only(x, y, l) /\ IsSeq(y.cs) /\ Len(y.cs) = i
               /\ \A j \in 1..i : y.cs[j] = x.cs[j]
               /\ y.th[l].status = x.th[l].status /\ y.th[l].nny = x.th[l].nny
               /\ y.th[l].ci = x.th[l].ci /\ y.th[l].stack = x.th[l].stack
<1> DEFINE t == x.th[l]
           s == SubSeq(x.cs, 1, i)
           c == x.cs[i].nCcalls
           u == [t EXCEPT !.nCcalls = c]
           z == [x EXCEPT !.cs = s]
           y == [z EXCEPT !.th[l] = u]
<1>1. Formed(t) /\ i \in Nat /\ i >= 1
  BY DEF Shaped, IsSeq
<1>2. CutTo(x, l, i) = y
  BY DEF CutTo, Shaped
<1>3. IsSeq(s) /\ Len(s) = i /\ \A j \in 1..i : s[j] = x.cs[j]
  <2>1. /\ IsSeq(s) /\ Len(s) = IF 1 <= i THEN i - 1 + 1 ELSE 0
        /\ \A j \in 1..(i - 1 + 1) : s[j] = x.cs[1 + j - 1]
    BY <1>1, SubSeqFacts
  <2>2. i - 1 + 1 = i /\ 1 <= i /\ \A j \in 1..i : 1 + j - 1 = j
    BY <1>1
  <2> QED BY <2>1, <2>2
<1> HIDE DEF s, c
<1>4. Formed(u) /\ u.status = t.status /\ u.nny = t.nny /\ u.ci = t.ci /\ u.stack = t.stack
  BY <1>1, CcallsFormed
<1> HIDE DEF u
<1>5. Only(x, z, l) /\ z.th = x.th /\ z.cs = s
  BY FramesFacts
<1> HIDE DEF z
<1>6. Shaped(z, l)
  BY <1>5, OnlyFormed
<1>7. Only(z, y, l) /\ y.cs = z.cs /\ y.th[l] = u
  <2>1. Shaped(z, l) /\ Formed(u)
    BY <1>4, <1>6, Zenon
  <2>2. SetsThread(z, SetThread(z, l, u), l, u)
    BY <2>1, ThreadSet, Zenon
  <2>3. SetThread(z, l, u) = y
    BY DEF SetThread
  <2> HIDE DEF y
  <2>4. SetsThread(z, y, l, u)
    BY <2>2, <2>3, Zenon
  <2> QED BY <2>4 DEF SetsThread
<1> HIDE DEF y
<1>8. Only(x, y, l)
  BY <1>5, <1>7, OnlyTransitive
<1> QED BY <1>2, <1>3, <1>4, <1>5, <1>7, <1>8

(* The thread with its error, at the end of lua_resume.                    *)
Failed(x, l, status) ==
    [x EXCEPT !.th[l].status = status, !.th[l].stack = Append(@, Last(@))]

(* luaD_throw at its protected point.                                      *)
Unwound(x, l, i) ==
    LET r == x.cs[i]
    IN  PopC(Restored(seterrorobj(CutTo(x, l, i), l, r.oldtop), l, r.ci, r.nny, r.errfunc))

Returned(x, l, i) == CReturn(FinishedCall(Unwound(x, l, i), l, TRUE), l, 2)

Thrown(x, l, status, i) ==
    LET r == x.cs[i]
        y == CutTo(x, l, i)
    IN  CASE r.f = "luaD_pcall" /\ i > 1 -> Returned(x, l, i)
          [] r.f = "luaD_pcall" /\ i = 1 -> Unwound(x, l, i)
          [] r.f = "lua_resume" /\ status = "YIELD" -> ResumeEnds(y, TRUE)
          [] r.f = "lua_resume" /\ status # "YIELD" /\ findpcall(y, l) # 0 -> recover(y, l)
          [] OTHER -> ResumeEnds(Failed(y, l, status), FALSE)

(* luaD_throw goes to that frame.                                          *)
LEMMA ThrowIs ==
    ASSUME NEW x, NEW l, NEW status, NEW i, IsSeq(x.cs), RawAt(x, l, i)
    PROVE  luaD_throw(x, l, status) = Thrown(x, l, status, i)
<1> DEFINE raws == {j \in DOMAIN x.cs : IsRaw(x.cs[j]) /\ x.cs[j].l = l}
           n == Len(x.cs)
<1>1. DOMAIN x.cs = 1..n /\ n \in Nat
  BY SeqIn
<1>2. i \in raws /\ i \in 1..n
  BY <1>1 DEF RawAt
<1>3. \A j \in raws : j \in 1..n /\ ~(j \in (i + 1)..n)
  BY <1>1 DEF RawAt
<1>4. \A j \in raws : j <= i
  BY <1>1, <1>2, <1>3
<1>5. \A j \in raws : (\A k \in raws : k <= j) => j = i
  BY <1>1, <1>2, <1>3, <1>4
<1>6. (CHOOSE j \in raws : \A k \in raws : k <= j) = i
  <2> HIDE DEF raws
  <2> QED BY <1>2, <1>4, <1>5
<1> QED BY <1>6, Zenon DEF luaD_throw, Thrown, Unwound, Returned, CutTo, Restored,
             Failed

(* The error value on the stack is a change of values.                     *)
LEMMA SeterrorobjFacts ==
    ASSUME NEW x, NEW l, Shaped(x, l), NEW oldtop \in Int
    PROVE  Likewise(x, seterrorobj(x, l, oldtop), l)
<1> DEFINE s == SubSeq(x.th[l].stack, 1, oldtop - 1)
           e == Last(x.th[l].stack)
           v == Append(s, e)
<1>1. seterrorobj(x, l, oldtop) = SetStack(x, l, v)
  BY DEF seterrorobj
<1>2. IsSeq(s)
  BY SubSeqFacts
<1> HIDE DEF s, e
<1>3. IsSeq(v)
  BY <1>2, AppendFacts
<1> HIDE DEF v
<1> QED BY <1>1, <1>3, SetStackFacts

(* And so is what the message handler makes of it.                         *)
LEMMA ErrormsgFacts ==
    ASSUME NEW x, NEW l, Shaped(x, l)
    PROVE  Likewise(x, luaG_errormsg(x, l), l)
<1> DEFINE s == Front(x.th[l].stack)
           v == Append(s, "h")
<1>1. luaG_errormsg(x, l) = IF x.th[l].errfunc = 0 THEN x ELSE SetStack(x, l, v)
  BY DEF luaG_errormsg
<1>2. IsSeq(s)
  <2>1. Len(x.th[l].stack) \in Nat
    BY FormedFacts
  <2> QED BY <2>1, SubSeqFacts DEF Front
<1> HIDE DEF s
<1>3. IsSeq(v)
  BY <1>2, AppendFacts
<1> HIDE DEF v
<1> QED BY <1>1, <1>3, SetStackFacts, LikewiseItself

(* luaD_pcall of the running thread after an error: the frames above it    *)
(* and its own are gone.                                                   *)
LEMMA PcallThrow ==
    ASSUME NEW x, NEW l, Inv(x), Len(x.cs) >= 1, x.cs[Len(x.cs)].l = l,
           NEW i, RawAt(x, l, i), x.cs[i].f = "luaD_pcall"
    PROVE  LET y == Unwound(x, l, i)
           IN  Inv(y) /\ Len(y.cs) = i - 1 /\ \A j \in 1..(i - 1) : y.cs[j] = x.cs[j]
<1> DEFINE n == Len(x.cs)
           r == x.cs[i]
           m == i - 1
           p == r.ci
           a == CutTo(x, l, i)
           oldtop == r.oldtop
           b == seterrorobj(a, l, oldtop)
           nny == r.nny
           errfunc == r.errfunc
           c == Restored(b, l, p, nny, errfunc)
           y == PopC(c)
<1>1. /\ n \in Nat /\ n >= 1 /\ n \in 1..n /\ IsSeq(x.cs) /\ l \in Threads
      /\ x.th[l].status = "OK" /\ InChain(x, l)
  BY InvTop
<1>2. i \in 1..n /\ i \in Nat /\ i >= 1 /\ i <= n /\ r.l = l /\ m \in Nat /\ m \in 0..n
  BY <1>1 DEF RawAt
<1>3. \A j \in i..n : x.cs[j].l = l
  BY DEF RawAt
<1>4. FrameOK(r) /\ p \in Nat /\ p >= 1 /\ p \in 1..Len(x.th[l].ci)
  BY <1>2, FrameLevel, FrameTypes DEF Inv
<1>5. oldtop \in Int /\ nny \in Int
  BY <1>4 DEF FrameOK
<1>6. Shaped(x, l) /\ ThreadInv(x.th[l])
  BY <1>1, InvThread
<1>7. y = Unwound(x, l, i)
  BY DEF Unwound
<1>8. /\ Only(x, a, l) /\ IsSeq(a.cs) /\ Len(a.cs) = i /\ (\A j \in 1..i : a.cs[j] = x.cs[j])
      /\ a.th[l].status = "OK" /\ a.th[l].ci = x.th[l].ci
  BY <1>1, <1>2, <1>6, CutToFacts
<1> HIDE DEF a, oldtop
<1>9. Shaped(a, l)
  BY <1>8, OnlyFormed
<1>10. Likewise(a, b, l)
  BY <1>5, <1>9, SeterrorobjFacts
<1> HIDE DEF b
<1>11. /\ Only(a, b, l) /\ b.cs = a.cs /\ b.th[l].status = "OK" /\ b.th[l].ci = x.th[l].ci
       /\ Shaped(b, l)
  BY <1>8, <1>10, OnlyFormed DEF Likewise
<1> HIDE DEF p, nny, errfunc
<1>12. /\ Only(b, c, l) /\ c.cs = b.cs /\ c.th[l].status = "OK" /\ c.th[l].nny = nny
       /\ Len(c.th[l].ci) = p /\ \A j \in 1..p : c.th[l].ci[j] = x.th[l].ci[j]
  <2>1. p \in 1..Len(b.th[l].ci)
    BY <1>4, <1>11
  <2>2. Shaped(b, l) /\ nny \in Int
    BY <1>5, <1>11 DEF nny
  <2>3. /\ Only(b, c, l) /\ c.cs = b.cs /\ c.th[l].status = b.th[l].status
        /\ c.th[l].nny = nny /\ Len(c.th[l].ci) = p
        /\ \A j \in 1..p : c.th[l].ci[j] = b.th[l].ci[j]
    BY <2>1, <2>2, RestoredFacts
  <2> QED BY <2>3, <1>11
<1> HIDE DEF c
<1>13. /\ Only(c, y, l) /\ y.th = c.th /\ IsSeq(y.cs) /\ Len(y.cs) = m
       /\ \A j \in 1..m : y.cs[j] = x.cs[j]
  <2>1. IsSeq(c.cs) /\ Len(c.cs) = i /\ Shaped(c, l)
    BY <1>8, <1>11, <1>12, OnlyFormed
  <2>2. \A j \in 1..(i - 1) : c.cs[j] = x.cs[j]
    <3>1. \A j \in 1..(i - 1) : j \in 1..i
      BY <1>2
    <3> QED BY <3>1, <1>8, <1>11, <1>12
  <2> QED BY <2>1, <2>2, <1>2, PopCFacts
<1> HIDE DEF y
<1>14. Only(x, y, l)
  BY <1>8, <1>11, <1>12, <1>13, OnlyTransitive
<1>15. /\ y.th[l].status = "OK" /\ y.th[l].nny = nny
       /\ Len(y.th[l].ci) = p /\ \A j \in 1..p : y.th[l].ci[j] = x.th[l].ci[j]
  BY <1>12, <1>13
<1>16. Beside(x, y, l)
  <2>1. Shortened(x, y, l, m, p)
    BY <1>1, <1>13, <1>14, <1>15 DEF Shortened
  <2> QED BY <2>1, <1>1, <1>4, ShortenedThread
<1>17. nny = Cardinality(Uncrossed(x, l, m)) + (IF l = Main THEN 1 ELSE 0)
  <2>1. r.nny = Cardinality(Uncrossed(x, l, i)) + (IF l = Main THEN 1 ELSE 0)
    BY <1>1, <1>2 DEF Inv, Counts
  <2>2. Uncrossed(x, l, i) = Uncrossed(x, l, m)
    BY <1>2, UncrossedLast
  <2> QED BY <2>1, <2>2 DEF nny
<1>18. m >= 1 => InChain(y, l)
  <2>1. CASE l = Main
    BY <2>1 DEF InChain
  <2>2. CASE l # Main
    <3>1. PICK j \in 1..i : x.cs[j].f = "lua_resume" /\ x.cs[j].l = l
      BY <1>2, <2>2 DEF Inv, Owners
    <3>2. j \in 1..m
      BY <3>1, <1>2
    <3> QED BY <3>1, <3>2, <1>13 DEF InChain
  <2> QED BY <2>1, <2>2
<1>19. m = 0 => l = Main
  BY <1>2 DEF Inv, Bottom
<1>20. InChain(y, l)
  BY <1>2, <1>18, <1>19 DEF InChain
<1>21. m >= 1 => Follows(x, x.cs[m], r)
  <2>1. ASSUME m >= 1 PROVE Follows(x, x.cs[m], x.cs[m + 1])
    <3>1. m \in 1..n /\ m # n
      BY <1>1, <1>2, <2>1
    <3> QED BY <3>1, NextFrame
  <2>2. m + 1 = i
    BY <1>2
  <2> QED BY <2>1, <2>2
<1>22. m >= 1 => x.cs[m].f = "C" /\ p = x.cs[m].ci
  BY <1>21 DEF Follows, p
<1>23. \A j \in 1..m : (x.cs[j].l = l /\ x.cs[j].f # "lua_resume") => x.cs[j].ci <= p
  <2>1. \A j \in 1..(i - 1) : (x.cs[j].l = x.cs[i].l /\ x.cs[j].f # "lua_resume") =>
             x.cs[j].ci <= x.cs[i].ci
    BY <1>2 DEF Inv, Levels
  <2> QED BY <2>1, <1>2, Zenon DEF p
<1>24. ASSUME NEW k \in 2..p PROVE Fine(y.th[l].ci[k]) \/ Framed(y, l, k)
  <2>1. k \in 1..p /\ k \in 2..Len(x.th[l].ci) /\ y.th[l].ci[k] = x.th[l].ci[k]
    BY <1>4, <1>15
  <2>2. CASE Fine(x.th[l].ci[k])
    BY <2>1, <2>2
  <2>3. CASE Framed(x, l, k)
    <3>1. PICK j \in 1..n :
             /\ x.cs[j].f = "C" /\ x.cs[j].l = l /\ x.cs[j].ci = k
             /\ j < n => \/ x.cs[j + 1].f = "luaD_call" /\ x.cs[j + 1].noyield
                         \/ x.cs[j + 1].f \in {"luaD_pcall", "lua_resume"}
      BY <2>3, Zenon DEF Framed
    <3>2. j # i
      BY <3>1
    <3>3. ~(j > i)
      <4>1. SUFFICES ASSUME j > i PROVE FALSE
        OBVIOUS
      <4>2. i \in 1..(j - 1)
        BY <4>1, <1>2, <3>1
      <4>3. x.cs[i].ci < x.cs[j].ci
        BY <4>2, <3>1, <1>2 DEF Inv, Levels
      <4>4. p < k
        BY <4>3, <3>1 DEF p
      <4> QED BY <4>4, <1>4
    <3>4. j \in 1..m
      BY <3>1, <3>2, <3>3, <1>2
    <3>5. j < m => j + 1 \in 1..m /\ j < n
      BY <3>4, <1>2
    <3>6. y.cs[j] = x.cs[j] /\ (j < m => y.cs[j + 1] = x.cs[j + 1])
      BY <3>4, <3>5, <1>13
    <3> QED BY <3>1, <3>4, <3>5, <3>6, <1>13 DEF Framed
  <2> QED BY <2>1, <2>2, <2>3, <1>1 DEF Inv, Stuck
<1>25. Cuts(x, y, l, m, p)
  <2>1. \A j \in (m + 1)..n : x.cs[j].l = l
    <3>1. \A j \in (m + 1)..n : j \in i..n
      BY <1>2
    <3> QED BY <3>1, <1>3
  <2>2. m >= 1 => y.th[l].nny = Cardinality(Uncrossed(x, l, m))
                               + (IF l = Main \/ ~InChain(y, l) THEN 1 ELSE 0)
    BY <1>15, <1>17, <1>20
  <2> HIDE DEF m, n, r
  <2>3. n = Len(x.cs)
    BY DEF n
  <2> QED BY <2>1, <2>2, <2>3, <1>1, <1>2, <1>4, <1>13, <1>15, <1>16, <1>20, <1>22, <1>23, <1>24
          DEF Cuts
<1>26. Inv(y)
  BY <1>25, CutsInv
<1> QED BY <1>7, <1>13, <1>26

(* A thread whose frame of lua_resume is the last protected point.         *)
Point(x, l, i) ==
    /\ i \in 2..Len(x.cs) /\ l # Main /\ FrameOK(x.cs[i])
    /\ \A j \in 1..(i - 1) : x.cs[j].l # l
    /\ Uncrossed(x, l, i) = {} /\ Uncrossed(x, l, i - 1) = {}
    /\ x.cs[i - 1].f = "C" /\ x.cs[i].from = x.cs[i - 1].l

(* Such a point is what lua_resume leaves for an error that no luaD_pcall  *)
(* of its thread catches.                                                  *)
LEMMA ResumePoint ==
    ASSUME NEW x, NEW l, Inv(x), Len(x.cs) >= 1, x.cs[Len(x.cs)].l = l,
           NEW i, RawAt(x, l, i), x.cs[i].f = "lua_resume"
    PROVE  Point(x, l, i)
<1> DEFINE n == Len(x.cs)
<1>1. n \in Nat /\ n >= 1 /\ i \in 1..n /\ x.cs[i].l = l
  BY InvTop DEF RawAt
<1>2. i # 1
  BY <1>1 DEF Inv, Bottom
<1>3. i \in 2..n
  BY <1>1, <1>2
<1>4. FrameOK(x.cs[i]) /\ l # Main
  <2>1. MachineOK(x)
    BY DEF Inv
  <2>2. FrameOK(x.cs[i])
    BY <1>1, <2>1, FrameTypes, Zenon
  <2> QED BY <2>2, <1>1 DEF FrameOK
<1>5. \A j \in 1..(i - 1) : x.cs[j].l # l
  BY <1>1 DEF Inv, Owners
<1>6. Uncrossed(x, l, i - 1) = {}
  BY <1>5 DEF Uncrossed
<1>7. Uncrossed(x, l, i) = {}
  <2>1. \A j \in 1..i : j \in 1..(i - 1) \/ j = i
    BY <1>3
  <2> QED BY <2>1, <1>5 DEF Uncrossed
<1>8. Follows(x, x.cs[i - 1], x.cs[i])
  <2>1. i - 1 \in 1..n /\ i - 1 # n /\ i - 1 + 1 = i
    BY <1>3, <1>1
  <2> QED BY <2>1, NextFrame
<1>9. x.cs[i - 1].f = "C" /\ x.cs[i].from = x.cs[i - 1].l
  BY <1>8 DEF Follows
<1> QED BY <1>3, <1>4, <1>5, <1>6, <1>7, <1>9, Zenon DEF Point

(* lua_resume ends, and its thread is left.                                *)
LEMMA EndsInv ==
    ASSUME NEW x, NEW l, Inv(x), Len(x.cs) >= 1, x.cs[Len(x.cs)].l = l,
           NEW i, RawAt(x, l, i), x.cs[i].f = "lua_resume", NEW ok \in BOOLEAN,
           NEW w, Only(x, w, l), IsSeq(w.cs), Len(w.cs) = i,
           \A j \in 1..i : w.cs[j] = x.cs[j],
           w.th[l].ci = x.th[l].ci,
           w.th[l].status = "YIELD" =>
               /\ Len(x.th[l].ci) >= 2
               /\ ci(x, l).fn \in {"yield", "yieldk"}
               /\ \A j \in 2..(Len(x.th[l].ci) - 1) : Fine(x.th[l].ci[j]),
           w.th[l].status = "OK" => Len(x.th[l].ci) = 1 /\ ok
    PROVE  Inv(ResumeEnds(w, ok))
<1> DEFINE n == Len(x.cs)
           p == Len(x.th[l].ci)
           m == i - 1
<1>1. n \in Nat /\ n >= 1 /\ l \in Threads /\ IsSeq(x.cs) /\ InChain(x, l)
  BY InvTop, Zenon
<1>2. /\ i \in 2..n /\ i \in Nat /\ l # Main /\ FrameOK(x.cs[i])
      /\ \A j \in 1..(i - 1) : x.cs[j].l # l
      /\ Uncrossed(x, l, i) = {} /\ Uncrossed(x, l, i - 1) = {}
      /\ x.cs[i - 1].f = "C" /\ x.cs[i].from = x.cs[i - 1].l
  <2>1. Point(x, l, i)
    BY ResumePoint
  <2> QED BY <2>1 DEF Point
<1>3. /\ m \in Nat /\ m \in 1..n /\ m \in 0..n /\ m >= 1 /\ m \in 1..i /\ i \in 1..i
      /\ \A j \in 1..m : j \in 1..i
  <2>1. i \in 2..n
    BY <1>2, Zenon
  <2> HIDE DEF n
  <2> QED BY <2>1, <1>1
<1>4. /\ p \in Nat /\ p >= 1 /\ p \in 1..p /\ ThreadInv(x.th[l]) /\ Shaped(x, l)
      /\ ci(x, l) = x.th[l].ci[p] /\ CallInfoOK(ci(x, l))
  BY <1>1, InvThread
<1>5. Shaped(w, l)
  BY OnlyFormed
<1>6. ci(w, l) = ci(x, l)
  BY Zenon DEF ci
<1>7. /\ w.cs[i].l = l /\ w.cs[i].oldnny = 1 /\ w.cs[m].f = "C" /\ w.cs[m].l = w.cs[i].from
  <2>1. x.cs[i].l = l /\ x.cs[i].oldnny = 1
    BY <1>2, Zenon DEF RawAt, FrameOK
  <2> QED BY <2>1, <1>2, <1>3, Zenon
<1>8. ASSUME NEW u, Ended(w, u, l, ok) PROVE Inv(u)
  <2>1. /\ Only(x, u, l) /\ Formed(u.th[l])
        /\ IsSeq(u.cs) /\ Len(u.cs) = m /\ (\A j \in 1..m : u.cs[j] = x.cs[j])
        /\ u.th[l].status = w.th[l].status /\ u.th[l].nny = 1
        /\ u.th[l].ci = x.th[l].ci
    BY <1>3, <1>7, <1>8, OnlyTransitive, OnlyFormed, Zenon DEF Ended
  <2>2. ThreadOK(u.th[l])
    BY <2>1, <1>4, Zenon DEF ThreadInv, ThreadOK, Formed
  <2>3. CallsOK(u.th[l])
    BY <2>1, <1>4, Zenon DEF ThreadInv, CallsOK
  <2>4. Beside(x, u, l)
    BY <2>1, <2>2, <2>3, OnlyBeside, Zenon DEF ThreadInv
  <2>5. ~InChain(u, l)
    BY <1>2, <2>1 DEF InChain
  <2>6. u.th[l].nny = Cardinality(Uncrossed(x, l, m)) + 1
    <3>1. Cardinality(Uncrossed(x, l, m)) = 0
      BY <1>2, FS_EmptySet
    <3> QED BY <2>1, <3>1
  <2>7. u.th[l].status = "OK" => p = 1 /\ Len(u.th[l].stack) >= 1
    <3>1. SUFFICES ASSUME u.th[l].status = "OK" PROVE p = 1 /\ Len(u.th[l].stack) >= 1
      BY Zenon
    <3>2. p = 1 /\ ok
      BY <3>1, <2>1, Zenon
    <3>3. ci(w, l).func = 1
      BY <3>2, <1>4, <1>6, Zenon DEF ThreadInv, CallsOK
    <3> DEFINE k == Len(w.th[l].stack)
               s == w.th[l].stack
    <3>4. k \in Nat
      BY <1>5, FormedFacts
    <3>5. u.th[l].stack = SubSeq(s, 1, k - lua_gettop(w, l))
      BY <3>2, <1>8 DEF Ended
    <3>6. k - lua_gettop(w, l) = 1
      BY <3>3, <3>4 DEF lua_gettop
    <3> HIDE DEF s
    <3>7. Len(SubSeq(s, 1, 1)) = 1
      BY SubSeqFacts
    <3>8. u.th[l].stack = SubSeq(s, 1, 1)
      BY <3>5, <3>6, Zenon
    <3> QED BY <3>2, <3>7, <3>8
  <2>8. Cuts(x, u, l, m, p)
    <3>1. \A j \in (m + 1)..n : x.cs[j].l = l
      <4>1. \A j \in (m + 1)..n : j \in i..n
        BY <1>2
      <4> QED BY <4>1, Zenon DEF RawAt
    <3>2. Len(u.th[l].ci) = p /\ \A j \in 1..p : u.th[l].ci[j] = x.th[l].ci[j]
      BY <2>1
    <3>3. \A j \in 1..m : x.cs[j].l # l
      BY <1>2, Zenon
    <3>4. x.cs[m].l # l
      BY <3>3, <1>3
    <3>5. n >= 1 /\ x.cs[n].l = l
      BY <1>1, Zenon
    <3> HIDE DEF m, p
    <3>6. p \in 1..Len(x.th[l].ci)
      BY <1>4, Zenon DEF p
    <3>7. Beside(x, u, l) /\ m \in 0..Len(x.cs) /\ IsSeq(u.cs) /\ Len(u.cs) = m
          /\ \A j \in 1..m : u.cs[j] = x.cs[j]
      BY <2>1, <2>4, <1>3
    <3>8. m >= 1 => u.th[l].nny = Cardinality(Uncrossed(x, l, m))
                                  + (IF l = Main \/ ~InChain(u, l) THEN 1 ELSE 0)
      BY <2>5, <2>6
    <3>9. InChain(u, l) => /\ u.th[l].status = "OK"
                           /\ \A j \in 2..p : Fine(u.th[l].ci[j]) \/ Framed(u, l, j)
      BY <2>5, Zenon
    <3>10. (~InChain(u, l) /\ u.th[l].status = "OK") => p = 1 /\ Len(u.th[l].stack) >= 1
      BY <2>7, Zenon
    <3>11. \A j \in 1..m : (x.cs[j].l = l /\ x.cs[j].f # "lua_resume") => x.cs[j].ci <= p
      BY <3>3, Zenon
    <3>12. /\ (m >= 1 /\ x.cs[m].l = l /\ x.cs[m].f \in {"C", "luaD_call", "luaD_pcall"}) =>
                 p = x.cs[m].ci
           /\ (m >= 1 /\ x.cs[m].l = l /\ x.cs[m].f = "luaV_execute") => p <= Upper(x, m)
      BY <3>4, Zenon
    <3> QED BY <3>1, <3>2, <3>5, <3>6, <3>7, <3>8, <3>9, <3>10, <3>11, <3>12, Zenon DEF Cuts
  <2> QED BY <2>8, CutsInv
<1>9. ci(w, l).func \in Int
  BY <1>4, <1>6 DEF CallInfoOK
<1>10. Len(w.cs) >= 2 /\ w.cs[Len(w.cs)].l = l /\ w.cs[Len(w.cs)].oldnny \in Int
       /\ w.cs[Len(w.cs) - 1].f = "C" /\ w.cs[Len(w.cs) - 1].l = w.cs[Len(w.cs)].from
  BY <1>2, <1>7
<1> HIDE DEF n, p, m
<1> QED BY <1>5, <1>8, <1>9, <1>10, ResumeEndsInv

(* What findpcall finds is a protected call with a continuation.           *)
LEMMA FindpcallFacts ==
    ASSUME NEW x, NEW l, Shaped(x, l), findpcall(x, l) # 0
    PROVE  LET p == findpcall(x, l) IN p \in 1..Len(x.th[l].ci) /\ x.th[l].ci[p].ypcall
<1> DEFINE c == x.th[l].ci
           found == {i \in DOMAIN c : c[i].ypcall}
<1>1. IsSeq(c) /\ Len(c) \in Nat /\ DOMAIN c = 1..Len(c)
  BY FormedFacts, SeqIn
<1>2. found # {} /\ findpcall(x, l) = CHOOSE i \in found : \A j \in found : j <= i
  BY Zenon DEF findpcall
<1>3. \E i \in found : \A j \in found : j <= i
  <2>1. found \in SUBSET (1..Len(c))
    BY <1>1
  <2> HIDE DEF found
  <2> QED BY <1>1, <1>2, <2>1, GreatestOf
<1>4. findpcall(x, l) \in found
  <2> HIDE DEF found
  <2> QED BY <1>2, <1>3
<1> QED BY <1>1, <1>4

(* recover, run by lua_resume.                                             *)
LEMMA RecoverInv ==
    ASSUME NEW x, NEW l, Inv(x), Len(x.cs) >= 1, x.cs[Len(x.cs)].l = l,
           NEW i, RawAt(x, l, i), x.cs[i].f = "lua_resume",
           findpcall(CutTo(x, l, i), l) # 0
    PROVE  Inv(recover(CutTo(x, l, i), l))
<1> DEFINE n == Len(x.cs)
           a == CutTo(x, l, i)
           p == findpcall(a, l)
           c == a.th[l].ci[p]
           extra == c.extra
           old_errfunc == c.old_errfunc
           b == seterrorobj(a, l, extra)
           zero == 0
           y == Restored(b, l, p, zero, old_errfunc)
<1>1. /\ n \in Nat /\ n >= 1 /\ l \in Threads /\ IsSeq(x.cs) /\ InChain(x, l)
      /\ x.th[l].status = "OK"
  BY InvTop
<1>2. /\ i \in 2..n /\ i \in 1..n /\ i \in Nat /\ l # Main /\ FrameOK(x.cs[i])
      /\ \A j \in 1..(i - 1) : x.cs[j].l # l
      /\ Uncrossed(x, l, i) = {}
  <2>1. Point(x, l, i)
    BY ResumePoint
  <2>2. i \in 1..n /\ i \in Nat
    BY <2>1 DEF Point
  <2> QED BY <2>1, <2>2 DEF Point
<1>3. Len(x.th[l].ci) \in Nat /\ ThreadInv(x.th[l]) /\ Shaped(x, l)
  BY <1>1, InvThread
<1>4. recover(a, l) = finishCcall(y, l, TRUE)
  BY DEF recover, Restored
<1>5. /\ Only(x, a, l) /\ IsSeq(a.cs) /\ Len(a.cs) = i /\ (\A j \in 1..i : a.cs[j] = x.cs[j])
      /\ a.th[l].status = "OK" /\ a.th[l].ci = x.th[l].ci
  BY <1>1, <1>2, <1>3, CutToFacts
<1>6. findpcall(a, l) # 0
  OBVIOUS
<1> HIDE DEF a
<1>7. Shaped(a, l)
  BY <1>5, OnlyFormed
<1>8. p \in 1..Len(x.th[l].ci) /\ x.th[l].ci[p].ypcall
  BY <1>5, <1>6, <1>7, FindpcallFacts
<1> HIDE DEF p
<1>9. p \in 2..Len(x.th[l].ci) /\ p \in Nat
  <2>1. p # 1
    BY <1>3, <1>8 DEF ThreadInv, CallsOK
  <2> QED BY <2>1, <1>3, <1>8
<1>10. x.th[l].ci[p].k /\ \A j \in 2..p : Fine(x.th[l].ci[j])
  <2>1. x.th[l].ci[p].k
    BY <1>3, <1>8, <1>9 DEF ThreadInv, CallsOK, Continues
  <2>2. \A j \in 2..(p - 1) : Fine(x.th[l].ci[j])
    BY <1>3, <1>9, <2>1 DEF ThreadInv, CallsOK
  <2>3. \A j \in 2..p : j \in 2..(p - 1) \/ j = p
    BY <1>9
  <2> QED BY <2>1, <2>2, <2>3, Zenon DEF Fine
<1>11. extra \in Int
  <2>1. extra \in Nat
    BY <1>3, <1>5, <1>8, Zenon DEF ThreadInv, ThreadOK, CallInfoOK
  <2> QED BY <2>1
<1> HIDE DEF c, extra, old_errfunc
<1>12. Likewise(a, b, l)
  BY <1>7, <1>11, SeterrorobjFacts
<1> HIDE DEF b
<1>13. /\ Only(x, b, l) /\ b.cs = a.cs /\ b.th[l].status = "OK" /\ b.th[l].ci = x.th[l].ci
       /\ Shaped(b, l)
  <2>1. Only(a, b, l) /\ b.cs = a.cs /\ b.th[l].status = a.th[l].status
        /\ b.th[l].ci = a.th[l].ci
    BY <1>12 DEF Likewise
  <2>2. Only(x, b, l) /\ Shaped(b, l)
    BY <1>5, <2>1, OnlyTransitive, OnlyFormed
  <2> QED BY <2>1, <2>2, <1>5
<1>14. /\ Only(b, y, l) /\ y.cs = b.cs /\ y.th[l].status = b.th[l].status /\ y.th[l].nny = 0
       /\ Len(y.th[l].ci) = p /\ \A j \in 1..p : y.th[l].ci[j] = b.th[l].ci[j]
  <2>1. p \in 1..Len(b.th[l].ci)
    BY <1>8, <1>13
  <2>2. Shaped(b, l) /\ zero \in Int
    BY <1>13
  <2> HIDE DEF zero
  <2>3. /\ Only(b, y, l) /\ y.cs = b.cs /\ y.th[l].status = b.th[l].status
        /\ y.th[l].nny = zero
        /\ Len(y.th[l].ci) = p /\ \A j \in 1..p : y.th[l].ci[j] = b.th[l].ci[j]
    BY <2>1, <2>2, RestoredFacts
  <2> QED BY <2>3 DEF zero
<1> HIDE DEF y
<1>15. /\ Only(x, y, l) /\ y.cs = a.cs /\ y.th[l].status = "OK"
       /\ \A j \in 1..p : y.th[l].ci[j] = x.th[l].ci[j]
  BY <1>13, <1>14, OnlyTransitive
<1>16. /\ IsSeq(y.cs) /\ Len(y.cs) = i /\ \A j \in 1..i : y.cs[j] = x.cs[j]
  BY <1>5, <1>15
<1>17. Beside(x, y, l)
  <2>1. Shortened(x, y, l, i, p)
    BY <1>1, <1>14, <1>15, <1>16 DEF Shortened
  <2> QED BY <2>1, <1>1, <1>8, ShortenedThread, Zenon
<1>18. x.cs[i].l = l /\ \A j \in i..n : x.cs[j].l = l
  BY DEF RawAt
<1>19. InChain(y, l)
  <2>1. i \in 1..i /\ y.cs[i] = x.cs[i]
    BY <1>2, <1>16
  <2> QED BY <2>1, <1>16, <1>18, Zenon DEF InChain
<1>20. Cuts(x, y, l, i, p)
  <2>1. \A j \in 1..i : x.cs[j].l = l => x.cs[j].f = "lua_resume"
    <3>1. \A j \in 1..i : j \in 1..(i - 1) \/ j = i
      BY <1>2
    <3> QED BY <3>1, <1>2
  <2>2. \A j \in (i + 1)..n : x.cs[j].l = l
    <3>1. \A j \in (i + 1)..n : j \in i..n
      BY <1>2
    <3> QED BY <3>1, <1>18
  <2>3. y.th[l].nny = Cardinality(Uncrossed(x, l, i)) + 0
    <3>1. Cardinality(Uncrossed(x, l, i)) = 0
      BY <1>2, FS_EmptySet
    <3> QED BY <3>1, <1>14
  <2>4. \A j \in 2..p : Fine(y.th[l].ci[j])
    <3>1. \A j \in 2..p : j \in 1..p
      BY <1>9
    <3> QED BY <3>1, <1>10, <1>15
  <2>5. i \in 0..n
    BY <1>2
  <2>6. n >= 1 /\ x.cs[n].l = l
    BY <1>1
  <2> QED BY <2>1, <2>2, <2>3, <2>4, <2>5, <2>6, <1>2, <1>8, <1>14, <1>15, <1>16, <1>17, <1>19
          DEF Cuts
<1>21. Inv(y)
  BY <1>20, CutsInv, Zenon
<1>22. Len(y.cs) >= 1 /\ y.cs[Len(y.cs)].l = l /\ y.cs[Len(y.cs)].f = "lua_resume"
       /\ Len(y.th[l].ci) >= 2
  <2>1. i \in 1..i
    BY <1>2
  <2> QED BY <2>1, <1>2, <1>9, <1>14, <1>16, <1>18
<1>23. Inv(finishCcall(y, l, TRUE))
  BY <1>21, <1>22, FinishInv
<1> QED BY <1>4, <1>23 DEF a

(* A thread that has failed is dead, with all its call infos.              *)
LEMMA FailedFacts ==
    ASSUME NEW x, NEW l, Shaped(x, l), NEW status \in {"none", "OK", "YIELD", "ERRRUN"}
    PROVE  LET y == Failed(x, l, status)
           IN  /\ Only(x, y, l) /\ y.cs = x.cs /\ y.th[l].status = status
               /\ y.th[l].ci = x.th[l].ci
<1> DEFINE t == x.th[l]
           s == Append(t.stack, Last(t.stack))
           a == [t EXCEPT !.status = status]
           b == [a EXCEPT !.stack = s]
           y == [x EXCEPT !.th[l] = b]
<1>1. Formed(t)
  BY DEF Shaped
<1>2. Failed(x, l, status) = y
  BY DEF Failed, Shaped
<1>3. IsSeq(s)
  <2> DEFINE e == Last(t.stack)
  <2>1. IsSeq(t.stack)
    BY <1>1, Zenon DEF Formed
  <2> HIDE DEF e
  <2>2. IsSeq(Append(t.stack, e))
    BY <2>1, AppendFacts, Zenon
  <2> QED BY <2>2, Zenon DEF e
<1> HIDE DEF s
<1>4. /\ Formed(a) /\ a.status = status /\ a.nny = t.nny /\ a.ci = t.ci
  BY <1>1 DEF Formed
<1> HIDE DEF a
<1>5. /\ Formed(b) /\ b.status = status /\ b.nny = t.nny /\ b.ci = t.ci
  BY <1>3, <1>4 DEF Formed
<1> HIDE DEF b
<1>6. Only(x, y, l) /\ y.cs = x.cs /\ y.th[l] = b
  BY <1>5, NewThread
<1> HIDE DEF y
<1> QED BY <1>2, <1>5, <1>6

(* An error keeps the invariant, whatever catches it: luaD_pcall, recover, *)
(* the resumer or nobody.                                                  *)
LEMMA ThrowInv ==
    ASSUME NEW x, NEW l, Inv(x), Len(x.cs) >= 1, x.cs[Len(x.cs)].l = l
    PROVE  Inv(luaD_throw(x, l, "ERRRUN"))
<1> DEFINE n == Len(x.cs)
           status == "ERRRUN"
<1>1. n \in Nat /\ IsSeq(x.cs) /\ l \in Threads
  BY InvTop
<1>2. PICK i : RawAt(x, l, i)
  BY RawTop
<1>3. i \in 1..n /\ IsRaw(x.cs[i]) /\ x.cs[i].l = l
  BY <1>2 DEF RawAt
<1>4. luaD_throw(x, l, status) = Thrown(x, l, status, i)
  BY <1>1, <1>2, ThrowIs
<1>5. Shaped(x, l)
  BY <1>1, InvThread
<1>6. CASE x.cs[i].f = "luaD_pcall"
  <2> DEFINE y == Unwound(x, l, i)
             z == FinishedCall(y, l, TRUE)
  <2>1. Inv(y) /\ Len(y.cs) = i - 1 /\ \A j \in 1..(i - 1) : y.cs[j] = x.cs[j]
    BY <1>2, <1>6, PcallThrow
  <2>2. CASE i = 1
    BY <1>4, <1>6, <2>1, <2>2 DEF Thrown
  <2>3. CASE i # 1
    <3>1. i > 1 /\ i - 1 \in 1..n /\ i - 1 # n /\ i - 1 + 1 = i /\ i - 1 \in 1..(i - 1)
          /\ i - 1 >= 1
      BY <1>1, <1>3, <2>3
    <3>2. Follows(x, x.cs[i - 1], x.cs[i])
      BY <3>1, NextFrame
    <3>3. x.cs[i - 1].f = "C" /\ x.cs[i - 1].l = l
      BY <1>3, <1>6, <3>2 DEF Follows
    <3>4. Thrown(x, l, status, i) = CReturn(z, l, 2)
      <4>1. Thrown(x, l, status, i) = Returned(x, l, i)
        <5>1. i > 1 /\ i # 1
          BY <3>1
        <5> QED BY <1>6, <5>1 DEF Thrown
      <4> QED BY <4>1 DEF Returned
    <3> HIDE DEF y
    <3>5. Len(y.cs) >= 1 /\ y.cs[Len(y.cs)].f = "C" /\ y.cs[Len(y.cs)].l = l
      BY <2>1, <3>1, <3>3
    <3>6. Likewise(y, z, l)
      BY <1>1, <2>1, InvThread, FinishedCallFacts
    <3> HIDE DEF z
    <3>7. Inv(z) /\ z.cs = y.cs
      BY <2>1, <3>5, <3>6, LikewiseTop
    <3>8. Len(z.cs) >= 1 /\ z.cs[Len(z.cs)].f = "C" /\ z.cs[Len(z.cs)].l = l
      BY <3>5, <3>7
    <3>9. Inv(CReturn(z, l, 2))
      BY <3>7, <3>8, CReturnInv
    <3> QED BY <1>4, <3>4, <3>9
  <2> QED BY <2>2, <2>3
<1>7. CASE x.cs[i].f = "lua_resume"
  <2> DEFINE y == CutTo(x, l, i)
             z == Failed(y, l, status)
  <2>1. CASE findpcall(y, l) # 0
    <3>1. Thrown(x, l, status, i) = recover(y, l)
      BY <1>7, <2>1 DEF Thrown
    <3>2. Inv(recover(y, l))
      BY <1>2, <1>7, <2>1, RecoverInv
    <3> QED BY <1>4, <3>1, <3>2
  <2>2. CASE ~(findpcall(y, l) # 0)
    <3>1. Thrown(x, l, status, i) = ResumeEnds(z, FALSE)
      BY <1>7, <2>2 DEF Thrown
    <3>2. /\ Only(x, y, l) /\ IsSeq(y.cs) /\ Len(y.cs) = i
          /\ \A j \in 1..i : y.cs[j] = x.cs[j]
          /\ y.th[l].ci = x.th[l].ci
      BY <1>1, <1>3, <1>5, CutToFacts
    <3> HIDE DEF y
    <3>3. Shaped(y, l)
      BY <3>2, OnlyFormed
    <3>4. Only(y, z, l) /\ z.cs = y.cs /\ z.th[l].status = "ERRRUN" /\ z.th[l].ci = y.th[l].ci
      BY <3>3, FailedFacts
    <3> HIDE DEF z
    <3>5. Only(x, z, l)
      BY <3>2, <3>4, OnlyTransitive
    <3>6. /\ IsSeq(z.cs) /\ Len(z.cs) = i /\ (\A j \in 1..i : z.cs[j] = x.cs[j])
          /\ z.th[l].ci = x.th[l].ci
      BY <3>2, <3>4, Zenon
    <3>7. Inv(ResumeEnds(z, FALSE))
      <4>1. z.th[l].status # "YIELD" /\ z.th[l].status # "OK" /\ FALSE \in BOOLEAN
        BY <3>4
      <4> QED BY <1>2, <1>7, <3>5, <3>6, <4>1, EndsInv, Zenon
    <3> QED BY <1>4, <3>1, <3>7
  <2> QED BY <2>1, <2>2
<1> QED BY <1>3, <1>6, <1>7, Zenon DEF IsRaw

(* luaG_runerror keeps the invariant.                                      *)
LEMMA RunerrorInv ==
    ASSUME NEW x, NEW l, Inv(x), Len(x.cs) >= 1, x.cs[Len(x.cs)].l = l
    PROVE  Inv(luaG_runerror(x, l))
<1> DEFINE e == <<"E">>
           y == Push(x, l, e)
           z == luaG_errormsg(y, l)
<1>1. l \in Threads /\ Shaped(x, l)
  BY InvTop, InvThread
<1>2. IsSeq(e)
  BY TupleFacts
<1>3. luaG_runerror(x, l) = luaD_throw(z, l, "ERRRUN")
  BY DEF luaG_runerror
<1> HIDE DEF e
<1>4. Likewise(x, y, l)
  BY <1>1, <1>2, PushFacts, Zenon
<1> HIDE DEF y
<1>5. Shaped(y, l)
  BY <1>4, OnlyFormed DEF Likewise
<1>6. Likewise(y, z, l)
  BY <1>5, ErrormsgFacts
<1> HIDE DEF z
<1>7. Likewise(x, z, l)
  BY <1>4, <1>6, LikewiseTransitive
<1>8. Inv(z) /\ z.cs = x.cs
  BY <1>7, LikewiseTop, Zenon
<1>9. Len(z.cs) >= 1 /\ z.cs[Len(z.cs)].l = l
  BY <1>8
<1> QED BY <1>3, <1>8, <1>9, ThrowInv

(* lua_yieldk leaves the C stack to lua_resume.                            *)
SetStatus(x, l, s) == [x EXCEPT !.th[l].status = s]

(* Another status, and the rest stays.                                     *)
LEMMA SetStatusFacts ==
    ASSUME NEW x, NEW l, Shaped(x, l), NEW s \in {"none", "OK", "YIELD", "ERRRUN"}
    PROVE  LET y == SetStatus(x, l, s)
           IN  /\ Only(x, y, l) /\ y.cs = x.cs /\ y.th[l].status = s
               /\ y.th[l].nny = x.th[l].nny
               /\ y.th[l].ci = x.th[l].ci /\ y.th[l].stack = x.th[l].stack
<1> DEFINE t == x.th[l]
           a == [t EXCEPT !.status = s]
           y == [x EXCEPT !.th[l] = a]
<1>1. Formed(t)
  BY DEF Shaped
<1>2. SetStatus(x, l, s) = y
  BY DEF SetStatus, Shaped
<1>3. /\ Formed(a) /\ a.status = s /\ a.nny = t.nny /\ a.ci = t.ci /\ a.stack = t.stack
  BY <1>1 DEF Formed
<1> HIDE DEF a
<1>4. Only(x, y, l) /\ y.cs = x.cs /\ y.th[l] = a
  BY <1>3, NewThread
<1> HIDE DEF y
<1> QED BY <1>2, <1>3, <1>4

(* lua_yieldk keeps the invariant, in a thread that may yield and in one   *)
(* that may not.                                                           *)
LEMMA YieldInv ==
    ASSUME NEW x, NEW l, Inv(x), Len(x.cs) >= 1, x.cs[Len(x.cs)].l = l,
           x.cs[Len(x.cs)].f = "C", NEW n \in Int, NEW k \in BOOLEAN,
           ci(x, l).fn = (IF k THEN "yieldk" ELSE "yield"),
           Len(x.th[l].stack) - n \in Nat
    PROVE  Inv(lua_yieldk(x, l, n, k))
<1> DEFINE top == Len(x.cs)
           p == Len(x.th[l].ci)
<1>1. top \in Nat /\ IsSeq(x.cs) /\ l \in Threads /\ FrameOK(x.cs[top]) /\ x.cs[top].ci = p
  BY InvTop
<1>2. /\ p \in Nat /\ p >= 1 /\ Shaped(x, l) /\ x.th[l].nny \in Int /\ Len(x.th[l].stack) \in Nat
      /\ ThreadInv(x.th[l]) /\ ci(x, l) = x.th[l].ci[p] /\ CallInfoOK(ci(x, l))
  BY <1>1, InvThread, ZenonT(40) DEF Formed, IsSeq
<1>3. p >= 2 /\ p \in 2..p
  BY <1>1, <1>2 DEF FrameOK
<1>4. CASE x.th[l].nny > 0
  BY <1>4, RunerrorInv, Zenon DEF lua_yieldk
<1>5. CASE ~(x.th[l].nny > 0)
  <2> DEFINE c == ci(x, l)
             f == c.func
             e == Len(x.th[l].stack) - n
             c1 == With_extra(c, f)
             c2 == With_k(c1, k)
             d == With_func(c2, e)
             y == SetCi(x, l, d)
             z == SetStatus(y, l, "YIELD")
  <2>1. lua_yieldk(x, l, n, k) = luaD_throw(z, l, "YIELD")
    BY <1>5 DEF lua_yieldk, With_extra, With_k, With_func, SetStatus
  <2>2. /\ \A i \in 1..Len(x.cs) : x.cs[i].l = l => x.cs[i].f # "luaD_pcall"
        /\ \A i \in 2..(p - 1) : Fine(x.th[l].ci[i])
    BY <1>5, MayYield, Zenon
  <2>3. Continues(c)
    BY <1>2, <1>3, Zenon DEF ThreadInv, CallsOK
  <2>4. e \in Nat /\ f \in Nat /\ c.fn = (IF k THEN "yieldk" ELSE "yield")
    <3>1. e \in Nat
      BY Zenon
    <3>2. f \in Nat
      <4>1. CallInfoOK(c)
        BY <1>2
      <4> QED BY <4>1 DEF CallInfoOK
    <3> QED BY <3>1, <3>2
  <2>5. CallInfoOK(c)
    BY <1>2
  <2> HIDE DEF e, f, c
  <2>6. CallInfoOK(c1) /\ c1.fn = c.fn /\ c1.fresh = c.fresh /\ c1.ypcall = c.ypcall
    BY <2>4, <2>5, Sets_extra
  <2> HIDE DEF c1
  <2>7. CallInfoOK(c2) /\ c2.fn = c.fn /\ c2.fresh = c.fresh /\ c2.ypcall = c.ypcall /\ c2.k = k
    BY <2>6, Sets_k
  <2> HIDE DEF c2
  <2>8. CallInfoOK(d) /\ d.fn = c.fn /\ d.fresh = c.fresh /\ d.ypcall = c.ypcall /\ d.k = k
    <3>1. CallInfoOK(c2) /\ e \in Nat
      BY <2>4, <2>7
    <3>2. CallInfoOK(d) /\ d.fn = c2.fn /\ d.fresh = c2.fresh /\ d.ypcall = c2.ypcall /\ d.k = c2.k
      BY <3>1, Sets_func
    <3> QED BY <3>2, <2>7
  <2> HIDE DEF d
  <2>9. Continues(d) /\ (Fine(c) => Fine(d))
    BY <2>3, <2>4, <2>8 DEF Continues, Fine, isLua
  <2>10. Inv(y) /\ ci(y, l) = d
    <3>1. /\ d.fn = ci(x, l).fn /\ d.fresh = ci(x, l).fresh
          /\ Fine(ci(x, l)) => Fine(d)
      BY <2>8, <2>9 DEF c
    <3>2. d.k => \A i \in 2..(Len(x.th[l].ci) - 1) : Fine(x.th[l].ci[i])
      BY <2>2
    <3>3. CallInfoOK(d) /\ Continues(d)
      BY <2>8, <2>9
    <3> HIDE DEF top, p
    <3>4. Len(x.th[l].ci) >= 2
      BY <1>3 DEF p
    <3>5. MayBecome(x, l, d)
      BY <3>1, <3>2, <3>3, <3>4, Zenon DEF MayBecome
    <3> QED BY <3>5, SetCiInv
  <2>11. /\ y.cs = x.cs /\ Shaped(y, l) /\ Len(y.th[l].ci) = p
         /\ \A i \in 1..(p - 1) : y.th[l].ci[i] = x.th[l].ci[i]
    <3>1. Shaped(x, l)
      BY <1>2
    <3>2. Only(x, y, l) /\ y.cs = x.cs /\ Len(y.th[l].ci) = p
          /\ \A i \in 1..(p - 1) : y.th[l].ci[i] = x.th[l].ci[i]
      BY <3>1, SetCiFacts
    <3>3. Shaped(y, l)
      BY <3>2, OnlyFormed, Zenon
    <3> HIDE DEF y
    <3> QED BY <3>2, <3>3, Zenon
  <2> HIDE DEF y
  <2>12. /\ Only(y, z, l) /\ z.cs = x.cs /\ z.th[l].status = "YIELD"
         /\ z.th[l].ci = y.th[l].ci
    <3>1. Shaped(y, l)
      BY <2>11, Zenon
    <3>2. /\ Only(y, z, l) /\ z.cs = y.cs /\ z.th[l].status = "YIELD"
          /\ z.th[l].ci = y.th[l].ci
      BY <3>1, SetStatusFacts
    <3> QED BY <3>2, <2>11
  <2> HIDE DEF z
  <2>13. Len(y.cs) >= 1 /\ y.cs[Len(y.cs)].l = l
    BY <2>11
  <2>14. PICK i : RawAt(y, l, i)
    BY <2>10, <2>13, RawTop, Zenon
  <2>15. RawAt(z, l, i) /\ i \in 1..Len(x.cs) /\ i \in 1..Len(z.cs)
         /\ y.cs[i].f = "lua_resume" /\ z.cs[i].f = "lua_resume"
    BY <2>2, <2>11, <2>12, <2>14 DEF RawAt, IsRaw
  <2> DEFINE w == CutTo(z, l, i)
  <2>16. luaD_throw(z, l, "YIELD") = ResumeEnds(w, TRUE)
    <3>1. IsSeq(z.cs)
      BY <1>1, <2>12
    <3>2. luaD_throw(z, l, "YIELD") = Thrown(z, l, "YIELD", i)
      BY <3>1, <2>15, ThrowIs
    <3>3. Thrown(z, l, "YIELD", i) = ResumeEnds(w, TRUE)
      BY <2>15 DEF Thrown
    <3> QED BY <3>2, <3>3
  <2>17. /\ Only(z, w, l) /\ IsSeq(w.cs) /\ Len(w.cs) = i
         /\ (\A j \in 1..i : w.cs[j] = z.cs[j])
         /\ w.th[l].status = z.th[l].status /\ w.th[l].ci = z.th[l].ci
    <3>1. Shaped(z, l) /\ IsSeq(z.cs)
      BY <1>1, <2>12, OnlyFormed
    <3> QED BY <3>1, <2>15, CutToFacts
  <2> HIDE DEF w
  <2>18. /\ Only(y, w, l) /\ (\A j \in 1..i : w.cs[j] = y.cs[j])
         /\ w.th[l].status = "YIELD" /\ w.th[l].ci = y.th[l].ci
    BY <2>11, <2>12, <2>17, OnlyTransitive
  <2>19. /\ Len(y.th[l].ci) >= 2 /\ ci(y, l).fn \in {"yield", "yieldk"}
         /\ \A j \in 2..(Len(y.th[l].ci) - 1) : Fine(y.th[l].ci[j])
    <3>1. \A j \in 2..(p - 1) : j \in 1..(p - 1)
      BY <1>2
    <3> QED BY <3>1, <1>3, <2>2, <2>4, <2>8, <2>10, <2>11, Zenon
  <2>20. Inv(ResumeEnds(w, TRUE))
    <3> HIDE DEF top, p
    <3>1. w.th[l].status = "OK" => Len(y.th[l].ci) = 1 /\ TRUE
      BY <2>18
    <3>2. IsSeq(w.cs) /\ Len(w.cs) = i
      BY <2>17
    <3> QED BY <3>1, <3>2, <2>10, <2>13, <2>14, <2>15, <2>18, <2>19, EndsInv
  <2> QED BY <2>1, <2>16, <2>20, Zenon
<1> QED BY <1>4, <1>5

-----------------------------------------------------------------------------
(* Resumptions.                                                            *)

(* The thread l as lua_resume finds it, with its frame.                    *)
Resuming(x, w, l, r) ==
    LET n == Len(x.cs)
    IN  /\ Only(x, w, l) /\ IsSeq(w.cs) /\ Len(w.cs) = n + 1
        /\ (\A i \in 1..n : w.cs[i] = x.cs[i]) /\ w.cs[n + 1] = r
        /\ w.th[l].status = x.th[l].status /\ w.th[l].nny = 0
        /\ w.th[l].ci = x.th[l].ci /\ w.th[l].stack = x.th[l].stack
        /\ r.f = "lua_resume" /\ r.l = l /\ r.from = x.cs[n].l /\ r.oldnny = x.th[l].nny

(* lua_resume comes to resume in such a machine.                           *)
LEMMA ResumingFacts ==
    ASSUME NEW x, NEW from, NEW l \in Threads, NEW n \in Int, Inv(x), Len(x.cs) >= 1,
           x.cs[Len(x.cs)].f = "C", x.cs[Len(x.cs)].l = from
    PROVE  \E w, r : Resuming(x, w, l, r) /\ lua_resume(x, from, l, n) = resume(w, l, n)
<1> DEFINE nCcalls == x.th[from].nCcalls + 1
           t == x.th[l]
           nny == t.nny
           r == [f |-> "lua_resume", l |-> l, from |-> from, oldnny |-> nny,
                 nCcalls |-> nCcalls, ci |-> 0, nny |-> 0, errfunc |-> 0, oldtop |-> 1]
           a == [t EXCEPT !.nCcalls = nCcalls]
           zero == 0
           b == [a EXCEPT !.nny = zero]
           z == [x EXCEPT !.th[l] = b]
           w == PushC(z, r)
<1>1. IsSeq(x.cs)
  BY InvTop
<1>2. Shaped(x, l) /\ Formed(t)
  BY InvThread
<1>3. lua_resume(x, from, l, n) = resume(w, l, n)
  BY <1>2, Zenon DEF lua_resume, Shaped
<1>4. r.f = "lua_resume" /\ r.l = l /\ r.from = from /\ r.oldnny = nny
  OBVIOUS
<1>5. zero \in Int
  OBVIOUS
<1> HIDE DEF r, nCcalls, nny, zero
<1>6. /\ Formed(a) /\ a.status = t.status /\ a.ci = t.ci /\ a.stack = t.stack
  BY <1>2, CcallsFormed
<1> HIDE DEF a
<1>7. /\ Formed(b) /\ b.status = t.status /\ b.nny = zero /\ b.ci = t.ci
      /\ b.stack = t.stack
  BY <1>5, <1>6, NnyFormed
<1> HIDE DEF b
<1>8. Only(x, z, l) /\ z.cs = x.cs /\ z.th[l] = b
  BY <1>2, <1>7, NewThread
<1> HIDE DEF z
<1>9. Shaped(z, l) /\ IsSeq(z.cs)
  BY <1>1, <1>8, OnlyFormed
<1>10. /\ Only(z, w, l) /\ w.th = z.th /\ IsSeq(w.cs) /\ Len(w.cs) = Len(z.cs) + 1
       /\ w.cs[Len(z.cs) + 1] = r /\ \A i \in 1..Len(z.cs) : w.cs[i] = z.cs[i]
  BY <1>9, PushCFacts
<1> HIDE DEF w
<1>11. Only(x, w, l)
  BY <1>8, <1>10, OnlyTransitive
<1>12. Resuming(x, w, l, r)
  BY <1>4, <1>7, <1>8, <1>10, <1>11 DEF Resuming, zero, nny
<1> QED BY <1>3, <1>12

(* A thread that goes on is not in the chain.                              *)
LEMMA NotInChain ==
    ASSUME NEW x, NEW l \in Threads, Inv(x), Len(x.cs) >= 1, x.cs[Len(x.cs)].f = "C",
           x.th[l].status = "YIELD" \/ Len(x.th[l].ci) = 1
    PROVE  ~InChain(x, l)
<1>1. SUFFICES ASSUME InChain(x, l) PROVE FALSE
  OBVIOUS
<1>2. x.th[l].status = "OK" /\ Len(x.th[l].ci) = 1
  BY <1>1 DEF Inv, Statuses
<1>3. x.cs[Len(x.cs)].l = l
  <2>1. x.cs[Len(x.cs)].l # l => Len(x.th[l].ci) >= 2
    BY <1>1 DEF Inv, Statuses
  <2> QED BY <2>1, <1>2
<1>4. FrameOK(x.cs[Len(x.cs)]) /\ x.cs[Len(x.cs)].ci = Len(x.th[l].ci)
  BY <1>3, InvTop
<1> QED BY <1>2, <1>4 DEF FrameOK

(* A thread that has not begun.                                            *)
LEMMA BeginsInv ==
    ASSUME NEW x, NEW w, NEW l \in Threads, NEW r, NEW n \in Int, Inv(x), Len(x.cs) >= 1,
           x.cs[Len(x.cs)].f = "C", Resuming(x, w, l, r),
           x.th[l].status = "OK", Len(x.th[l].ci) = 1,
           Len(x.th[l].stack) - n \in Nat
    PROVE  Inv(luaD_precall(w, l, Len(w.th[l].stack) - n, MULTRET, TRUE))
<1> DEFINE top == Len(x.cs)
<1>1. top \in Nat
  BY InvTop, Zenon
<1>2. ~InChain(x, l)
  BY NotInChain
<1>3. ThreadInv(x.th[l])
  BY InvThread
<1>4. Only(x, w, l) /\ Formed(w.th[l]) /\ Len(w.th[l].stack) \in Nat
  <2>1. Only(x, w, l)
    BY DEF Resuming
  <2>2. Shaped(w, l) /\ Formed(w.th[l])
    BY <2>1, OnlyFormed, Zenon
  <2>3. Len(w.th[l].stack) \in Nat
    BY <2>2, FormedFacts, Zenon
  <2> QED BY <2>1, <2>2, <2>3
<1>5. ThreadInv(w.th[l])
  BY <1>3, <1>4 DEF ThreadInv, ThreadOK, CallsOK, Formed, Resuming
<1>6. Beside(x, w, l)
  BY <1>4, <1>5, OnlyBeside
<1>7. GoesOn(x, w, l, r)
  <2>1. \A i \in 2..Len(w.th[l].ci) : Fine(w.th[l].ci[i])
    BY DEF Resuming
  <2> QED BY <1>2, <1>6, <2>1 DEF GoesOn, Resuming
<1>8. Inv(w)
  BY <1>7, GoesOnInv
<1>9. Len(w.cs) >= 1 /\ w.cs[Len(w.cs)].l = l /\ w.cs[Len(w.cs)].f = "lua_resume"
  BY <1>1 DEF Resuming
<1> DEFINE func == Len(w.th[l].stack) - n
<1>10. func \in Nat /\ MULTRET \in Nat \cup {MULTRET}
  BY DEF Resuming
<1> HIDE DEF func
<1>11. Inv(luaD_precall(w, l, func, MULTRET, TRUE))
  BY <1>8, <1>9, <1>10, PrecallInv
<1> QED BY <1>11 DEF func

(* A thread that yielded.                                                  *)
LEMMA YieldedInv ==
    ASSUME NEW x, NEW w, NEW l \in Threads, NEW r, NEW n \in Int, Inv(x), Len(x.cs) >= 1,
           x.cs[Len(x.cs)].f = "C", Resuming(x, w, l, r), x.th[l].status = "YIELD"
    PROVE  LET c == [ci(w, l) EXCEPT !.func = ci(w, l).extra]
               y == [SetCi(w, l, c) EXCEPT !.th[l].status = "OK"]
           IN  Inv(luaD_poscall(y, l,
                       LastOf(w.th[l].stack, IF c.k THEN Returns(y, l) ELSE n)))
<1> DEFINE d == ci(w, l)
           e == d.extra
           c == With_func(d, e)
           z == SetCi(w, l, c)
           y == SetStatus(z, l, "OK")
           k == IF c.k THEN Returns(y, l) ELSE n
           s == LastOf(w.th[l].stack, k)
           v == luaD_poscall(y, l, s)
           p == Len(x.th[l].ci)
<1>1. SUFFICES Inv(v)
  BY DEF With_func, SetStatus
<1>2. ~InChain(x, l)
  BY NotInChain
<1>3. p \in Nat /\ ThreadInv(x.th[l]) /\ CallInfoOK(x.th[l].ci[p]) /\ Shaped(x, l)
      /\ ci(x, l) = x.th[l].ci[p]
  BY InvThread, Zenon
<1>4. /\ p >= 2 /\ x.th[l].ci[p].fn \in {"yield", "yieldk"}
      /\ \A i \in 2..(p - 1) : Fine(x.th[l].ci[i])
  BY <1>3 DEF ThreadInv, CallsOK
<1>5. Continues(x.th[l].ci[p])
  <2>1. p \in 2..p
    BY <1>3, <1>4
  <2> QED BY <1>3, <2>1 DEF ThreadInv, CallsOK
<1>6. Only(x, w, l) /\ Shaped(w, l) /\ w.th[l].ci = x.th[l].ci /\ w.th[l].nny = 0
      /\ IsSeq(w.th[l].stack)
  BY OnlyFormed, FormedFacts, Zenon DEF Resuming
<1>7. d = x.th[l].ci[p]
  BY <1>3, <1>6, Zenon DEF ci
<1>8. CallInfoOK(d) /\ e \in Nat
  <2>1. CallInfoOK(d)
    BY <1>3, <1>7
  <2> QED BY <2>1 DEF CallInfoOK
<1> HIDE DEF d, e
<1>9. CallInfoOK(c) /\ c.fn = d.fn /\ c.k = d.k
  BY <1>8, Sets_func, Zenon
<1> HIDE DEF c
<1>10. /\ Only(w, z, l) /\ z.cs = w.cs /\ z.th[l].nny = w.th[l].nny
       /\ Len(z.th[l].ci) = p /\ z.th[l].ci[p] = c
       /\ \A i \in 1..(p - 1) : z.th[l].ci[i] = w.th[l].ci[i]
  <2>1. /\ Only(w, z, l) /\ z.cs = w.cs /\ z.th[l].nny = w.th[l].nny
        /\ Len(z.th[l].ci) = Len(w.th[l].ci) /\ z.th[l].ci[Len(w.th[l].ci)] = c
        /\ \A i \in 1..(Len(w.th[l].ci) - 1) : z.th[l].ci[i] = w.th[l].ci[i]
    <3>1. Shaped(w, l)
      BY <1>6, Zenon
    <3> QED BY <3>1, SetCiFacts
  <2>2. Len(w.th[l].ci) = p
    BY <1>6
  <2> QED BY <2>1, <2>2
<1> HIDE DEF z
<1>11. /\ Only(z, y, l) /\ y.cs = z.cs /\ y.th[l].status = "OK"
       /\ y.th[l].nny = z.th[l].nny /\ y.th[l].ci = z.th[l].ci
  <2>1. Shaped(z, l)
    BY <1>10, OnlyFormed, Zenon
  <2> QED BY <2>1, SetStatusFacts
<1> HIDE DEF y
<1>12. Shaped(y, l) /\ ci(y, l) = c
  <2>1. Shaped(y, l)
    BY <1>11, OnlyFormed
  <2>2. ci(y, l) = y.th[l].ci[Len(y.th[l].ci)]
    BY <2>1, FormedFacts
  <2> QED BY <2>1, <2>2, <1>10, <1>11, Zenon
<1>13. k \in Int
  <2>1. CASE c.k
    <3>1. c.fn = "yieldk"
      BY <2>1, <1>4, <1>5, <1>7, <1>9 DEF Continues
    <3>2. c.func \in Int
      BY <1>9 DEF CallInfoOK
    <3>3. Returns(y, l) \in Int
      BY <3>1, <3>2, <1>12, ReturnsInt
    <3> QED BY <2>1, <3>3, Zenon
  <2>2. CASE ~c.k
    BY <2>2
  <2> QED BY <2>1, <2>2
<1> HIDE DEF k
<1>14. IsSeq(s)
  BY <1>6, <1>13, LastOfFacts, Zenon
<1> HIDE DEF s
<1>15. /\ Only(y, v, l) /\ v.cs = y.cs
       /\ v.th[l].status = y.th[l].status /\ v.th[l].nny = y.th[l].nny
       /\ Len(v.th[l].ci) = Len(y.th[l].ci) - 1
       /\ \A i \in 1..(Len(y.th[l].ci) - 1) : v.th[l].ci[i] = y.th[l].ci[i]
  <2>1. Len(y.th[l].ci) >= 2 /\ CallInfoOK(ci(y, l))
    BY <1>4, <1>9, <1>10, <1>11, <1>12, Zenon
  <2>2. Shaped(y, l) /\ IsSeq(s)
    BY <1>12, <1>14, Zenon
  <2> QED BY <2>1, <2>2, PoscallFacts
<1> HIDE DEF v
<1>16. Len(y.th[l].ci) = p
  BY <1>10, <1>11, Zenon
<1>17. /\ v.cs = w.cs /\ v.th[l].status = "OK" /\ v.th[l].nny = 0
       /\ Len(v.th[l].ci) = p - 1
       /\ \A i \in 1..(p - 1) : v.th[l].ci[i] = x.th[l].ci[i]
  BY <1>6, <1>10, <1>11, <1>15, <1>16
<1>18. Only(x, v, l)
  BY <1>6, <1>10, <1>11, <1>15, OnlyTransitive, Zenon
<1>19. ThreadInv(v.th[l])
  <2>1. p - 1 \in 1..p
    BY <1>3, <1>4
  <2>2. Formed(v.th[l])
    BY <1>18, OnlyFormed, Zenon
  <2> DEFINE q == p - 1
  <2>3. q \in 1..p /\ Len(v.th[l].ci) = q /\ \A i \in 1..q : v.th[l].ci[i] = x.th[l].ci[i]
    BY <2>1, <1>17
  <2> HIDE DEF q
  <2> QED BY <2>2, <2>3, <1>3, <1>17, ThreadPrefix
<1>20. Beside(x, v, l)
  BY <1>18, <1>19, OnlyBeside, Zenon
<1>21. GoesOn(x, v, l, r)
  <2>1. \A i \in 2..(p - 1) : i \in 1..(p - 1)
    BY <1>3
  <2>2. \A i \in 2..Len(v.th[l].ci) : Fine(v.th[l].ci[i])
    BY <2>1, <1>4, <1>17, Zenon
  <2> QED BY <2>2, <1>2, <1>17, <1>20, Zenon DEF GoesOn, Resuming
<1> QED BY <1>21, GoesOnInv

(* A thread that cannot be resumed.                                        *)
LEMMA ResumeErrorInv ==
    ASSUME NEW x, NEW w, NEW l \in Threads, NEW r, NEW n \in Int, Inv(x), Len(x.cs) >= 1,
           x.cs[Len(x.cs)].f = "C", Resuming(x, w, l, r),
           ~(x.th[l].status = "OK" /\ Len(x.th[l].ci) = 1)
    PROVE  Inv(resume_error(w, l, n))
<1> DEFINE top == Len(x.cs)
           e == <<"E">>
           a == Drop(w, l, n)
           b == Push(a, l, e)
<1>1. resume_error(w, l, n) = ResumeEnds(b, FALSE)
  BY DEF resume_error
<1>2. IsSeq(e)
  BY TupleFacts
<1>3. top \in Nat /\ IsSeq(x.cs)
  BY InvTop, Zenon
<1>4. Shaped(x, l) /\ CallInfoOK(ci(x, l)) /\ x.th[l].nny \in Int
  BY InvThread, Zenon
<1>5. Only(x, w, l) /\ Shaped(w, l)
  BY OnlyFormed DEF Resuming
<1> HIDE DEF e
<1>6. Likewise(w, a, l)
  BY <1>5, DropFacts, Zenon
<1> HIDE DEF a
<1>7. Likewise(a, b, l)
  BY <1>2, <1>6, OnlyFormed, PushFacts DEF Likewise
<1> HIDE DEF b
<1>8. Likewise(w, b, l)
  BY <1>6, <1>7, LikewiseTransitive
<1>9. Only(x, b, l) /\ Shaped(b, l) /\ b.cs = w.cs
      /\ b.th[l].status = x.th[l].status /\ b.th[l].ci = x.th[l].ci
  BY <1>5, <1>8, OnlyTransitive, OnlyFormed DEF Likewise, Resuming
<1>10. ASSUME NEW u, Ended(b, u, l, FALSE) PROVE Inv(u)
  <2>1. /\ Only(b, u, l) /\ IsSeq(u.cs) /\ Len(u.cs) = Len(b.cs) - 1
        /\ \A i \in 1..(Len(b.cs) - 1) : u.cs[i] = b.cs[i]
        /\ u.th[l].status = b.th[l].status /\ u.th[l].nny = b.cs[Len(b.cs)].oldnny
        /\ u.th[l].ci = b.th[l].ci
    BY <1>10, Zenon DEF Ended
  <2>2. Len(b.cs) = top + 1 /\ Len(b.cs) - 1 = top /\ b.cs[top + 1] = r
    BY <1>3, <1>9 DEF Resuming
  <2>3. Len(u.cs) = top /\ \A i \in 1..top : u.cs[i] = x.cs[i]
    BY <2>1, <2>2, <1>9 DEF Resuming
  <2>4. u.cs = x.cs
    BY <2>1, <2>3, <1>3 DEF IsSeq
  <2>5. u.th[l].nny = x.th[l].nny
    BY <2>1, <2>2 DEF Resuming
  <2>6. Only(x, u, l)
    BY <2>1, <1>9, OnlyTransitive
  <2>7. Likewise(x, u, l)
    BY <2>1, <2>4, <2>5, <2>6, <1>9 DEF Likewise
  <2>8. ~(~InChain(x, l) /\ x.th[l].status = "OK")
    BY DEF Inv, Statuses
  <2> QED BY <2>7, <2>8, LikewiseInv, Zenon
<1>11. /\ IsSeq(b.cs) /\ Len(b.cs) >= 2 /\ b.cs[Len(b.cs)].l = l
       /\ b.cs[Len(b.cs)].oldnny \in Int
       /\ b.cs[Len(b.cs) - 1].f = "C" /\ b.cs[Len(b.cs) - 1].l = b.cs[Len(b.cs)].from
  <2>1. Len(b.cs) = top + 1 /\ Len(b.cs) - 1 = top /\ b.cs[top + 1] = r /\ b.cs[top] = x.cs[top]
        /\ IsSeq(b.cs)
    BY <1>3, <1>9 DEF Resuming
  <2> QED BY <2>1, <1>3, <1>4 DEF Resuming
<1>12. ci(b, l).func \in Int
  BY <1>4, <1>9 DEF ci, CallInfoOK
<1> HIDE DEF top
<1>13. FALSE \in BOOLEAN
  OBVIOUS
<1>14. Inv(ResumeEnds(b, FALSE))
  BY <1>9, <1>10, <1>11, <1>12, <1>13, ResumeEndsInv
<1> QED BY <1>1, <1>14, Zenon

(* lua_resume keeps the invariant, whether the thread can be resumed or    *)
(* not.                                                                    *)
LEMMA LuaResumeInv ==
    ASSUME NEW x, NEW from, NEW l \in Threads, NEW n \in Int, Inv(x), Len(x.cs) >= 1,
           x.cs[Len(x.cs)].f = "C", x.cs[Len(x.cs)].l = from,
           Len(x.th[l].stack) - n \in Nat
    PROVE  Inv(lua_resume(x, from, l, n))
<1>1. PICK w, r : Resuming(x, w, l, r) /\ lua_resume(x, from, l, n) = resume(w, l, n)
  BY ResumingFacts
<1>2. w.th[l].status = x.th[l].status /\ w.th[l].ci = x.th[l].ci
  BY <1>1 DEF Resuming
<1>3. CASE x.th[l].status = "OK" /\ Len(x.th[l].ci) = 1
  <2>1. resume(w, l, n) = luaD_precall(w, l, Len(w.th[l].stack) - n, MULTRET, TRUE)
    BY <1>2, <1>3 DEF resume
  <2> QED BY <2>1, <1>1, <1>3, BeginsInv, Zenon
<1>4. CASE x.th[l].status = "YIELD"
  <2> DEFINE c == [ci(w, l) EXCEPT !.func = ci(w, l).extra]
             y == [SetCi(w, l, c) EXCEPT !.th[l].status = "OK"]
             v == luaD_poscall(y, l, LastOf(w.th[l].stack, IF c.k THEN Returns(y, l) ELSE n))
  <2>1. Inv(v)
    BY <1>1, <1>4, YieldedInv
  <2>2. resume(w, l, n) = v
    BY <1>2, <1>4 DEF resume
  <2> HIDE DEF v
  <2> QED BY <2>1, <2>2, <1>1
<1>5. CASE ~(x.th[l].status = "OK" /\ Len(x.th[l].ci) = 1) /\ x.th[l].status # "YIELD"
  <2>1. resume(w, l, n) = resume_error(w, l, n)
    BY <1>2, <1>5 DEF resume
  <2> QED BY <2>1, <1>1, <1>5, ResumeErrorInv
<1> QED BY <1>3, <1>4, <1>5

(* coroutine.resume and the functions of coroutine.wrap.                   *)
LEMMA StartResumeInv ==
    ASSUME NEW x, NEW from, NEW co \in Threads, NEW n \in Nat, Inv(x), Len(x.cs) >= 1,
           x.cs[Len(x.cs)].f = "C", x.cs[Len(x.cs)].l = from
    PROVE  Inv(StartResume(x, from, co, n))
<1>1. CASE x.th[co].status = "OK" /\ lua_gettop(x, co) = 0
  <2> DEFINE s == <<"E">>
             v == <<"false", "E">>
             y == Push(x, from, s)
  <2>1. IsSeq(s) /\ IsSeq(v) /\ 1 \in Int
    <3>1. IsSeq(s)
      BY TupleFacts, Zenon
    <3>2. IsSeq(v)
      BY TupleFacts
    <3> QED BY <3>1, <3>2
  <2>2. StartResume(x, from, co, n) = IF ci(x, from).fn = "resume"
                                      THEN PopC(luaD_poscall(y, from, v)) ELSE Raising(y)
    BY <1>1 DEF StartResume, Raising
  <2> HIDE DEF s, v
  <2>3. Inv(PopC(luaD_poscall(y, from, v))) /\ Inv(Raising(y))
    BY <2>1, AnswersInv
  <2> QED BY <2>2, <2>3
<1>2. CASE ~(x.th[co].status = "OK" /\ lua_gettop(x, co) = 0)
  <2> DEFINE a == Drop(x, from, n)
             s == LastOf(x.th[from].stack, n)
             b == Push(a, co, s)
  <2>1. from \in Threads /\ Shaped(x, from)
    BY InvTop, InvThread
  <2>2. IsSeq(s)
    BY <2>1, FormedFacts, LastOfFacts
  <2>3. StartResume(x, from, co, n) = lua_resume(b, from, co, n)
    BY <1>2 DEF StartResume
  <2> HIDE DEF s
  <2>4. Likewise(x, a, from)
    BY <2>1, DropFacts
  <2>5. Inv(a) /\ a.cs = x.cs
    BY <2>4, LikewiseTop, Zenon
  <2> HIDE DEF a
  <2>6. Shaped(a, co) /\ IsSeq(a.th[co].stack)
    BY <2>5, InvThread, FormedFacts, Zenon
  <2>7. Likewise(a, b, co) /\ b.th[co].stack = a.th[co].stack \o s
    BY <2>2, <2>6, PushFacts
  <2> HIDE DEF b
  <2>8. ~InChain(a, co) /\ a.th[co].status = "OK" => Len(b.th[co].stack) >= 1
    <3>1. SUFFICES ASSUME ~InChain(a, co), a.th[co].status = "OK"
                   PROVE  Len(b.th[co].stack) >= 1
      OBVIOUS
    <3>2. Len(a.th[co].stack) >= 1
      BY <3>1, <2>5, Zenon DEF Inv, Statuses
    <3>3. Len(b.th[co].stack) = Len(a.th[co].stack) + Len(s)
      BY <2>2, <2>6, <2>7, ConcatFacts
    <3>4. Len(a.th[co].stack) \in Nat /\ Len(s) \in Nat
      BY <2>2, <2>6, Zenon DEF IsSeq
    <3> QED BY <3>2, <3>3, <3>4
  <2>9. Inv(b)
    BY <2>5, <2>7, <2>8, LikewiseInv, Zenon
  <2>10. b.cs = x.cs
    BY <2>5, <2>7 DEF Likewise
  <2>11. Len(b.cs) >= 1 /\ b.cs[Len(b.cs)].f = "C" /\ b.cs[Len(b.cs)].l = from
    BY <2>10
  <2>12. Len(b.th[co].stack) - n \in Nat
    <3>1. Len(b.th[co].stack) = Len(a.th[co].stack) + Len(s)
      BY <2>2, <2>6, <2>7, ConcatFacts
    <3>2. Len(s) = n
      <4> DEFINE k == Len(x.th[from].stack)
      <4>1. k \in Nat
        BY <2>1, FormedFacts
      <4>2. Len(s) = IF k - n + 1 <= k THEN k - (k - n + 1) + 1 ELSE 0
        BY <4>1, SubSeqFacts DEF s, LastOf
      <4> QED BY <4>1, <4>2
    <3>3. Len(a.th[co].stack) \in Nat
      BY <2>6 DEF IsSeq
    <3> QED BY <3>1, <3>2, <3>3
  <2>13. Inv(lua_resume(b, from, co, n))
    BY <2>9, <2>11, <2>12, LuaResumeInv
  <2> QED BY <2>3, <2>13
<1> QED BY <1>1, <1>2

-----------------------------------------------------------------------------
(* The steps.                                                              *)

(* The machine of the next state.                                          *)
LEMMA BecomeInv ==
    ASSUME NEW y, Inv(y), Become(y)
    PROVE  IInv'
<1>1. y = [th |-> y.th, cs |-> y.cs]
  BY DEF Inv, MachineOK
<1>2. Machine' = [th |-> y.th, cs |-> y.cs]
  BY DEF Become, Machine
<1> QED BY <1>1, <1>2, Zenon DEF IInv

(* What runs.                                                              *)
LEMMA Runs ==
    ASSUME NEW f, IInv, On(f)
    PROVE  /\ Inv(Machine) /\ Len(Machine.cs) >= 1
           /\ Machine.cs[Len(Machine.cs)].l = Running /\ Machine.cs[Len(Machine.cs)].f = f
           /\ Machine.cs = cstack /\ Machine.th = threads
           /\ Running \in Threads /\ Shaped(Machine, Running)
           /\ Last(cstack) = cstack[Len(cstack)]
<1>1. Machine.cs = cstack /\ Machine.th = threads /\ Inv(Machine)
  BY DEF Machine, IInv
<1>2. IsSeq(cstack)
  BY <1>1 DEF Inv, MachineOK
<1>3. cstack # <<>> /\ Last(cstack).f = f
  BY DEF On
<1>4. Len(cstack) >= 1
  BY <1>2, <1>3, NotEmptySeq
<1>5. Last(cstack) = cstack[Len(cstack)]
  BY <1>2, <1>4, FrontFacts
<1>6. Running = cstack[Len(cstack)].l
  BY <1>5 DEF Running
<1>7. Running \in Threads
  BY <1>1, <1>4, <1>6, InvTop
<1>8. Shaped(Machine, Running)
  BY <1>1, <1>7, InvThread
<1> QED BY <1>1, <1>3, <1>4, <1>5, <1>6, <1>7, <1>8

(* The values of the function that runs.                                   *)
LEMMA RunningValues ==
    ASSUME NEW f, IInv, On(f)
    PROVE  /\ IsSeq(Vals) /\ Len(Vals) \in Nat
           /\ ci(Machine, Running).func \in Nat
           /\ IsSeq(Local) /\ Len(Local) \in Nat
           /\ IsSeq(threads[Running].stack)
<1>1. /\ Shaped(Machine, Running) /\ Inv(Machine) /\ Running \in Threads
      /\ Machine.th = threads
  BY Runs
<1>2. CallInfoOK(ci(Machine, Running))
  BY <1>1, InvThread
<1>3. ci(Machine, Running).func \in Nat
  BY <1>2 DEF CallInfoOK
<1>4. IsSeq(threads[Running].stack) /\ Len(threads[Running].stack) \in Nat
  BY <1>1, FormedFacts
<1>5. IsSeq(Vals)
  BY <1>1, <1>3, <1>4, SubSeqFacts DEF Vals, Values
<1>6. IsSeq(Local)
  BY SubSeqFacts DEF Local
<1> QED BY <1>3, <1>4, <1>5, <1>6 DEF IsSeq

(* With other values on its stack.                                         *)
LEMMA RunningStack ==
    ASSUME NEW f, IInv, On(f), NEW s, IsSeq(s)
    PROVE  LET y == SetStack(Machine, Running, s)
           IN  /\ Inv(y) /\ Len(y.cs) >= 1 /\ y.cs[Len(y.cs)].l = Running
               /\ y.cs[Len(y.cs)].f = f /\ Shaped(y, Running)
               /\ ci(y, Running) = ci(Machine, Running)
               /\ y.th[Running].stack = s
<1> DEFINE y == SetStack(Machine, Running, s)
<1>1. /\ Inv(Machine) /\ Len(Machine.cs) >= 1 /\ Machine.cs[Len(Machine.cs)].l = Running
      /\ Machine.cs[Len(Machine.cs)].f = f /\ Shaped(Machine, Running)
      /\ Running \in Threads
  BY Runs
<1>2. Likewise(Machine, y, Running) /\ y.th[Running].stack = s
  BY <1>1, SetStackFacts
<1> HIDE DEF y
<1>3. Inv(y) /\ y.cs = Machine.cs /\ ci(y, Running) = ci(Machine, Running)
  BY <1>1, <1>2, LikewiseTop
<1>4. Shaped(y, Running)
  BY <1>1, <1>3, InvThread
<1> QED BY <1>1, <1>2, <1>3, <1>4 DEF y

(* OP_LOADK.                                                               *)
LEMMA LoadkInv ==
    ASSUME IInv, OP_LOADK
    PROVE  IInv'
<1> DEFINE s == <<Locals[Len(threads[Running].ci)]>>
           y == Push(Machine, Running, s)
<1>1. On("luaV_execute") /\ Become(y)
  BY DEF OP_LOADK, InLua
<1>2. IsSeq(s)
  BY TupleFacts
<1> HIDE DEF s
<1>3. /\ Inv(Machine) /\ Len(Machine.cs) >= 1 /\ Machine.cs[Len(Machine.cs)].l = Running
      /\ Shaped(Machine, Running)
  BY <1>1, Runs
<1>4. Likewise(Machine, y, Running)
  BY <1>2, <1>3, PushFacts, Zenon
<1> HIDE DEF y
<1>5. Inv(y)
  BY <1>3, <1>4, LikewiseTop
<1> QED BY <1>1, <1>5, BecomeInv

(* A Lua function puts what it calls on its stack.                         *)
LEMMA KeptInv ==
    ASSUME IInv, On("luaV_execute"), NEW call, IsSeq(call)
    PROVE  LET y == Push(Kept, Running, call)
           IN  /\ Inv(y) /\ Len(y.cs) >= 1 /\ y.cs[Len(y.cs)].l = Running
               /\ y.cs[Len(y.cs)].f = "luaV_execute"
               /\ Len(y.th[Running].stack) - Len(call) \in Nat
               /\ Len(y.th[Running].stack) \in Nat
<1> DEFINE s == SubSeq(threads[Running].stack, 1, ci(Machine, Running).func + 1)
           x == SetStack(Machine, Running, s)
           y == Push(x, Running, call)
<1>1. ci(Machine, Running).func \in Int
  BY RunningValues
<1>2. IsSeq(s)
  BY <1>1, SubSeqFacts
<1>3. Kept = x
  BY DEF Kept
<1> HIDE DEF s
<1>4. /\ Inv(x) /\ Len(x.cs) >= 1 /\ x.cs[Len(x.cs)].l = Running
      /\ x.cs[Len(x.cs)].f = "luaV_execute" /\ Shaped(x, Running)
      /\ x.th[Running].stack = s
  BY <1>2, RunningStack
<1> HIDE DEF x
<1>5. Likewise(x, y, Running) /\ y.th[Running].stack = s \o call
  <2>1. Shaped(x, Running)
    BY <1>4, Zenon
  <2>2. Likewise(x, y, Running) /\ y.th[Running].stack = x.th[Running].stack \o call
    BY <2>1, PushFacts
  <2> QED BY <2>2, <1>4
<1> HIDE DEF y
<1>6. Inv(y) /\ y.cs = x.cs
  BY <1>4, <1>5, LikewiseTop
<1>7. Shaped(y, Running)
  BY <1>5, OnlyFormed, Zenon DEF Likewise
<1>8. Len(y.th[Running].stack) \in Nat
  BY <1>7, FormedFacts
<1>9. /\ Inv(y) /\ Len(y.cs) >= 1 /\ y.cs[Len(y.cs)].l = Running
      /\ y.cs[Len(y.cs)].f = "luaV_execute" /\ Len(y.th[Running].stack) \in Nat
  BY <1>4, <1>6, <1>8
<1>10. Len(y.th[Running].stack) - Len(call) \in Nat
  <2>1. Len(y.th[Running].stack) = Len(s) + Len(call)
    BY <1>2, <1>5, ConcatFacts
  <2>2. Len(s) \in Nat /\ Len(call) \in Nat
    BY <1>2 DEF IsSeq
  <2> QED BY <2>1, <2>2
<1> QED BY <1>3, <1>9, <1>10 DEF y

(* What a Lua function calls is a sequence.                                *)
LEMMA CallsOfSeq ==
    ASSUME NEW args, IsSeq(args), NEW call \in CallsOf(args)
    PROVE  IsSeq(call) /\ Len(call) \in Nat
<1>1. CASE \E fn : call = <<fn>> \o args
  <2>1. PICK fn : call = <<fn>> \o args
    BY <1>1, Zenon
  <2>2. IsSeq(<<fn>>)
    BY TupleFacts
  <2> QED BY <2>1, <2>2, ConcatFacts
<1>2. CASE \E c \in Protected : call = <<"pcall">> \o c \o args
  <2>1. PICK c \in Protected : call = <<"pcall">> \o c \o args
    BY <1>2, Zenon
  <2> DEFINE s == <<"pcall">>
  <2>2. IsSeq(s)
    BY TupleFacts
  <2>3. IsSeq(c)
    BY InSeq, ProtectedAssumption, Zenon DEF ProtectedAssumption
  <2>4. call = (s \o c) \o args
    BY <2>1
  <2> HIDE DEF s
  <2>5. IsSeq(s \o c)
    BY <2>2, <2>3, ConcatFacts
  <2>6. IsSeq((s \o c) \o args)
    BY <2>5, ConcatFacts, Zenon
  <2> QED BY <2>4, <2>6
<1>3. CASE \E c \in Protected : call = <<"xpcall", Head(c), "handler">> \o Tail(c) \o args
  <2>1. PICK c \in Protected : call = <<"xpcall", Head(c), "handler">> \o Tail(c) \o args
    BY <1>3, Zenon
  <2> DEFINE s == <<"xpcall", Head(c), "handler">>
             t == Tail(c)
  <2>2. IsSeq(s)
    BY TupleFacts
  <2>3. t \in Seq(Functions)
    BY ProtectedAssumption DEF ProtectedAssumption
  <2>4. IsSeq(t)
    BY <2>3, InSeq
  <2>5. call = (s \o t) \o args
    BY <2>1, Zenon
  <2> HIDE DEF s, t
  <2>6. IsSeq(s \o t)
    BY <2>2, <2>4, ConcatFacts
  <2>7. IsSeq((s \o t) \o args)
    BY <2>6, ConcatFacts
  <2> QED BY <2>5, <2>7
<1>4. CASE call = <<"call", "L">>
  BY <1>4, TupleFacts, Zenon
<1>5. CASE \E fn : call = <<"create", fn>>
  BY <1>5, TupleFacts
<1>6. CASE \E co : call = <<"resume", co>> \o args
  <2>1. PICK co : call = <<"resume", co>> \o args
    BY <1>6
  <2> DEFINE s == <<"resume", co>>
  <2>2. IsSeq(s)
    BY TupleFacts
  <2>3. call = s \o args
    BY <2>1
  <2> HIDE DEF s
  <2> QED BY <2>2, <2>3, ConcatFacts
<1>7. CASE \E fn : call = <<fn>>
  BY <1>7, TupleFacts, Zenon
<1>8. IsSeq(call)
  BY <1>1, <1>2, <1>3, <1>4, <1>5, <1>6, <1>7 DEF CallsOf
<1> QED BY <1>8 DEF IsSeq

(* OP_CALL.                                                                *)
LEMMA OpCallInv ==
    ASSUME IInv, OP_CALL
    PROVE  IInv'
<1>1. On("luaV_execute")
  BY Zenon DEF OP_CALL, InLua
<1>2. PICK call \in CallsOf(Local) :
          LET x == Push(Kept, Running, call)
          IN  Become(luaD_precall(x, Running, Len(x.th[Running].stack) - Len(call) + 1,
                                  IF call[1] = "L" THEN 1 ELSE MULTRET, FALSE))
  BY DEF OP_CALL
<1>3. IsSeq(call) /\ Len(call) \in Nat
  BY <1>1, RunningValues, CallsOfSeq
<1> DEFINE x == Push(Kept, Running, call)
           func == Len(x.th[Running].stack) - Len(call) + 1
           nresults == IF call[1] = "L" THEN 1 ELSE MULTRET
           no == FALSE
           y == luaD_precall(x, Running, func, nresults, no)
<1>4. Become(y)
  BY <1>2
<1>5. /\ Inv(x) /\ Len(x.cs) >= 1 /\ x.cs[Len(x.cs)].l = Running
      /\ x.cs[Len(x.cs)].f = "luaV_execute" /\ Len(x.th[Running].stack) \in Nat
      /\ Len(x.th[Running].stack) - Len(call) \in Nat
  BY <1>1, <1>3, KeptInv
<1>6. nresults \in Nat \cup {MULTRET} /\ no \in BOOLEAN /\ ~no
  OBVIOUS
<1> HIDE DEF x, nresults, no
<1>7. func \in Nat
  BY <1>3, <1>5
<1> HIDE DEF func
<1>8. Inv(y)
  BY <1>5, <1>6, <1>7, PrecallInv
<1> QED BY <1>4, <1>8, BecomeInv

(* luaT_callTM.                                                            *)
LEMMA CallTMInv ==
    ASSUME IInv, luaT_callTM
    PROVE  IInv'
<1>1. On("luaV_execute")
  BY DEF luaT_callTM, InLua
<1>2. PICK fn \in {"L", "yield"} :
          Become(luaD_call(Push(Kept, Running, <<fn>> \o Local), Running, Len(Local), 1, FALSE))
  BY Zenon DEF luaT_callTM
<1> DEFINE call == <<fn>> \o Local
           x == Push(Kept, Running, call)
           nargs == Len(Local)
           one == 1
           no == FALSE
           y == luaD_call(x, Running, nargs, one, no)
<1>3. Become(y)
  BY <1>2
<1>4. IsSeq(Local) /\ nargs \in Int
  BY <1>1, RunningValues
<1>5. IsSeq(<<fn>>)
  BY TupleFacts
<1>6. IsSeq(call) /\ Len(call) = 1 + nargs
  BY <1>4, <1>5, ConcatFacts, TupleFacts
<1>7. one \in Nat \cup {MULTRET} /\ no \in BOOLEAN /\ ~no
  BY Zenon
<1> HIDE DEF call, nargs, one, no
<1>8. /\ Inv(x) /\ Len(x.cs) >= 1 /\ x.cs[Len(x.cs)].l = Running
      /\ x.cs[Len(x.cs)].f = "luaV_execute" /\ Len(x.th[Running].stack) \in Nat
      /\ Len(x.th[Running].stack) - Len(call) \in Nat
  BY <1>1, <1>6, KeptInv
<1> HIDE DEF x
<1>9. MayCallOn(x, no)
  BY <1>7, <1>8 DEF MayCallOn
<1>10. Len(x.th[Running].stack) - nargs \in Nat
  <2>1. nargs \in Nat
    BY <1>1, RunningValues DEF nargs
  <2> QED BY <2>1, <1>6, <1>8
<1>11. Inv(y)
  BY <1>4, <1>7, <1>8, <1>9, <1>10, DCallInv
<1> QED BY <1>3, <1>11, BecomeInv

(* OP_RETURN.                                                              *)
LEMMA OpReturnInv ==
    ASSUME IInv, OP_RETURN
    PROVE  IInv'
<1>1. On("luaV_execute")
  BY DEF OP_RETURN, InLua
<1>2. PICK n \in {0, Len(Vals)} :
          LET x == luaD_poscall(Machine, Running, LastOf(Vals, n))
          IN  Become(IF ci(Machine, Running).fresh THEN PopC(x) ELSE x)
  BY DEF OP_RETURN
<1> DEFINE v == LastOf(Vals, n)
           y == luaD_poscall(Machine, Running, v)
           p == Len(Machine.th[Running].ci)
           r == Machine.cs[Len(Machine.cs)]
<1>3. Become(IF ci(Machine, Running).fresh THEN PopC(y) ELSE y)
  BY <1>2
<1>4. n \in Int /\ IsSeq(Vals)
  BY <1>1, RunningValues
<1>5. IsSeq(v)
  BY <1>4, LastOfFacts
<1> HIDE DEF v
<1>6. /\ Inv(Machine) /\ Len(Machine.cs) >= 1 /\ r.l = Running /\ r.f = "luaV_execute"
  BY <1>1, Runs, Zenon
<1>7. r.ci \in Nat /\ r.ci >= 2 /\ r.ci <= p /\ (ci(Machine, Running).fresh <=> r.ci = p)
  BY <1>6, TopExecute, Zenon
<1>8. p \in Nat /\ p >= 2
  <2>1. Running \in Threads /\ Inv(Machine)
    BY <1>6, InvTop
  <2>2. p \in Nat
    BY <2>1, InvThread
  <2>3. r.ci \in Nat /\ r.ci >= 2 /\ r.ci <= p
    BY <1>7, Zenon
  <2> HIDE DEF r, p
  <2> QED BY <2>2, <2>3
<1>9. CASE ci(Machine, Running).fresh
  <2>1. Inv(PopC(y))
    BY <1>5, <1>6, <1>7, <1>9, ReturnInv
  <2> QED BY <2>1, <1>3, <1>9, BecomeInv
<1>10. CASE ~ci(Machine, Running).fresh
  <2>1. /\ Shortened(Machine, y, Running, Len(Machine.cs), p - 1)
        /\ y.th[Running].nny = Machine.th[Running].nny
    <3>1. Inv(Machine) /\ Len(Machine.cs) >= 1 /\ Machine.cs[Len(Machine.cs)].l = Running
      BY <1>6
    <3> QED BY <3>1, <1>5, <1>8, PoscallShortens
  <2>2. r.ci # p
    BY <1>7, <1>10
  <2> HIDE DEF y
  <2>3. Inv(y)
    BY <2>1, <2>2, <1>6, LeavesInv
  <2> QED BY <2>3, <1>3, <1>10, BecomeInv
<1> QED BY <1>9, <1>10

-----------------------------------------------------------------------------
(* The C functions.                                                        *)

(* A C function that starts.                                               *)
LEMMA Started ==
    ASSUME NEW fn, IInv, Starts(fn)
    PROVE  /\ On("C") /\ ci(Machine, Running).fn = fn
           /\ Inv(Machine) /\ Len(Machine.cs) >= 1 /\ Machine.cs[Len(Machine.cs)].l = Running
           /\ Machine.cs[Len(Machine.cs)].f = "C" /\ Running \in Threads
           /\ Machine.th = threads
           /\ IsSeq(Vals) /\ Len(Vals) \in Nat
<1>1. On("C") /\ ci(Machine, Running).fn = fn
  BY Zenon DEF Starts
<1> QED BY <1>1, Runs, RunningValues

(* How many values there are.                                              *)
LEMMA ValuesLen ==
    ASSUME NEW f, IInv, On(f)
    PROVE  LET size == Len(threads[Running].stack)
               func == ci(Machine, Running).func
           IN  /\ size \in Nat /\ func \in Nat /\ size - Len(Vals) \in Nat
               /\ Len(Vals) = (IF func < size THEN size - func ELSE 0)
<1> DEFINE size == Len(threads[Running].stack)
           func == ci(Machine, Running).func
<1>1. func \in Nat /\ IsSeq(threads[Running].stack) /\ Machine.th = threads
  BY RunningValues, Runs
<1>2. size \in Nat
  BY <1>1 DEF IsSeq
<1>3. Vals = SubSeq(threads[Running].stack, func + 1, size)
  BY <1>1 DEF Vals, Values
<1>4. Len(Vals) = IF func + 1 <= size THEN size - (func + 1) + 1 ELSE 0
  BY <1>1, <1>2, <1>3, SubSeqFacts
<1>5. func \in Nat
  BY <1>1
<1> DEFINE v == Len(Vals)
<1> HIDE DEF func, size, v
<1>6. size - v \in Nat /\ v = IF func < size THEN size - func ELSE 0
  <2>1. v = IF func + 1 <= size THEN size - (func + 1) + 1 ELSE 0
    BY <1>4 DEF v
  <2> QED BY <1>2, <1>5, <2>1
<1> QED BY <1>2, <1>5, <1>6, Zenon DEF func, size, v

(* Other values, above the function.                                       *)
LEMMA WithValuesInv ==
    ASSUME NEW f, IInv, On(f), NEW vals, IsSeq(vals)
    PROVE  LET y == WithValues(vals)
           IN  /\ Inv(y) /\ Len(y.cs) >= 1 /\ y.cs[Len(y.cs)].l = Running
               /\ y.cs[Len(y.cs)].f = f /\ Shaped(y, Running)
               /\ ci(y, Running) = ci(Machine, Running)
               /\ Len(y.th[Running].stack) = ci(Machine, Running).func + Len(vals)
<1> DEFINE func == ci(Machine, Running).func
           s == SubSeq(threads[Running].stack, 1, func)
           t == s \o vals
<1>1. func \in Nat
  BY RunningValues
<1>2. IsSeq(s) /\ Len(s) = func
  <2>1. Len(s) = IF 1 <= func THEN func - 1 + 1 ELSE 0
    BY <1>1, SubSeqFacts
  <2>2. IsSeq(s)
    BY <1>1, SubSeqFacts
  <2> QED BY <2>1, <2>2, <1>1
<1>3. WithValues(vals) = SetStack(Machine, Running, t)
  BY DEF WithValues
<1> HIDE DEF func, s
<1>4. IsSeq(t) /\ Len(t) = func + Len(vals)
  BY <1>2, ConcatFacts
<1> HIDE DEF t
<1> DEFINE y == SetStack(Machine, Running, t)
<1>5. /\ Inv(y) /\ Len(y.cs) >= 1 /\ y.cs[Len(y.cs)].l = Running
      /\ y.cs[Len(y.cs)].f = f /\ Shaped(y, Running)
      /\ ci(y, Running) = ci(Machine, Running)
      /\ y.th[Running].stack = t
  BY <1>4, RunningStack
<1> HIDE DEF y
<1> QED BY <1>3, <1>4, <1>5 DEF func, y

(* The check of the arguments.                                             *)
LEMMA ArgcheckInv ==
    ASSUME IInv, luaL_argcheck
    PROVE  IInv'
<1> DEFINE y == luaG_runerror(Machine, Running)
<1>1. On("C") /\ Become(y)
  BY DEF luaL_argcheck, luaL_argerror
<1>2. Inv(Machine) /\ Len(Machine.cs) >= 1 /\ Machine.cs[Len(Machine.cs)].l = Running
  BY <1>1, Runs
<1>3. Inv(y)
  BY <1>2, RunerrorInv
<1> QED BY <1>1, <1>3, BecomeInv

(* pcall: the function is above one value.                                 *)
LEMMA LuaPcallInv ==
    ASSUME IInv, luaB_pcall
    PROVE  IInv'
<1>1. Starts("pcall") /\ GoodArguments
  BY DEF luaB_pcall
<1>2. On("C") /\ ci(Machine, Running).fn = "pcall" /\ IsSeq(Vals) /\ Len(Vals) \in Nat
  BY <1>1, Started
<1>3. Len(Vals) >= 1
  BY <1>1, <1>2, NotEmptySeq DEF GoodArguments
<1> DEFINE t == <<"true">>
           v == t \o Vals
           x == WithValues(v)
           nargs == Len(Vals) - 1
           zero == 0
           y == lua_pcallk(x, Running, nargs, zero)
<1>4. Become(y)
  BY DEF luaB_pcall
<1>5. IsSeq(t) /\ Len(t) = 1
  BY TupleFacts, Zenon
<1> HIDE DEF t
<1>6. IsSeq(v) /\ Len(v) = 1 + Len(Vals)
  BY <1>2, <1>5, ConcatFacts, Zenon
<1> HIDE DEF v
<1>7. /\ Inv(x) /\ Len(x.cs) >= 1 /\ x.cs[Len(x.cs)].l = Running
      /\ x.cs[Len(x.cs)].f = "C" /\ ci(x, Running) = ci(Machine, Running)
      /\ Len(x.th[Running].stack) = ci(Machine, Running).func + Len(v)
  BY <1>2, <1>6, WithValuesInv
<1>8. ci(Machine, Running).func \in Nat
  BY <1>2, RunningValues
<1> HIDE DEF x
<1>9. nargs \in Int
  BY <1>2
<1>10. /\ ci(x, Running).fn \in {"pcall", "xpcall"}
       /\ Len(x.th[Running].stack) - nargs = ci(x, Running).func + 2 + Extra(ci(x, Running).fn)
  BY <1>2, <1>6, <1>7, <1>8 DEF Extra
<1> HIDE DEF nargs, zero
<1>11. Inv(y)
  <2>1. /\ Inv(x) /\ Len(x.cs) >= 1 /\ x.cs[Len(x.cs)].l = Running
        /\ x.cs[Len(x.cs)].f = "C"
    BY <1>7
  <2>2. ci(x, Running).fn \in {"pcall", "xpcall"}
    BY <1>10
  <2>3. Len(x.th[Running].stack) - nargs = ci(x, Running).func + 2 + Extra(ci(x, Running).fn)
    BY <1>10
  <2> HIDE DEF y
  <2>4. Inv(lua_pcallk(x, Running, nargs, zero))
    <3>1. MayPcall(x, Running, nargs)
      BY <2>1, <2>2, <2>3, <1>9 DEF MayPcall
    <3> QED BY <3>1, PcallkInv
  <2> QED BY <2>4 DEF y
<1> QED BY <1>4, <1>11, BecomeInv

(* xpcall: above three.                                                    *)
LEMMA LuaXpcallInv ==
    ASSUME IInv, luaB_xpcall
    PROVE  IInv'
<1>1. Starts("xpcall")
  BY DEF luaB_xpcall
<1>2. On("C") /\ ci(Machine, Running).fn = "xpcall" /\ IsSeq(Vals) /\ Len(Vals) \in Nat
  BY <1>1, Started
<1> DEFINE rest == SubSeq(Vals, 3, Len(Vals))
           t == <<Vals[1], Vals[2], "true", Vals[1]>>
           v == t \o rest
           x == WithValues(v)
           nargs == Len(rest)
           h == ci(Machine, Running).func + 2
           y == lua_pcallk(x, Running, nargs, h)
<1>4. Become(y)
  BY DEF luaB_xpcall
<1>5. IsSeq(t) /\ Len(t) = 4
  BY TupleFacts
<1>6. IsSeq(rest)
  BY <1>2, SubSeqFacts
<1> HIDE DEF t, rest
<1>7. nargs \in Nat /\ IsSeq(v) /\ Len(v) = 4 + nargs
  <2>1. nargs \in Nat
    BY <1>6 DEF IsSeq
  <2>2. IsSeq(v) /\ Len(v) = Len(t) + Len(rest)
    BY <1>5, <1>6, ConcatFacts
  <2> QED BY <2>1, <2>2, <1>5, Zenon
<1> HIDE DEF v
<1>8. /\ Inv(x) /\ Len(x.cs) >= 1 /\ x.cs[Len(x.cs)].l = Running
      /\ x.cs[Len(x.cs)].f = "C" /\ ci(x, Running) = ci(Machine, Running)
      /\ Len(x.th[Running].stack) = ci(Machine, Running).func + Len(v)
  BY <1>2, <1>7, WithValuesInv
<1>9. ci(Machine, Running).func \in Nat
  BY <1>2, RunningValues
<1> HIDE DEF x
<1>10. /\ ci(x, Running).fn \in {"pcall", "xpcall"}
       /\ Len(x.th[Running].stack) - nargs = ci(x, Running).func + 2 + Extra(ci(x, Running).fn)
  BY <1>2, <1>7, <1>8, <1>9 DEF Extra
<1>11. nargs \in Int
  BY <1>7
<1> HIDE DEF nargs, h
<1>12. Inv(y)
  <2>1. /\ Inv(x) /\ Len(x.cs) >= 1 /\ x.cs[Len(x.cs)].l = Running
        /\ x.cs[Len(x.cs)].f = "C"
    BY <1>8
  <2>2. ci(x, Running).fn \in {"pcall", "xpcall"}
    BY <1>10
  <2>3. Len(x.th[Running].stack) - nargs = ci(x, Running).func + 2 + Extra(ci(x, Running).fn)
    BY <1>10
  <2> HIDE DEF y
  <2>4. Inv(lua_pcallk(x, Running, nargs, h))
    <3>1. MayPcall(x, Running, nargs)
      BY <2>1, <2>2, <2>3, <1>11 DEF MayPcall
    <3> QED BY <3>1, PcallkInv
  <2> QED BY <2>4 DEF y
<1> QED BY <1>4, <1>12, BecomeInv

(* A call with no continuation.                                            *)
LEMMA LuaCallInv ==
    ASSUME IInv, lua_call
    PROVE  IInv'
<1> DEFINE nargs == Len(Vals) - 1
           one == 1
           no == FALSE
           y == lua_callk(Machine, Running, nargs, one, no)
<1>1. Starts("call") /\ Become(y)
  BY DEF lua_call
<1>2. /\ On("C") /\ ci(Machine, Running).fn = "call" /\ Len(Vals) \in Nat
      /\ Inv(Machine) /\ Len(Machine.cs) >= 1 /\ Machine.cs[Len(Machine.cs)].l = Running
      /\ Machine.cs[Len(Machine.cs)].f = "C" /\ Machine.th = threads
  BY <1>1, Started
<1>3. nargs \in Int /\ one \in Nat \cup {MULTRET} /\ no \in BOOLEAN /\ ~no
  BY <1>2
<1>4. Len(Machine.th[Running].stack) - nargs \in Nat
  BY <1>2, ValuesLen
<1> HIDE DEF nargs, one, no
<1>5. ci(Machine, Running).fn \in {"call", "dofile"}
  BY <1>2
<1>6. Inv(y)
  BY <1>2, <1>3, <1>4, <1>5, CallkInv
<1> QED BY <1>1, <1>6, BecomeInv

(* dofile.                                                                 *)
LEMMA LuaDofileInv ==
    ASSUME IInv, luaB_dofile
    PROVE  IInv'
<1> DEFINE v == <<"nil", "L">>
           x == WithValues(v)
           zero == 0
           yes == TRUE
           y == lua_callk(x, Running, zero, MULTRET, yes)
<1>1. Starts("dofile") /\ Become(y)
  BY Zenon DEF luaB_dofile
<1>2. On("C") /\ ci(Machine, Running).fn = "dofile"
  BY <1>1, Started, Zenon
<1>3. IsSeq(v) /\ Len(v) = 2
  BY TupleFacts, Zenon
<1> HIDE DEF v
<1>4. /\ Inv(x) /\ Len(x.cs) >= 1 /\ x.cs[Len(x.cs)].l = Running
      /\ x.cs[Len(x.cs)].f = "C" /\ ci(x, Running) = ci(Machine, Running)
      /\ Len(x.th[Running].stack) = ci(Machine, Running).func + Len(v)
  BY <1>2, <1>3, WithValuesInv, Zenon
<1> HIDE DEF x
<1>5. zero \in Int /\ MULTRET \in Nat \cup {MULTRET} /\ yes \in BOOLEAN
  OBVIOUS
<1>6. Len(x.th[Running].stack) - zero \in Nat
  BY <1>2, <1>3, <1>4, RunningValues
<1> HIDE DEF zero, yes
<1>7. ci(x, Running).fn = "dofile"
  BY <1>2, <1>4
<1>8. Inv(y)
  BY <1>4, <1>5, <1>6, <1>7, CallkInv
<1> QED BY <1>1, <1>8, BecomeInv

(* error.                                                                  *)
LEMMA LuaErrorInv ==
    ASSUME IInv, luaB_error
    PROVE  IInv'
<1> DEFINE v == <<IF Vals = <<>> THEN "nil" ELSE Vals[1]>>
           x == WithValues(v)
           z == luaG_errormsg(x, Running)
           y == luaD_throw(z, Running, "ERRRUN")
<1>1. Starts("error") /\ Become(y)
  BY DEF luaB_error
<1>2. On("C")
  BY <1>1, Started
<1>3. IsSeq(v)
  BY TupleFacts
<1> HIDE DEF v
<1>4. /\ Inv(x) /\ Len(x.cs) >= 1 /\ x.cs[Len(x.cs)].l = Running /\ Shaped(x, Running)
  BY <1>2, <1>3, WithValuesInv
<1> HIDE DEF x
<1>5. Likewise(x, z, Running)
  BY <1>4, ErrormsgFacts
<1> HIDE DEF z
<1>6. Inv(z) /\ z.cs = x.cs
  BY <1>4, <1>5, LikewiseTop
<1>7. Len(z.cs) >= 1 /\ z.cs[Len(z.cs)].l = Running
  BY <1>4, <1>6
<1>8. Inv(y)
  BY <1>6, <1>7, ThrowInv
<1> QED BY <1>1, <1>8, BecomeInv

(* coroutine.yield.                                                        *)
LEMMA LuaYieldInv ==
    ASSUME IInv, luaB_yield
    PROVE  IInv'
<1> DEFINE n == Len(Vals)
           no == FALSE
           y == lua_yieldk(Machine, Running, n, no)
<1>1. Starts("yield") /\ Become(y)
  BY DEF luaB_yield
<1>2. /\ On("C") /\ ci(Machine, Running).fn = "yield" /\ n \in Nat
      /\ Inv(Machine) /\ Len(Machine.cs) >= 1 /\ Machine.cs[Len(Machine.cs)].l = Running
      /\ Machine.cs[Len(Machine.cs)].f = "C" /\ Machine.th = threads
  BY <1>1, Started
<1>3. Len(Machine.th[Running].stack) - n \in Nat
  BY <1>2, ValuesLen
<1>4. n \in Int /\ no \in BOOLEAN /\ ~no
  BY <1>2
<1> HIDE DEF n, no
<1>5. ci(Machine, Running).fn = (IF no THEN "yieldk" ELSE "yield")
  BY <1>2, <1>4
<1>6. Inv(y)
  BY <1>2, <1>3, <1>4, <1>5, YieldInv
<1> QED BY <1>1, <1>6, BecomeInv

(* A yield with a continuation.                                            *)
LEMMA YieldkInv ==
    ASSUME IInv, YieldsAndGoesOn
    PROVE  IInv'
<1> DEFINE s == <<"c">>
           x == Push(Machine, Running, s)
           one == 1
           yes == TRUE
           y == lua_yieldk(x, Running, one, yes)
<1>1. Starts("yieldk") /\ Become(y)
  BY DEF YieldsAndGoesOn
<1>2. /\ On("C") /\ ci(Machine, Running).fn = "yieldk"
      /\ Inv(Machine) /\ Len(Machine.cs) >= 1 /\ Machine.cs[Len(Machine.cs)].l = Running
      /\ Machine.cs[Len(Machine.cs)].f = "C"
  BY <1>1, Started
<1>3. Shaped(Machine, Running) /\ IsSeq(Machine.th[Running].stack)
  BY <1>2, Runs, FormedFacts
<1>4. IsSeq(s) /\ Len(s) = 1
  BY TupleFacts, Zenon
<1> HIDE DEF s
<1>5. Likewise(Machine, x, Running) /\ x.th[Running].stack = Machine.th[Running].stack \o s
  <2>1. Shaped(Machine, Running) /\ IsSeq(s)
    BY <1>3, <1>4, Zenon
  <2> QED BY <2>1, PushFacts
<1> HIDE DEF x
<1>6. Inv(x) /\ x.cs = Machine.cs /\ ci(x, Running) = ci(Machine, Running)
  <2>1. Likewise(Machine, x, Running)
    BY <1>5
  <2>2. Inv(Machine) /\ Len(Machine.cs) >= 1 /\ Machine.cs[Len(Machine.cs)].l = Running
    BY <1>2
  <2> QED BY <2>1, <2>2, LikewiseTop
<1>7. Len(x.th[Running].stack) - one \in Nat
  <2>1. Len(x.th[Running].stack) = Len(Machine.th[Running].stack) + Len(s)
    BY <1>3, <1>4, <1>5, ConcatFacts
  <2>2. Len(Machine.th[Running].stack) \in Nat
    BY <1>3 DEF IsSeq
  <2> QED BY <2>1, <2>2, <1>4
<1>8. one \in Int /\ yes \in BOOLEAN /\ yes
  OBVIOUS
<1> HIDE DEF one, yes
<1>9. ci(x, Running).fn = (IF yes THEN "yieldk" ELSE "yield")
  BY <1>2, <1>6, <1>8
<1>10. /\ Len(x.cs) >= 1 /\ x.cs[Len(x.cs)].l = Running /\ x.cs[Len(x.cs)].f = "C"
  BY <1>2, <1>6
<1>11. Inv(y)
  BY <1>6, <1>7, <1>8, <1>9, <1>10, YieldInv
<1> QED BY <1>1, <1>11, BecomeInv

(* coroutine.create.                                                       *)
LEMMA CocreateInv ==
    ASSUME IInv, luaB_cocreate
    PROVE  IInv'
<1>1. Starts("create")
  BY DEF luaB_cocreate
<1>2. /\ On("C") /\ Inv(Machine) /\ Len(Machine.cs) >= 1
      /\ Machine.cs[Len(Machine.cs)].l = Running
      /\ Machine.cs[Len(Machine.cs)].f = "C" /\ Machine.th = threads
  BY <1>1, Started
<1>3. PICK co \in Coroutines :
         /\ threads[co].status = "none"
         /\ LET t == [preinit_thread EXCEPT !.stack = Append(@, Vals[1])]
            IN  Become(CReturn(Push([Machine EXCEPT !.th[co] = t], Running, <<co>>), Running, 1))
  BY DEF luaB_cocreate
<1> DEFINE v == Vals[1]
           t == [preinit_thread EXCEPT !.stack = Append(@, v)]
           z == [Machine EXCEPT !.th[co] = t]
           s == <<co>>
           one == 1
           y == CReturn(Push(z, Running, s), Running, one)
<1>4. Become(y)
  BY <1>3
<1>5. co \in Threads /\ Shaped(Machine, co)
  BY <1>2, InvThread DEF Threads
<1>6. /\ t.status = "OK" /\ t.nny = 1 /\ t.ci = <<base_ci>> /\ t.stack = Append(<<"nil">>, v)
      /\ t = [status |-> t.status, nny |-> t.nny, nCcalls |-> t.nCcalls,
              errfunc |-> t.errfunc, ci |-> t.ci, stack |-> t.stack]
  BY DEF preinit_thread
<1>7. IsSeq(t.stack) /\ Len(t.stack) = 2
  <2> DEFINE e == <<"nil">>
  <2>1. IsSeq(e) /\ Len(e) = 1
    BY TupleFacts
  <2>2. t.stack = Append(e, v)
    BY <1>6
  <2> HIDE DEF e, t
  <2>3. IsSeq(Append(e, v)) /\ Len(Append(e, v)) = Len(e) + 1
    BY <2>1, AppendFacts
  <2> QED BY <2>1, <2>2, <2>3
<1>8. IsSeq(t.ci) /\ Len(t.ci) = 1 /\ t.ci[1] = base_ci
  <2> DEFINE b == base_ci
             e == <<b>>
  <2>1. IsSeq(e) /\ Len(e) = 1 /\ e[1] = b
    BY TupleFacts
  <2> QED BY <2>1, <1>6, Zenon
<1>9. CallInfoOK(base_ci) /\ base_ci.fn = "base" /\ base_ci.func = 1 /\ ~base_ci.ypcall
  BY DEF CallInfoOK, base_ci, CallInfo, MULTRET
<1> HIDE DEF t
<1>10. Formed(t)
  BY <1>6, <1>7, <1>8 DEF Formed
<1>11. ThreadInv(t)
  <2>1. ThreadOK(t)
    BY <1>6, <1>7, <1>8, <1>9 DEF ThreadOK
  <2>2. CallsOK(t)
    BY <1>6, <1>8, <1>9 DEF CallsOK
  <2> QED BY <2>1, <2>2 DEF ThreadInv
<1>12. Only(Machine, z, co) /\ z.cs = Machine.cs /\ z.th[co] = t
  BY <1>5, <1>10, NewThread
<1> HIDE DEF z
<1>13. Beside(Machine, z, co)
  BY <1>11, <1>12, OnlyBeside
<1>14. ~InChain(Machine, co)
  BY <1>2, <1>3, <1>5 DEF Inv, Statuses
<1>15. Outside(Machine, z, co)
  BY <1>6, <1>7, <1>8, <1>12, <1>13, <1>14 DEF Outside
<1>16. Inv(z)
  BY <1>2, <1>15, OutsideInv
<1>17. Len(z.cs) >= 1 /\ z.cs[Len(z.cs)].f = "C" /\ z.cs[Len(z.cs)].l = Running
  BY <1>2, <1>12
<1>18. IsSeq(s) /\ one \in Int
  <2>1. IsSeq(s)
    BY TupleFacts
  <2> QED BY <2>1
<1> HIDE DEF s, one
<1>19. Inv(y)
  BY <1>16, <1>17, <1>18, AnswersInv
<1> QED BY <1>4, <1>19, BecomeInv

(* coroutine.resume.                                                       *)
LEMMA CoresumeInv ==
    ASSUME IInv, luaB_coresume
    PROVE  IInv'
<1> DEFINE co == Vals[1]
           n == Len(Vals) - 1
           y == StartResume(Machine, Running, co, n)
<1>1. Starts("resume") /\ GoodArguments /\ Become(y)
  BY Zenon DEF luaB_coresume
<1>2. /\ On("C") /\ ci(Machine, Running).fn = "resume"
      /\ Inv(Machine) /\ Len(Machine.cs) >= 1 /\ Machine.cs[Len(Machine.cs)].l = Running
      /\ Machine.cs[Len(Machine.cs)].f = "C" /\ IsSeq(Vals) /\ Len(Vals) \in Nat
  BY <1>1, Started
<1>3. Vals # <<>> /\ co \in Threads
  BY <1>1, <1>2 DEF GoodArguments, Live
<1>4. n \in Nat
  BY <1>2, <1>3, NotEmptySeq
<1> HIDE DEF co, n
<1>5. Inv(y)
  BY <1>2, <1>3, <1>4, StartResumeInv
<1> QED BY <1>1, <1>5, BecomeInv

(* What coroutine.wrap made.                                               *)
LEMMA AuxwrapInv ==
    ASSUME IInv, luaB_auxwrap
    PROVE  IInv'
<1>1. ASSUME NEW w \in Wraps, Starts(w),
             Become(StartResume(Machine, Running, WrapOf[w], Len(Vals)))
      PROVE  IInv'
  <2> DEFINE co == WrapOf[w]
             n == Len(Vals)
             y == StartResume(Machine, Running, co, n)
  <2>1. Become(y)
    BY <1>1
  <2>2. /\ Inv(Machine) /\ Len(Machine.cs) >= 1 /\ Machine.cs[Len(Machine.cs)].l = Running
        /\ Machine.cs[Len(Machine.cs)].f = "C" /\ n \in Nat
    BY <1>1, Started, Zenon
  <2>3. co \in Threads
    BY ThreadsAssumption, Zenon DEF ThreadsAssumption, Wraps, Threads
  <2> HIDE DEF co, n
  <2>4. Inv(y)
    BY <2>2, <2>3, StartResumeInv
  <2> QED BY <2>1, <2>4, BecomeInv
<1>2. ASSUME On("C"), Become(luaD_throw(luaG_errormsg(Machine, Running), Running, "ERRRUN"))
      PROVE  IInv'
  <2> DEFINE z == luaG_errormsg(Machine, Running)
             y == luaD_throw(z, Running, "ERRRUN")
  <2>1. /\ Inv(Machine) /\ Len(Machine.cs) >= 1 /\ Machine.cs[Len(Machine.cs)].l = Running
        /\ Shaped(Machine, Running)
    BY <1>2, Runs
  <2>2. Likewise(Machine, z, Running)
    BY <2>1, ErrormsgFacts
  <2>3. Become(y)
    BY <1>2
  <2> HIDE DEF z
  <2>4. Inv(z) /\ z.cs = Machine.cs
    BY <2>1, <2>2, LikewiseTop
  <2>5. Len(z.cs) >= 1 /\ z.cs[Len(z.cs)].l = Running
    BY <2>1, <2>4
  <2>6. Inv(y)
    BY <2>4, <2>5, ThrowInv
  <2> QED BY <2>3, <2>6, BecomeInv
<1> QED BY <1>1, <1>2 DEF luaB_auxwrap

-----------------------------------------------------------------------------
(* Returns.                                                                *)

(* What is under a call.                                                   *)
LEMMA UnderCall ==
    ASSUME NEW x, Inv(x), Len(x.cs) >= 1, x.cs[Len(x.cs)].f \in {"luaD_call", "luaD_pcall"},
           Len(x.cs) # 1 \/ x.cs[Len(x.cs)].f = "luaD_call"
    PROVE  LET n == Len(x.cs)
           IN  /\ n \in Nat /\ n >= 2 /\ n - 1 \in 1..(n - 1) /\ n - 1 \in 1..n
               /\ Follows(x, x.cs[n - 1], x.cs[n])
<1>1. Len(x.cs) \in Nat
  BY InvTop
<1>2. Len(x.cs) # 1
  BY DEF Inv, Bottom
<1>3. Len(x.cs) >= 2 /\ Len(x.cs) - 1 \in 1..(Len(x.cs) - 1)
  <2>1. PICK n \in Nat : n = Len(x.cs)
    BY <1>1
  <2>2. n >= 1 /\ n # 1
    BY <2>1, <1>2
  <2>3. n >= 2 /\ n - 1 \in 1..(n - 1)
    BY <2>2
  <2> QED BY <2>1, <2>3
<1>4. Follows(x, x.cs[Len(x.cs) - 1], x.cs[Len(x.cs) - 1 + 1])
  BY <1>3 DEF Inv, Adjacent
<1>5. Len(x.cs) - 1 + 1 = Len(x.cs)
  BY <1>1
<1> QED BY <1>1, <1>3, <1>4, <1>5

(* A call returns.                                                         *)
LEMMA CallReturnsInv ==
    ASSUME IInv, CallReturns
    PROVE  IInv'
<1> DEFINE l == Running
           n == Len(Machine.cs)
           a == Machine.cs[n - 1]
           x == CallDone(Machine, l)
           r == Last(x.cs)
           e == r.errfunc
           y == PopC([x EXCEPT !.th[l].errfunc = e])
           z == EndYpcall(x, l)
           pcalled == CReturn(y, l, finishpcall(y, l, FALSE))
           called == CReturn(z, l, Returns(x, l))
           next == CASE r.f = "luaV_execute" -> x
                     [] r.f = "luaD_pcall" /\ Len(x.cs) = 1 -> y
                     [] r.f = "luaD_pcall" /\ Len(x.cs) > 1 -> pcalled
                     [] OTHER -> called
<1>1. On("luaD_call") /\ Become(next)
  BY DEF CallReturns
<1>2. /\ Inv(Machine) /\ n >= 1 /\ Machine.cs[n].l = l /\ Machine.cs[n].f = "luaD_call"
      /\ l \in Threads
  BY <1>1, Runs
<1>3. n \in Nat /\ n >= 2 /\ n - 1 \in 1..(n - 1) /\ n - 1 \in 1..n
      /\ Follows(Machine, a, Machine.cs[n])
  BY <1>2, UnderCall
<1>4. /\ a.l = l /\ a.f \in {"luaD_pcall", "C", "luaV_execute"}
      /\ a.f = "C" => /\ Machine.th[a.l].ci[a.ci].fn \in {"pcall", "xpcall", "call", "dofile"}
                      /\ Machine.cs[n].ci = a.ci
  BY <1>2, <1>3, Zenon DEF Follows
<1>5. /\ Inv(x) /\ Len(x.cs) = n - 1 /\ (\A i \in 1..(n - 1) : x.cs[i] = Machine.cs[i])
      /\ x.th[l].ci = Machine.th[l].ci
  BY <1>2, CallDoneInv, Zenon
<1>6. /\ Len(x.cs) >= 1 /\ x.cs[Len(x.cs)] = a /\ r = a /\ x.cs[Len(x.cs)].l = l
      /\ IsSeq(x.cs)
  <2>1. Len(x.cs) >= 1 /\ x.cs[Len(x.cs)] = a
    BY <1>3, <1>5
  <2>2. IsSeq(x.cs)
    BY <2>1, <1>5, InvTop
  <2>3. r = x.cs[Len(x.cs)]
    BY <2>1, <2>2, FrontFacts
  <2> QED BY <2>1, <2>2, <2>3, <1>4
<1> HIDE DEF x, a, e, l
<1>7. CASE r.f = "luaV_execute"
  <2>1. next = x
    BY <1>7
  <2> HIDE DEF next
  <2> QED BY <2>1, <1>1, <1>5, BecomeInv
<1>8. ASSUME r.f = "luaD_pcall"
      PROVE  /\ Inv(y) /\ Len(y.cs) = Len(x.cs) - 1
             /\ \A i \in 1..(Len(x.cs) - 1) : y.cs[i] = x.cs[i]
  <2>1. x.cs[Len(x.cs)].f = "luaD_pcall"
    BY <1>6, <1>8
  <2>2. y = PopC(SetErrfunc(x, l, e))
    BY DEF SetErrfunc
  <2>3. Inv(x) /\ Len(x.cs) >= 1 /\ x.cs[Len(x.cs)].l = l
    BY <1>5, <1>6
  <2> HIDE DEF r, next, y
  <2>4. /\ Inv(PopC(SetErrfunc(x, l, e)))
        /\ UpTo(PopC(SetErrfunc(x, l, e)), x, Len(x.cs) - 1)
    BY <2>1, <2>3, PcallDoneInv
  <2> QED BY <2>2, <2>4 DEF UpTo
<1>9. CASE r.f = "luaD_pcall" /\ Len(x.cs) = 1
  <2>1. next = y
    BY <1>9
  <2>2. Inv(y)
    BY <1>8, <1>9
  <2> HIDE DEF next, y
  <2> QED BY <2>1, <2>2, <1>1, BecomeInv, Zenon
<1>10. CASE r.f = "luaD_pcall" /\ Len(x.cs) > 1
  <2> DEFINE m == Len(x.cs)
             k == finishpcall(y, l, FALSE)
  <2>1. next = pcalled
    <3>1. r.f # "luaV_execute" /\ ~(r.f = "luaD_pcall" /\ m = 1)
      <4>1. m \in Nat
        BY <1>3, <1>5
      <4> HIDE DEF m
      <4>2. m > 1
        BY <1>10 DEF m
      <4> QED BY <4>1, <4>2, <1>10
    <3> QED BY <3>1, <1>10
  <2>2. Inv(y) /\ Len(y.cs) = m - 1 /\ \A i \in 1..(m - 1) : y.cs[i] = x.cs[i]
    BY <1>8, <1>10
  <2>3. x.cs[Len(x.cs)].f \in {"luaD_call", "luaD_pcall"} /\ Len(x.cs) # 1
    BY <1>6, <1>10
  <2>4. /\ m \in Nat /\ m >= 2 /\ m - 1 \in 1..(m - 1)
        /\ Follows(x, x.cs[m - 1], x.cs[m])
    BY <2>3, <1>5, <1>6, UnderCall
  <2>5. x.cs[m - 1].f = "C" /\ x.cs[m - 1].l = l
    BY <2>4, <1>6, <1>10 DEF Follows
  <2>6. Len(y.cs) >= 1 /\ y.cs[Len(y.cs)].f = "C" /\ y.cs[Len(y.cs)].l = l
    <3>1. y.cs[m - 1] = x.cs[m - 1]
      BY <2>2, <2>4
    <3>2. Len(y.cs) = m - 1 /\ m - 1 >= 1
      BY <2>2, <2>4
    <3> QED BY <3>1, <3>2, <2>5
  <2> HIDE DEF y, next, m
  <2>7. k \in Int
    <3>1. Shaped(y, l) /\ CallInfoOK(ci(y, l))
      BY <2>2, <1>2, InvThread
    <3>2. Len(y.th[l].stack) \in Nat /\ ci(y, l).func \in Nat
      BY <3>1, FormedFacts DEF CallInfoOK
    <3>3. lua_gettop(y, l) \in Int
      BY <3>2 DEF lua_gettop
    <3>4. Extra(ci(y, l).fn) \in Int
      BY DEF Extra
    <3>5. k = lua_gettop(y, l) - Extra(ci(y, l).fn)
      BY DEF finishpcall
    <3> HIDE DEF k
    <3> QED BY <3>3, <3>4, <3>5
  <2>8. pcalled = CReturn(y, l, k)
    OBVIOUS
  <2> HIDE DEF k, pcalled
  <2>9. Inv(CReturn(y, l, k))
    BY <2>2, <2>6, <2>7, CReturnInv
  <2>10. Become(pcalled) /\ Inv(pcalled)
    BY <2>1, <2>8, <2>9, <1>1
  <2> QED BY <2>10, BecomeInv
<1>11. CASE r.f = "C"
  <2> DEFINE k == Returns(x, l)
  <2>1. next = called
    BY <1>11
  <2>2. x.cs[Len(x.cs)].f = "C" /\ a.f = "C"
    BY <1>6, <1>11
  <2>3. Len(x.th[l].ci) = a.ci /\ a.ci >= 2
    <3>1. Len(x.th[a.l].ci) = a.ci
      BY <2>2, <1>5, <1>6, InvTop
    <3>2. FrameOK(a)
      BY <1>5, <1>6, InvTop, Zenon
    <3> QED BY <3>1, <3>2, <2>2, <1>4, Zenon DEF FrameOK
  <2>4. Shaped(x, l) /\ CallInfoOK(ci(x, l)) /\ ci(x, l) = x.th[l].ci[Len(x.th[l].ci)]
    BY <1>2, <1>5, InvThread
  <2>5. ci(x, l).fn \in {"pcall", "xpcall", "call", "dofile", "yieldk"}
    <3>1. ci(x, l) = Machine.th[l].ci[a.ci]
      BY <2>3, <2>4, <1>5, Zenon
    <3> QED BY <3>1, <2>2, <1>4
  <2>6. ci(x, l).func \in Int
    BY <2>4 DEF CallInfoOK
  <2>7. k \in Int
    BY <2>4, <2>5, <2>6, ReturnsInt
  <2> HIDE DEF k, r, next
  <2>8. Inv(z) /\ z.cs = x.cs
    BY <2>3, <1>5, <1>6, EndYpcallInv
  <2>9. called = CReturn(z, l, k)
    BY DEF k
  <2> HIDE DEF z, called
  <2>10. Len(z.cs) >= 1 /\ z.cs[Len(z.cs)].l = l /\ z.cs[Len(z.cs)].f = "C"
    BY <2>2, <2>8, <1>6
  <2>11. Inv(CReturn(z, l, k))
    BY <2>7, <2>8, <2>10, CReturnInv
  <2>12. Become(called) /\ Inv(called)
    BY <2>1, <2>9, <2>11, <1>1
  <2> QED BY <2>12, BecomeInv
<1>12. Len(x.cs) = 1 \/ Len(x.cs) > 1
  <2> DEFINE m == Len(x.cs)
  <2> HIDE DEF n
  <2>1. m = n - 1
    BY <1>5
  <2> HIDE DEF m
  <2>2. m = 1 \/ m > 1
    BY <2>1, <1>3
  <2> QED BY <2>2 DEF m
<1> HIDE DEF r
<1> QED BY <1>4, <1>6, <1>7, <1>9, <1>10, <1>11, <1>12

(* unroll.                                                                 *)
LEMMA UnrollInv ==
    ASSUME IInv, unroll
    PROVE  IInv'
<1> DEFINE l == Running
           m == Machine
           n == Len(m.cs)
           p == Len(m.th[l].ci)
           c == ci(m, l)
           d == With_fresh(c, TRUE)
           ends == ResumeEnds(m, TRUE)
           u == SetCi(m, l, d)
           r == Exec(l, p)
           runs == PushC(u, r)
           finishes == finishCcall(m, l, FALSE)
<1>1. On("lua_resume") /\ m.th = threads
  BY DEF unroll, Machine
<1>2. Become(IF p = 1 THEN ends ELSE IF isLua(c) THEN runs ELSE finishes)
  BY <1>1 DEF unroll, With_fresh
<1>3. /\ Inv(m) /\ n >= 1 /\ m.cs[n].l = l /\ m.cs[n].f = "lua_resume"
      /\ l \in Threads /\ Shaped(m, l)
  BY <1>1, Runs
<1>4. n \in Nat /\ IsSeq(m.cs) /\ m.th[l].status = "OK" /\ n \in 1..n
  BY <1>3, InvTop
<1>5. p \in Nat /\ p >= 1 /\ ThreadInv(m.th[l]) /\ CallInfoOK(c) /\ c = m.th[l].ci[p]
  BY <1>3, InvThread
<1> HIDE DEF l, m, ends, finishes, runs
<1>6. CASE p = 1
  <2> DEFINE yes == TRUE
  <2>1. RawAt(m, l, n)
    BY <1>3, <1>4 DEF RawAt, IsRaw
  <2>2. Only(m, m, l)
    BY <1>3 DEF Only
  <2>3. yes \in BOOLEAN /\ yes
    OBVIOUS
  <2>4. ends = ResumeEnds(m, yes)
    BY DEF ends
  <2> HIDE DEF yes
  <2>5. m.th[l].status # "YIELD" /\ (m.th[l].status = "OK" => Len(m.th[l].ci) = 1 /\ yes)
    BY <2>3, <1>4, <1>6
  <2>6. Inv(ResumeEnds(m, yes))
    BY <2>1, <2>2, <2>3, <2>5, <1>3, <1>4, EndsInv
  <2>7. Become(ends)
    BY <1>2, <1>6
  <2> QED BY <2>4, <2>6, <2>7, BecomeInv
<1>7. CASE p # 1 /\ isLua(c)
  <2>1. p >= 2 /\ p \in 2..p
    <3> HIDE DEF p
    <3> QED BY <1>5, <1>7
  <2>2. Continues(c)
    BY <2>1, <1>5, Zenon DEF ThreadInv, CallsOK
  <2> HIDE DEF c
  <2>3. /\ CallInfoOK(d) /\ d.fresh /\ d.fn = c.fn /\ d.func = c.func /\ d.k = c.k
        /\ d.ypcall = c.ypcall /\ d.extra = c.extra
    BY <1>5, Sets_fresh, Zenon
  <2> HIDE DEF d
  <2>4. Continues(d) /\ isLua(d) /\ Fine(d) /\ ~d.k
    BY <2>2, <2>3, <1>7 DEF Continues, isLua, Fine
  <2>5. MayBecome(m, l, d)
    <3>1. d.fn = ci(m, l).fn /\ Len(m.th[l].ci) >= 2
      BY <2>1, <2>3 DEF c
    <3> QED BY <3>1, <2>3, <2>4, <1>3 DEF MayBecome
  <2>6. Inv(u)
    BY <2>5, SetCiInv, Zenon
  <2>7. /\ u.cs = m.cs /\ Len(u.th[l].ci) = p /\ u.th[l].ci[p] = d
        /\ u.th[l].status = m.th[l].status /\ u.th[l].nny = m.th[l].nny
    BY <1>3, SetCiFacts
  <2> HIDE DEF u
  <2>8. r.f = "luaV_execute" /\ r.l = l /\ r.ci = p /\ FrameOK(r)
    BY <2>1, <1>3, <1>5 DEF Exec, FrameOK
  <2> HIDE DEF r
  <2>9. Shaped(u, l) /\ ThreadInv(u.th[l]) /\ IsSeq(u.cs)
    BY <2>6, <2>7, <1>3, <1>4, InvThread
  <2>10. /\ Only(u, runs, l) /\ runs.th = u.th /\ IsSeq(runs.cs) /\ Len(runs.cs) = n + 1
         /\ runs.cs[n + 1] = r /\ \A i \in 1..n : runs.cs[i] = u.cs[i]
    <3>1. /\ Only(u, PushC(u, r), l) /\ PushC(u, r).th = u.th /\ IsSeq(PushC(u, r).cs)
          /\ Len(PushC(u, r).cs) = Len(u.cs) + 1 /\ PushC(u, r).cs[Len(u.cs) + 1] = r
          /\ \A i \in 1..Len(u.cs) : PushC(u, r).cs[i] = u.cs[i]
      BY <2>9, PushCFacts
    <3>2. Len(u.cs) = n
      BY <2>7
    <3> QED BY <3>1, <3>2 DEF runs
  <2>11. Beside(u, runs, l)
    BY <2>9, <2>10, OnlyBeside
  <2>12. Follows(runs, u.cs[n], r)
    BY <2>7, <2>8, <1>3 DEF Follows
  <2>13. Pushes(u, runs, l, r)
    <3>1. /\ runs.th[l].ci = u.th[l].ci /\ Len(u.cs) = n /\ Len(u.th[l].ci) = p
          /\ u.cs[n].f = "lua_resume" /\ u.cs[n].l = l
      BY <2>7, <2>10, <1>3
    <3>2. runs.th[l].status = u.th[l].status
          /\ runs.th[l].nny = u.th[l].nny + (IF r.f = "luaD_call" /\ r.noyield THEN 1 ELSE 0)
      <4>1. u.th[l].nny \in Int
        BY <2>6, <1>3, InvThread
      <4> QED BY <4>1, <2>8, <2>10
    <3>3. runs.th[l].ci[p].fresh /\ isLua(runs.th[l].ci[p])
      BY <3>1, <2>3, <2>4, <2>7
    <3> HIDE DEF n, p
    <3> QED BY <3>1, <3>2, <3>3, <2>8, <2>10, <2>11, <2>12, <1>3 DEF Pushes
  <2>14. Inv(runs)
    BY <2>6, <2>13, PushesInv
  <2>15. Become(runs)
    BY <1>2, <1>7
  <2> QED BY <2>14, <2>15, BecomeInv
<1>8. CASE p # 1 /\ ~isLua(c)
  <2> DEFINE no == FALSE
  <2>1. finishes = finishCcall(m, l, no) /\ no \in BOOLEAN
    BY DEF finishes
  <2>2. Len(m.th[l].ci) >= 2 /\ (~no => ~isLua(ci(m, l)))
    <3>1. p >= 2
      <4> HIDE DEF p
      <4> QED BY <1>5, <1>8
    <3> QED BY <3>1, <1>8
  <2> HIDE DEF no
  <2>3. Inv(finishCcall(m, l, no))
    BY <2>1, <2>2, <1>3, FinishInv
  <2>4. Become(finishes)
    BY <1>2, <1>8
  <2> QED BY <2>1, <2>3, <2>4, BecomeInv
<1> QED BY <1>6, <1>7, <1>8

-----------------------------------------------------------------------------
(* The first state: the host's protected call of a Lua function.           *)
LEMMA FirstInv ==
    ASSUME Init
    PROVE  IInv
<1> DEFINE x == Machine
           c1 == base_ci
           c2 == CallInfo("L", 2, MULTRET, TRUE)
           m == [preinit_thread EXCEPT !.nny = 2, !.nCcalls = 1, !.stack = <<"nil", "L">>,
                    !.ci = <<base_ci, CallInfo("L", 2, MULTRET, TRUE)>>]
           r1 == [f |-> "luaD_pcall", l |-> Main, ci |-> 1, nny |-> 1, errfunc |-> 0,
                  oldtop |-> 2, nCcalls |-> 0]
           r2 == DCall(Main, 1, TRUE)
           r3 == Exec(Main, 2)
<1>1. /\ x = [th |-> x.th, cs |-> x.cs] /\ x.th = [t \in Threads |-> x.th[t]]
      /\ x.th[Main] = m /\ \A t \in Threads : t # Main => x.th[t] = NoThread
      /\ x.cs = <<r1, r2, r3>>
  BY DEF Init, Machine, Threads
<1>2. IsSeq(x.cs) /\ Len(x.cs) = 3 /\ x.cs[1] = r1 /\ x.cs[2] = r2 /\ x.cs[3] = r3
  <2> HIDE DEF r1, r2, r3, x
  <2>1. IsSeq(<<r1, r2, r3>>) /\ Len(<<r1, r2, r3>>) = 3
    BY TupleFacts, Zenon
  <2> QED BY <2>1, <1>1
<1>3. /\ m.status = "OK" /\ m.nny = 2 /\ m.ci = <<c1, c2>> /\ m.stack = <<"nil", "L">>
      /\ m = [status |-> m.status, nny |-> m.nny, nCcalls |-> m.nCcalls,
              errfunc |-> m.errfunc, ci |-> m.ci, stack |-> m.stack]
  <2> DEFINE s == <<"nil", "L">>
             k == <<base_ci, CallInfo("L", 2, MULTRET, TRUE)>>
             a == [preinit_thread EXCEPT !.nny = 2]
             b == [a EXCEPT !.nCcalls = 1]
             c == [b EXCEPT !.stack = s]
             d == [c EXCEPT !.ci = k]
  <2>1. m = d
    OBVIOUS
  <2> HIDE DEF s, k
  <2>2. a = [status |-> "OK", nny |-> 2, nCcalls |-> 0, errfunc |-> 0,
             ci |-> <<base_ci>>, stack |-> <<"nil">>]
    BY DEF preinit_thread
  <2> HIDE DEF a
  <2>3. b = [status |-> "OK", nny |-> 2, nCcalls |-> 1, errfunc |-> 0,
             ci |-> <<base_ci>>, stack |-> <<"nil">>]
    BY <2>2
  <2> HIDE DEF b
  <2>4. c = [status |-> "OK", nny |-> 2, nCcalls |-> 1, errfunc |-> 0,
             ci |-> <<base_ci>>, stack |-> s]
    BY <2>3
  <2> HIDE DEF c
  <2>5. d = [status |-> "OK", nny |-> 2, nCcalls |-> 1, errfunc |-> 0, ci |-> k, stack |-> s]
    BY <2>4
  <2> HIDE DEF d, m
  <2>6. m = [status |-> "OK", nny |-> 2, nCcalls |-> 1, errfunc |-> 0, ci |-> k, stack |-> s]
    BY <2>1, <2>5
  <2>7. /\ m.status = "OK" /\ m.nny = 2 /\ m.ci = k /\ m.stack = s
        /\ m = [status |-> m.status, nny |-> m.nny, nCcalls |-> m.nCcalls,
                errfunc |-> m.errfunc, ci |-> m.ci, stack |-> m.stack]
    BY <2>6
  <2> QED BY <2>7 DEF k, s
<1>4. /\ NoThread.status = "none" /\ NoThread.nny = 1 /\ NoThread.ci = <<c1>>
      /\ NoThread.stack = <<"nil">>
      /\ NoThread = [status |-> NoThread.status, nny |-> NoThread.nny,
                     nCcalls |-> NoThread.nCcalls, errfunc |-> NoThread.errfunc,
                     ci |-> NoThread.ci, stack |-> NoThread.stack]
  BY DEF NoThread, preinit_thread
<1>5. /\ CallInfoOK(c1) /\ c1.fn = "base" /\ c1.func = 1 /\ ~c1.ypcall
      /\ CallInfoOK(c2) /\ isLua(c2) /\ c2.fresh /\ ~c2.k /\ ~c2.ypcall
  BY DEF base_ci, CallInfo, CallInfoOK, isLua, MULTRET
<1>6. /\ r1.f = "luaD_pcall" /\ r1.l = Main /\ r1.ci = 1 /\ r1.nny = 1 /\ r1.oldtop = 2
      /\ r2.f = "luaD_call" /\ r2.l = Main /\ r2.ci = 1 /\ r2.noyield
      /\ r3.f = "luaV_execute" /\ r3.l = Main /\ r3.ci = 2
  BY DEF DCall, Exec
<1>7. FrameOK(r1) /\ FrameOK(r2) /\ FrameOK(r3)
  BY DEF DCall, Exec, FrameOK, Threads
<1> HIDE DEF x, m, c1, c2, r1, r2, r3
<1>8. IsSeq(<<c1, c2>>) /\ Len(<<c1, c2>>) = 2 /\ IsSeq(<<c1>>) /\ Len(<<c1>>) = 1
  BY TupleFacts
<1>9. /\ IsSeq(m.ci) /\ Len(m.ci) = 2 /\ m.ci[1] = c1 /\ m.ci[2] = c2
      /\ IsSeq(NoThread.ci) /\ Len(NoThread.ci) = 1 /\ NoThread.ci[1] = c1
  BY <1>3, <1>4, <1>8
<1>10. IsSeq(m.stack) /\ IsSeq(NoThread.stack)
  <2> DEFINE a == "nil"
             b == "L"
  <2>1. IsSeq(<<a>>) /\ IsSeq(<<a, b>>)
    <3> HIDE DEF a, b
    <3> QED BY TupleFacts
  <2> QED BY <2>1, <1>3, <1>4
<1>11. ThreadInv(m)
  <2>1. ThreadOK(m)
    <3>1. \A i \in 1..2 : i = 1 \/ i = 2
      OBVIOUS
    <3>2. \A i \in 1..Len(m.ci) : CallInfoOK(m.ci[i])
      BY <3>1, <1>5, <1>9
    <3> QED BY <3>2, <1>3, <1>9, <1>10 DEF ThreadOK
  <2>2. CallsOK(m)
    <3>1. \A i \in 2..2 : i = 2
      OBVIOUS
    <3>2. Continues(c2)
      BY <1>5 DEF Continues
    <3> QED BY <3>1, <3>2, <1>3, <1>5, <1>9 DEF CallsOK
  <2> QED BY <2>1, <2>2 DEF ThreadInv
<1>12. ThreadInv(NoThread)
  <2>1. ThreadOK(NoThread)
    <3>1. \A i \in 1..1 : i = 1
      OBVIOUS
    <3> QED BY <3>1, <1>4, <1>5, <1>9, <1>10 DEF ThreadOK
  <2>2. CallsOK(NoThread)
    BY <1>4, <1>5, <1>9 DEF CallsOK
  <2> QED BY <2>1, <2>2 DEF ThreadInv
<1>13. \A i \in 1..3 : i = 1 \/ i = 2 \/ i = 3
  OBVIOUS
<1>14. /\ \A i \in 1..Len(x.cs) : x.cs[i].l = Main /\ x.cs[i].f # "lua_resume"
       /\ \A t \in Threads : InChain(x, t) <=> t = Main
       /\ Len(x.cs) >= 1 /\ Main \in Threads
  BY <1>2, <1>6, <1>13 DEF InChain, Threads
<1>15. MachineOK(x)
  <2>1. \A t \in Threads : ThreadInv(x.th[t])
    BY <1>1, <1>11, <1>12
  <2>2. \A i \in 1..Len(x.cs) : FrameOK(x.cs[i])
    BY <1>2, <1>7, <1>13
  <2> QED BY <2>1, <2>2, <1>1, <1>2 DEF MachineOK
<1>16. Bottom(x)
  BY <1>2, <1>6 DEF Bottom
<1>17. Adjacent(x)
  <2>1. \A i \in 1..(3 - 1) : i = 1 \/ i = 2
    OBVIOUS
  <2>2. Follows(x, r1, r2) /\ Follows(x, r2, r3)
    BY <1>6 DEF Follows
  <2> QED BY <2>1, <2>2, <1>2 DEF Adjacent
<1>18. Top(x)
  BY <1>2, <1>6 DEF Top
<1>19. Levels(x)
  <2>1. \A i \in 1..Len(x.cs) : x.cs[i].ci <= Len(x.th[x.cs[i].l].ci)
    BY <1>1, <1>2, <1>6, <1>9, <1>13
  <2>2. ASSUME NEW j \in 1..Len(x.cs), NEW i \in 1..(j - 1)
        PROVE  /\ x.cs[i].ci <= x.cs[j].ci
               /\ x.cs[j].f \in {"luaV_execute", "C"} => x.cs[i].ci < x.cs[j].ci
    <3>1. (j = 2 /\ i = 1) \/ (j = 3 /\ (i = 1 \/ i = 2))
      BY <1>2, <1>13
    <3> QED BY <3>1, <1>2, <1>6
  <2> QED BY <2>1, <2>2 DEF Levels
<1>20. Owners(x)
  <2>1. \A j \in 1..Len(x.cs) : \A i \in 1..(j - 1) : \A n \in i..j : n \in 1..Len(x.cs)
    BY <1>2
  <2>2. \A j \in 1..Len(x.cs) : \A i \in 1..(j - 1) : i \in 1..Len(x.cs)
    BY <1>2
  <2> QED BY <2>1, <2>2, <1>14 DEF Owners
<1>21. Counts(x)
  <2>1. Uncrossed(x, Main, 3) = {2} /\ Uncrossed(x, Main, 1) = {}
    <3>1. \A i \in 1..1 : i = 1
      OBVIOUS
    <3> QED BY <3>1, <1>2, <1>6, <1>13 DEF Uncrossed
  <2>2. Cardinality({2}) = 1 /\ Cardinality({}) = 0
    BY FS_Singleton, FS_EmptySet
  <2>3. \A t \in Threads : t # Main => Uncrossed(x, t, 3) = {}
    BY <1>2, <1>14 DEF Uncrossed
  <2>4. \A t \in Threads :
            x.th[t].nny = Cardinality(Uncrossed(x, t, 3))
                          + (IF t = Main \/ ~InChain(x, t) THEN 1 ELSE 0)
    <3>1. x.th[Main].nny = 2 /\ \A t \in Threads : t # Main => x.th[t].nny = 1
      BY <1>1, <1>3, <1>4
    <3>2. Cardinality(Uncrossed(x, Main, 3)) = 1
          /\ \A t \in Threads : t # Main => Cardinality(Uncrossed(x, t, 3)) = 0
      BY <2>1, <2>2, <2>3
    <3> QED BY <3>1, <3>2, <1>14
  <2>5. \A i \in 1..Len(x.cs) : x.cs[i].f = "luaD_pcall" =>
            x.cs[i].nny = Cardinality(Uncrossed(x, x.cs[i].l, i))
                          + (IF x.cs[i].l = Main THEN 1 ELSE 0)
    BY <2>1, <2>2, <1>2, <1>6, <1>13
  <2> QED BY <2>4, <2>5, <1>2 DEF Counts
<1>22. Stuck(x)
  <2>1. \A i \in 2..2 : i = 2
    OBVIOUS
  <2> QED BY <2>1, <1>1, <1>5, <1>9, <1>14, Zenon DEF Stuck, Fine
<1>23. Executed(x)
  <2>1. ASSUME NEW j \in 1..Len(x.cs), x.cs[j].f = "luaV_execute"
        PROVE  j = 3
    BY <2>1, <1>2, <1>6, <1>13
  <2>2. Upper(x, 3) = 2
    BY <1>1, <1>2, <1>6, <1>9 DEF Upper
  <2>3. \A i \in (2 + 1)..2 : FALSE
    OBVIOUS
  <2> QED BY <2>1, <2>2, <2>3, <1>1, <1>2, <1>5, <1>6, <1>9 DEF Executed
<1>24. Statuses(x)
  BY <1>1, <1>2, <1>3, <1>4, <1>6, <1>14 DEF Statuses
<1> QED BY <1>15, <1>16, <1>17, <1>18, <1>19, <1>20, <1>21, <1>22, <1>23, <1>24
        DEF IInv, Inv, x

(* Every step keeps the invariant.                                         *)
LEMMA StepInv ==
    ASSUME IInv, [Next]_vars
    PROVE  IInv'
<1>1. CASE UNCHANGED vars
  BY <1>1 DEF vars, IInv, Machine
<1>2. CASE Stopped
  BY <1>2, <1>1 DEF Stopped
<1> QED
  BY <1>1, <1>2, LoadkInv, OpCallInv, CallTMInv, OpReturnInv, ArgcheckInv, LuaPcallInv,
     LuaXpcallInv, LuaCallInv, LuaDofileInv, LuaErrorInv, LuaYieldInv, YieldkInv,
     CocreateInv, CoresumeInv, AuxwrapInv, CallReturnsInv, UnrollInv DEF Next

(* The machine keeps its invariant (ldo.c, lbaselib.c and lcorolib.c).     *)
THEOREM Inductive == Spec => []IInv
<1>1. Init => IInv
  BY FirstInv
<1>2. IInv /\ [Next]_vars => IInv'
  BY StepInv
<1> QED BY <1>1, <1>2, PTL DEF Spec

-----------------------------------------------------------------------------
(* The chain, as the frames of lua_resume tell it.                         *)

(* The ranks of the members of a set of numbers.                           *)
Rank(S, p) == Cardinality({q \in S : q <= p})

(* The ranks of the members of a set of k numbers are 1 to k, each once.   *)
LEMMA Ranks ==
    ASSUME NEW n \in Nat, NEW S \in SUBSET (1..n)
    PROVE  LET k == Cardinality(S)
           IN  /\ k \in Nat /\ \A p \in S : Rank(S, p) \in 1..k
               /\ \A p, q \in S : Rank(S, p) = Rank(S, q) => p = q
               /\ \A i \in 1..k : \E p \in S : Rank(S, p) = i
<1> DEFINE k == Cardinality(S)
           T == 1..k
           f == [p \in S |-> Rank(S, p)]
<1>1. IsFiniteSet(S) /\ k \in Nat
  <2>1. IsFiniteSet(1..n)
    BY FS_Interval
  <2>2. IsFiniteSet(S)
    BY <2>1, FS_Subset
  <2> QED BY <2>2, FS_CardinalityType
<1>0. \A p \in S : p \in Nat
  OBVIOUS
<1>2. \A p \in S : /\ IsFiniteSet({q \in S : q <= p}) /\ Rank(S, p) \in Nat
                   /\ Rank(S, p) <= k /\ Rank(S, p) >= 1
  <2>1. SUFFICES ASSUME NEW p \in S
                 PROVE  /\ IsFiniteSet({q \in S : q <= p}) /\ Rank(S, p) \in Nat
                        /\ Rank(S, p) <= k /\ Rank(S, p) >= 1
    OBVIOUS
  <2> DEFINE U == {q \in S : q <= p}
  <2>2. U \subseteq S /\ p \in U
    BY <2>1
  <2> HIDE DEF U
  <2>3. IsFiniteSet(U) /\ Cardinality(U) \in Nat /\ Cardinality(U) <= k
    BY <1>1, <2>2, FS_Subset, FS_CardinalityType
  <2>4. Cardinality(U) # 0
    BY <2>2, <2>3, FS_EmptySet
  <2>5. Cardinality(U) >= 1
    BY <2>3, <2>4
  <2> QED BY <2>3, <2>5 DEF U, Rank
<1>3. ASSUME NEW p \in S, NEW q \in S, p < q
      PROVE  Rank(S, p) < Rank(S, q)
  <2> DEFINE U == {r \in S : r <= p}
             V == {r \in S : r <= q}
  <2>1. U \subseteq V /\ q \in V /\ q \notin U
    <3>1. p \in Nat /\ q \in Nat /\ p < q
      BY <1>0, <1>3
    <3>2. ASSUME NEW r \in S, r <= p PROVE r <= q
      BY <3>1, <3>2, <1>0
    <3>3. ~(q <= p) /\ q <= q
      BY <3>1
    <3>4. U \subseteq V
      BY <3>2
    <3> QED BY <3>3, <3>4
  <2>2. IsFiniteSet(V)
    BY <1>2
  <2> HIDE DEF U, V
  <2>3. Cardinality(U) <= Cardinality(V) /\ (Cardinality(U) = Cardinality(V) => U = V)
        /\ Cardinality(U) \in Nat /\ Cardinality(V) \in Nat
    BY <2>1, <2>2, FS_Subset, FS_CardinalityType
  <2>4. U # V
    BY <2>1
  <2>5. Cardinality(U) < Cardinality(V)
    BY <2>3, <2>4
  <2> QED BY <2>5 DEF U, V, Rank
<1>4. \A p, q \in S : Rank(S, p) = Rank(S, q) => p = q
  <2>1. SUFFICES ASSUME NEW p \in S, NEW q \in S, Rank(S, p) = Rank(S, q), p # q
                 PROVE  FALSE
    OBVIOUS
  <2>2. p < q \/ q < p
    BY <2>1, <1>0
  <2>3. Rank(S, p) < Rank(S, q) \/ Rank(S, q) < Rank(S, p)
    BY <2>2, <1>3
  <2>4. Rank(S, p) \in Nat
    BY <1>2
  <2> QED BY <2>1, <2>3, <2>4
<1>5. \A p \in S : Rank(S, p) \in T
  <2>1. \A p \in S : Rank(S, p) \in Nat /\ Rank(S, p) <= k /\ Rank(S, p) >= 1
    BY <1>2
  <2> HIDE DEF k
  <2> QED BY <2>1, <1>1
<1>6. f \in Injection(S, T)
  BY <1>4, <1>5 DEF Injection, IsInjective
<1>7. IsFiniteSet(T) /\ Cardinality(T) = k
  <2>1. IsFiniteSet(1..k) /\ Cardinality(1..k) = IF 1 > k THEN 0 ELSE k - 1 + 1
    BY <1>1, FS_Interval
  <2> HIDE DEF k
  <2> QED BY <2>1, <1>1
<1> HIDE DEF k, T
<1>8. f \in Surjection(S, T)
  <2> HIDE DEF f
  <2>1. Cardinality(S) = Cardinality(T) <=> f \in Surjection(S, T)
    BY <1>6, <1>7, FS_Injection
  <2> QED BY <2>1, <1>7 DEF k
<1>9. \A i \in T : \E p \in S : Rank(S, p) = i
  BY <1>8 DEF Surjection
<1> QED BY <1>1, <1>4, <1>5, <1>9 DEF k, T

(* The threads of the chain are those whose lua_resume is on the C stack.  *)
LEMMA ChainIs ==
    ASSUME IInv, cstack # <<>>, NEW t \in Threads
    PROVE  t \in Range(Chain) <=> InChain(Machine, t)
<1> DEFINE n == Len(cstack)
           k == Cardinality(Resumes)
           s == [i \in 1..k |-> cstack[ResumeAt(i)].l]
           m == <<Main>>
           chain == m \o s
<1>1. Machine.cs = cstack /\ IsSeq(cstack) /\ n \in Nat
  <2>1. Machine.cs = cstack /\ IsSeq(cstack)
    BY Zenon DEF IInv, Inv, MachineOK, Machine
  <2> QED BY <2>1, Zenon DEF IsSeq
<1>2. DOMAIN cstack = 1..n
  BY <1>1, SeqIn
<1>3. Resumes \in SUBSET (1..n)
  BY <1>2 DEF Resumes
<1>4. /\ k \in Nat /\ \A p \in Resumes : Rank(Resumes, p) \in 1..k
      /\ \A p, q \in Resumes : Rank(Resumes, p) = Rank(Resumes, q) => p = q
      /\ \A i \in 1..k : \E p \in Resumes : Rank(Resumes, p) = i
  BY <1>1, <1>3, Ranks
<1>5. \A i : ResumeAt(i) = CHOOSE p \in Resumes : Rank(Resumes, p) = i
  BY DEF ResumeAt, Rank
<1> HIDE DEF k
<1>6. \A i \in 1..k : ResumeAt(i) \in Resumes
  BY <1>4, <1>5
<1>7. \A p \in Resumes : ResumeAt(Rank(Resumes, p)) = p
  <2>1. SUFFICES ASSUME NEW p \in Resumes PROVE ResumeAt(Rank(Resumes, p)) = p
    OBVIOUS
  <2> DEFINE i == Rank(Resumes, p)
  <2>2. ResumeAt(i) = CHOOSE q \in Resumes : Rank(Resumes, q) = i
    BY <1>5
  <2>3. ResumeAt(i) \in Resumes /\ Rank(Resumes, ResumeAt(i)) = i
    BY <2>1, <2>2
  <2> QED BY <2>1, <2>3, <1>4
<1>8. Chain = chain
  BY DEF Chain, k
<1>9. IsSeq(s) /\ Len(s) = k
  <2>1. Len(s) = k
    BY <1>4
  <2> QED BY <2>1, <1>4 DEF IsSeq
<1>10. IsSeq(m) /\ Len(m) = 1 /\ m[1] = Main
  BY TupleFacts
<1>11. \A i \in 1..k : s[i] = cstack[ResumeAt(i)].l
  OBVIOUS
<1> HIDE DEF s, m
<1>12. /\ IsSeq(chain) /\ Len(chain) = 1 + k
       /\ \A i \in 1..(1 + k) : chain[i] = IF i <= 1 THEN m[i] ELSE s[i - 1]
  <2>1. IsSeq(m) /\ IsSeq(s)
    BY <1>9, <1>10
  <2>2. /\ IsSeq(m \o s) /\ Len(m \o s) = Len(m) + Len(s)
        /\ \A i \in 1..(Len(m) + Len(s)) :
              (m \o s)[i] = IF i <= Len(m) THEN m[i] ELSE s[i - Len(m)]
    BY <2>1, ConcatFacts
  <2>3. Len(m) = 1 /\ Len(s) = k
    BY <1>9, <1>10
  <2> QED BY <2>2, <2>3
<1> HIDE DEF chain
<1>13. Range(Chain) = {chain[i] : i \in 1..(1 + k)}
  <2>1. DOMAIN chain = 1..(1 + k)
    BY <1>12, SeqIn
  <2> QED BY <2>1, <1>8 DEF Range
<1>14. InChain(Machine, t) <=> (t = Main \/ \E p \in Resumes : cstack[p].l = t)
  BY <1>1, <1>2 DEF InChain, Resumes
<1>15. ASSUME t \in Range(Chain) PROVE InChain(Machine, t)
  <2>1. PICK i \in 1..(1 + k) : chain[i] = t
    BY <1>13, <1>15
  <2>2. CASE i <= 1
    <3>1. i = 1
      BY <2>2
    <3> QED BY <3>1, <2>1, <1>10, <1>12, <1>14
  <2>3. CASE ~(i <= 1)
    <3>1. i - 1 \in 1..k
      BY <2>3, <1>4
    <3>2. t = cstack[ResumeAt(i - 1)].l
      BY <3>1, <2>1, <2>3, <1>11, <1>12
    <3> QED BY <3>1, <3>2, <1>6, <1>14
  <2> QED BY <2>2, <2>3
<1>16. ASSUME InChain(Machine, t) PROVE t \in Range(Chain)
  <2>1. CASE t = Main
    <3>1. 1 \in 1..(1 + k)
      BY <1>4
    <3> QED BY <3>1, <2>1, <1>10, <1>12, <1>13
  <2>2. ASSUME NEW p \in Resumes, cstack[p].l = t PROVE t \in Range(Chain)
    <3> DEFINE i == Rank(Resumes, p)
    <3>1. i \in 1..k /\ ResumeAt(i) = p
      BY <1>4, <1>7
    <3> HIDE DEF i
    <3>2. i + 1 \in 1..(1 + k) /\ ~(i + 1 <= 1) /\ (i + 1) - 1 = i
      BY <3>1, <1>4
    <3>3. chain[i + 1] = s[i]
      BY <3>2, <1>12
    <3>4. s[i] = t
      BY <3>1, <2>2, <1>11
    <3> QED BY <3>2, <3>3, <3>4, <1>13
  <2> QED BY <2>1, <2>2, <1>14, <1>16
<1> QED BY <1>15, <1>16

(* What nny counts, which call infos a yield can leave, where protected    *)
(* calls are.                                                              *)
LEMMA SafeYields ==
    ASSUME IInv
    PROVE  YieldsAreSafe
<1>1. Machine.th = threads /\ Machine.cs = cstack /\ Inv(Machine)
  BY DEF Machine, IInv
<1>2. SUFFICES ASSUME NEW t \in Threads
               PROVE  LET th == threads[t] IN
                      /\ (th.status # "none" /\ cstack # <<>>) =>
                            th.nny = Cardinality({i \in DOMAIN cstack : cstack[i].l = t /\
                                        cstack[i].f = "luaD_call" /\ cstack[i].noyield})
                                     + (IF t = Main \/ t \notin Range(Chain) THEN 1 ELSE 0)
                      /\ th.status = "YIELD" =>
                            \A i \in 2..(Len(th.ci) - 1) : isLua(th.ci[i]) \/ th.ci[i].k
                      /\ \A i \in 2..(Len(th.ci) - 1) :
                            th.ci[i].ypcall =>
                                th.ci[i].extra = th.ci[i].func + 2 + Extra(th.ci[i].fn)
  BY DEF YieldsAreSafe
<1>3. ThreadInv(threads[t]) /\ Len(threads[t].ci) \in Nat
  BY <1>1, InvThread
<1>4. ASSUME cstack # <<>>
      PROVE  threads[t].nny = Cardinality({i \in DOMAIN cstack : cstack[i].l = t /\
                                  cstack[i].f = "luaD_call" /\ cstack[i].noyield})
                              + (IF t = Main \/ t \notin Range(Chain) THEN 1 ELSE 0)
  <2>1. IsSeq(cstack) /\ Len(cstack) >= 1
    BY <1>1, <1>4, NotEmptySeq DEF Inv, MachineOK
  <2>2. DOMAIN cstack = 1..Len(cstack)
    BY <2>1, SeqIn
  <2>3. threads[t].nny = Cardinality(Uncrossed(Machine, t, Len(cstack)))
                         + (IF t = Main \/ ~InChain(Machine, t) THEN 1 ELSE 0)
    BY <2>1, <1>1 DEF Inv, Counts
  <2>4. Uncrossed(Machine, t, Len(cstack)) = {i \in DOMAIN cstack : cstack[i].l = t /\
            cstack[i].f = "luaD_call" /\ cstack[i].noyield}
    BY <2>2, <1>1 DEF Uncrossed
  <2>5. t \in Range(Chain) <=> InChain(Machine, t)
    BY <1>4, ChainIs, Zenon
  <2> QED BY <2>3, <2>4, <2>5
<1>5. threads[t].status = "YIELD" =>
          \A i \in 2..(Len(threads[t].ci) - 1) : isLua(threads[t].ci[i]) \/ threads[t].ci[i].k
  BY <1>3 DEF ThreadInv, CallsOK, Fine
<1>6. \A i \in 2..(Len(threads[t].ci) - 1) :
          threads[t].ci[i].ypcall =>
              threads[t].ci[i].extra = threads[t].ci[i].func + 2 + Extra(threads[t].ci[i].fn)
  <2>1. \A i \in 2..(Len(threads[t].ci) - 1) : i \in 2..Len(threads[t].ci)
    BY <1>3
  <2> QED BY <2>1, <1>3 DEF ThreadInv, CallsOK, Continues
<1> QED BY <1>4, <1>5, <1>6

(* Whatever was cut, nny counts the calls that a yield cannot cross, and   *)
(* the call infos under a yield can be finished without their C frames     *)
(* (lua_yieldk, lua_resume, luaD_throw and the assertions of finishCcall). *)
THEOREM Yields == Spec => []YieldsAreSafe
BY Inductive, SafeYields, PTL

(* A thread that is not the one that runs.                                 *)
LEMMA OtherThread ==
    ASSUME IInv, InLua \/ On("C"), NEW co \in Threads, co # Running,
           threads[co].status # "none"
    PROVE  luaB_costatus(co) = IF co \in Range(Chain) THEN "normal"
                               ELSE IF Coro!Resumable(co) THEN "suspended" ELSE "dead"
<1> DEFINE th == threads[co]
           p == Len(th.ci)
           fs == Frames[co]
<1>1. /\ cstack # <<>> /\ Inv(Machine) /\ Machine.th = threads /\ Machine.cs = cstack
      /\ Len(Machine.cs) >= 1 /\ Machine.cs[Len(Machine.cs)].l = Running
  BY Runs DEF InLua, On
<1>2. co \in Range(Chain) <=> InChain(Machine, co)
  BY <1>1, ChainIs
<1>3. ThreadInv(th) /\ p \in Nat /\ p >= 1 /\ ci(Machine, co) = th.ci[p]
  BY <1>1, InvThread
<1>4. /\ th.ci[1].fn = "base" /\ th.ci[1].func = 1 /\ IsSeq(th.ci) /\ IsSeq(th.stack)
      /\ th.status \in {"none", "OK", "YIELD", "ERRRUN"}
  BY <1>3 DEF ThreadInv, ThreadOK, CallsOK
<1>5. DOMAIN th.ci = 1..p /\ Len(th.stack) \in Nat
  BY <1>4, SeqIn
<1>6. fs = AbstractFrames(co)
  BY DEF Frames
<1>7. Coro!Resumable(co) <=> /\ co \notin Coro!Range(Chain)
                             /\ \/ Len(fs) = 1 /\ fs[1].vals # <<>>
                                \/ /\ fs # <<>> /\ co \notin Coro!Range(Chain)
                                   /\ Coro!Last(fs).fn \in {"yield", "yieldk"}
  BY DEF Coro!Resumable, Coro!NotBegun, Coro!Yielded
<1>8. Coro!Range(Chain) = Range(Chain) /\ Coro!Last(fs) = fs[Len(fs)]
  BY DEF Coro!Range, Range, Coro!Last
<1> HIDE DEF fs
<1>9. CASE InChain(Machine, co)
  <2>1. th.status = "OK" /\ p >= 2
    BY <1>1, <1>9 DEF Inv, Statuses
  <2>2. luaB_costatus(co) = "normal"
    <3>1. p > 1
      <4> HIDE DEF p
      <4> QED BY <2>1, <1>3
    <3> QED BY <3>1, <2>1 DEF luaB_costatus
  <2> QED BY <2>2, <1>2, <1>9
<1>10. CASE ~InChain(Machine, co) /\ th.status = "YIELD"
  <2>1. p >= 2 /\ th.ci[p].fn \in {"yield", "yieldk"}
    BY <1>3, <1>10 DEF ThreadInv, CallsOK
  <2>2. luaB_costatus(co) = "suspended"
    BY <1>10 DEF luaB_costatus
  <2>3. fs = [i \in 1..p |-> AbstractFrame(co, i)]
    BY <1>5, <1>6, <1>10, SMT DEF AbstractFrames
  <2>4. Len(fs) = p /\ fs[p] = AbstractFrame(co, p) /\ fs # <<>>
    <3> HIDE DEF p
    <3> QED BY <2>1, <2>3, <1>3
  <2>5. fs[p].fn = th.ci[p].fn
    BY <2>4 DEF AbstractFrame
  <2> QED BY <2>1, <2>2, <2>4, <2>5, <1>2, <1>7, <1>8, <1>10
<1>11. CASE ~InChain(Machine, co) /\ th.status = "OK"
  <2>1. p = 1 /\ Len(th.stack) >= 1
    BY <1>1, <1>11 DEF Inv, Statuses
  <2>2. lua_gettop(Machine, co) = Len(th.stack) - 1
    BY <2>1, <1>1, <1>3, <1>4 DEF lua_gettop
  <2>3. luaB_costatus(co) = IF Len(th.stack) = 1 THEN "dead" ELSE "suspended"
    <3>1. ~(Len(th.ci) > 1)
      BY <2>1
    <3>2. lua_gettop(Machine, co) = 0 <=> Len(th.stack) = 1
      BY <2>2, <1>5
    <3> QED BY <3>1, <3>2, <1>11 DEF luaB_costatus
  <2>4. fs = [i \in 1..1 |-> AbstractFrame(co, i)]
    BY <2>1, <1>5, <1>6, <1>11, SMT DEF AbstractFrames
  <2>5. Len(fs) = 1 /\ fs[1] = AbstractFrame(co, 1)
    BY <2>4
  <2>6. FrameSt(co, 1) = "called"
    BY DEF FrameSt
  <2>7. fs[1].fn = "base" /\ fs[1].vals = Segment(co, 1)
    BY <2>5, <2>6, <1>4 DEF AbstractFrame
  <2>8. Segment(co, 1) = SubSeq(th.stack, 2, Len(th.stack))
    BY <2>1, <1>4, <1>11 DEF Segment, FuncOf
  <2>9. Segment(co, 1) # <<>> <=> Len(th.stack) # 1
    <3> DEFINE s == SubSeq(th.stack, 2, Len(th.stack))
    <3>1. IsSeq(s) /\ Len(s) = IF 2 <= Len(th.stack) THEN Len(th.stack) - 2 + 1 ELSE 0
      BY <1>5, SubSeqFacts
    <3>2. s # <<>> <=> Len(s) >= 1
      BY <3>1, NotEmptySeq
    <3> HIDE DEF s
    <3>3. Len(s) >= 1 <=> Len(th.stack) # 1
      <4>1. PICK m \in Nat : m = Len(th.stack)
        BY <1>5
      <4>2. m >= 1 /\ Len(s) = IF 2 <= m THEN m - 2 + 1 ELSE 0
        BY <4>1, <3>1, <2>1
      <4>3. Len(s) >= 1 <=> m # 1
        BY <4>2
      <4> QED BY <4>1, <4>3
    <3> QED BY <3>2, <3>3, <2>8 DEF s
  <2> QED BY <2>3, <2>5, <2>7, <2>9, <1>2, <1>7, <1>8, <1>11
<1>12. CASE ~InChain(Machine, co) /\ th.status = "ERRRUN"
  <2>1. luaB_costatus(co) = "dead"
    BY <1>12 DEF luaB_costatus
  <2> DEFINE r == [fn |-> "base", nres |-> MULTRET, vals |-> <<>>, st |-> "called"]
  <2>2. fs = <<r>>
    BY <1>6, <1>12, SMT DEF AbstractFrames
  <2>3. r.vals = <<>> /\ r.fn = "base"
    OBVIOUS
  <2> HIDE DEF r
  <2>4. Len(fs) = 1 /\ fs[1] = r
    BY <2>2
  <2> QED BY <2>1, <2>3, <2>4, <1>2, <1>7, <1>8, <1>12
<1> QED BY <1>4, <1>9, <1>10, <1>11, <1>12

(* coroutine.status tells whether a thread waits for another, can be       *)
(* resumed, or neither (luaB_costatus).                                    *)
THEOREM Status == Spec => []StatusTruth
<1>1. IInv => StatusTruth
  BY OtherThread DEF StatusTruth, Threads
<1> QED BY <1>1, Inductive, PTL
=============================================================================
