----------------------------- MODULE Coroutines -----------------------------
(***************************************************************************)
(* What coroutines, protected calls and errors promise to a program: every *)
(* thread has a stack of frames of its own; a call adds a frame, a return  *)
(* gives its results to the frame below; a yield gives values to the frame *)
(* that resumed and leaves the frames where they are; an error goes to the *)
(* last protected call of its own thread, however often the thread yielded *)
(* since that call began, and with none it ends the thread and is the      *)
(* resumer's.  Nothing here knows of a C stack.                            *)
(***************************************************************************)
EXTENDS Integers, Sequences, SequencesExt

CONSTANTS Main, Coroutines, Functions, WrapOf

VARIABLES frames,   \* of each thread, its frames, the base first
          chain     \* the threads that run: each resumed the next

avars == <<frames, chain>>

Threads == {Main} \cup Coroutines
Running == Last(chain)
Wraps == DOMAIN WrapOf

\* A frame: the function, how many results its caller wants (-1: all of
\* them), its values, and whether it has made its call ("called"), is about
\* to begin ("start") or to pass an error on ("raise").
Frame(fn, nres, vals, st) == [fn |-> fn, nres |-> nres, vals |-> vals, st |-> st]
Adjusted(v, n) ==
    IF n = -1 THEN v ELSE [i \in 1..n |-> IF i <= Len(v) THEN v[i] ELSE "nil"]
LastOf(v, n) == SubSeq(v, Len(v) - n + 1, Len(v))

\* The frames once the last of them has returned v.
Returned(fs, v) ==
    LET g == fs[Len(fs) - 1]
    IN  Append(SubSeq(fs, 1, Len(fs) - 2),
               [g EXCEPT !.vals = @ \o Adjusted(v, Last(fs).nres)])

Become(t, fs) == frames' = [frames EXCEPT ![t] = fs]
Same == chain' = chain
Fresh(fn) == IF fn = "L" THEN "called" ELSE "start"

Top == Last(frames[Running])
Starts(fn) == chain # <<>> /\ Top.fn = fn /\ Top.st = "start"

\* The Lua function that runs does what it likes with its own registers,
\* and may call.
LuaStep ==
    /\ chain # <<>> /\ Top.fn = "L"
    /\ Same
    /\ LET fs  == frames[Running]
           new == frames'[Running]
           n   == Len(fs)
       IN  /\ Len(new) \in {n, n + 1}
           /\ Become(Running,
                  Append(Front(fs), [Top EXCEPT !.vals = new[n].vals])
                  \o IF Len(new) = n THEN <<>>
                     ELSE <<Frame(new[n + 1].fn, new[n + 1].nres, new[n + 1].vals,
                                  Fresh(new[n + 1].fn))>>)
           /\ Len(new) = n + 1 => new[n + 1].fn \in Functions

LuaReturn ==
    /\ chain # <<>> /\ Top.fn = "L" /\ Len(frames[Running]) > 1
    /\ Same
    /\ \E n \in 0..Len(Top.vals) :
           Become(Running, Returned(frames[Running], LastOf(Top.vals, n)))

\* The C functions that call: what they keep, the function and its
\* arguments, and how many results they want.
Keeps(f) == CASE f.fn = "pcall"  -> <<"true">>
              [] f.fn = "xpcall" -> <<f.vals[1], f.vals[2], "true">>
              [] f.fn = "call"   -> <<>>
              [] f.fn = "dofile" -> <<"nil">>
Callee(f) == CASE f.fn = "xpcall" -> <<f.vals[1]>> \o SubSeq(f.vals, 3, Len(f.vals))
               [] f.fn = "dofile" -> <<"L">>
               [] OTHER -> f.vals
Results(f) == CASE f.fn = "pcall"  -> f.vals
                [] f.fn = "xpcall" -> SubSeq(f.vals, 3, Len(f.vals))
                [] f.fn = "call"   -> LastOf(f.vals, 1)
                [] f.fn = "dofile" -> Tail(f.vals)
Callers == {"pcall", "xpcall", "call", "dofile"}

\* The arguments that a function checks before it does anything.
IsFunction(v) == v \in Functions \cup {"handler"}
GoodArguments ==
    CASE Top.fn = "pcall"  -> Top.vals # <<>>
      [] Top.fn = "xpcall" -> Len(Top.vals) >= 2 /\ IsFunction(Top.vals[2])
      [] Top.fn = "create" -> Top.vals # <<>> /\ IsFunction(Top.vals[1])
      [] Top.fn = "resume" -> Top.vals # <<>> /\ Top.vals[1] \in Threads
                              /\ frames[Top.vals[1]] # <<>>
      [] OTHER -> TRUE

CCall ==
    /\ \E fn \in Callers : Starts(fn)
    /\ GoodArguments
    /\ Same
    /\ LET call == Callee(Top)
           want == IF Top.fn = "call" THEN 1 ELSE -1
       IN  Become(Running, Front(frames[Running])
                           \o <<[Top EXCEPT !.vals = Keeps(Top), !.st = "called"],
                                Frame(call[1], want, Tail(call), Fresh(call[1]))>>)

CReturn ==
    /\ chain # <<>> /\ Top.fn \in Callers /\ Top.st = "called"
    /\ Same
    /\ Become(Running, Returned(frames[Running], Results(Top)))

Create ==
    /\ Starts("create") /\ GoodArguments
    /\ Same
    /\ \E co \in Coroutines :
           /\ frames[co] = <<>>
           /\ frames' = [frames EXCEPT
                 ![Running] = Returned(@, <<co>>),
                 ![co] = <<Frame("base", -1, <<Top.vals[1]>>, "called")>>]

\* A thread that can be resumed has not begun, or has yielded.
NotBegun(co) == Len(frames[co]) = 1 /\ frames[co][1].vals # <<>>
Yielded(co) == /\ frames[co] # <<>> /\ co \notin Range(chain)
               /\ Last(frames[co]).fn \in {"yield", "yieldk"}
Resumable(co) == /\ co \notin Range(chain)
                 /\ (NotBegun(co) \/ Yielded(co))

Resumes == (Starts("resume") /\ GoodArguments) \/ \E w \in Wraps : Starts(w)
Target == IF Top.fn = "resume" THEN Top.vals[1] ELSE WrapOf[Top.fn]
Passed == IF Top.fn = "resume" THEN Tail(Top.vals) ELSE Top.vals

\* The frames of a thread that is resumed with v.
Continued(fs, v) ==
    CASE Len(fs) = 1 ->
           LET fn == fs[1].vals[1]
           IN  <<[fs[1] EXCEPT !.vals = <<>>], Frame(fn, -1, v, Fresh(fn))>>
      [] Last(fs).fn = "yield" -> Returned(fs, v)
      [] OTHER -> Returned(fs, Last(fs).vals \o v)

Calls(f) == [f EXCEPT !.vals = IF f.fn = "resume" THEN <<f.vals[1]>> ELSE <<>>,
                      !.st = "called"]

Resume ==
    /\ Resumes /\ Resumable(Target)
    /\ chain' = Append(chain, Target)
    /\ frames' = [frames EXCEPT ![Running] = Append(Front(@), Calls(Top)),
                               ![Target] = Continued(@, Passed)]

\* The frame that resumed gets the values of a thread that yields or ends,
\* or the error that ended it.
Handed(fs, ok, v) ==
    CASE Last(fs).fn = "resume" ->
           Returned(fs, <<IF ok THEN "true" ELSE "false">> \o v)
      [] Last(fs).fn # "resume" /\ ok -> Returned(fs, v)
      [] OTHER -> Append(Front(fs), [Last(fs) EXCEPT !.vals = v, !.st = "raise"])

ResumeFails ==
    /\ Resumes /\ ~Resumable(Target)
    /\ Same
    /\ Become(Running, Handed(frames[Running], FALSE, <<"E">>))

Resumer == chain[Len(chain) - 1]
BackTo(fs, ok, v) ==
    /\ chain' = Front(chain)
    /\ frames' = [frames EXCEPT ![Running] = fs, ![Resumer] = Handed(@, ok, v)]

\* A C function that called without a continuation cannot be left by a
\* yield, nor can the main thread.
CanYield == /\ Running # Main
            /\ \A i \in DOMAIN frames[Running] : frames[Running][i].fn # "call"
Yields == Starts("yield") \/ Starts("yieldk")

Yield ==
    /\ Yields /\ CanYield
    /\ LET own == Top.fn = "yieldk"
       IN  BackTo(Append(Front(frames[Running]),
                         [Top EXCEPT !.vals = IF own THEN @ ELSE <<>>, !.st = "called"]),
                  TRUE, IF own THEN <<"c">> ELSE Top.vals)

Ended == <<Frame("base", -1, <<>>, "called")>>
ThreadEnds ==
    /\ chain # <<>> /\ Len(frames[Running]) = 1
    /\ IF Running = Main
       THEN chain' = <<>> /\ frames' = frames
       ELSE BackTo(Ended, TRUE, Top.vals)

\* The error v of the running thread.
Raise(v) ==
    LET fs == frames[Running]
        catching == {i \in DOMAIN fs : fs[i].fn \in {"pcall", "xpcall"} /\ fs[i].st = "called"}
        p == CHOOSE i \in catching : \A j \in catching : j <= i
    IN  CASE catching # {} ->
               /\ Same
               /\ Become(Running, Returned(SubSeq(fs, 1, p),
                      <<"false", IF fs[p].fn = "xpcall" THEN "h" ELSE v>>))
          [] catching = {} /\ Running # Main -> BackTo(Ended, FALSE, <<v>>)
          [] OTHER -> /\ chain' = <<>>
                      /\ Become(Main, <<Frame("base", -1, <<v>>, "called")>>)

Error ==
    \/ chain # <<>> /\ Top.st = "start" /\ ~GoodArguments /\ Raise("E")
    \/ Starts("error") /\ Raise(IF Top.vals = <<>> THEN "nil" ELSE Top.vals[1])
    \/ Yields /\ ~CanYield /\ Raise("E")
    \/ chain # <<>> /\ Top.st = "raise" /\ Raise(Top.vals[1])

Init ==
    /\ chain = <<Main>>
    /\ frames = [t \in Threads |->
          IF t = Main THEN Ended \o <<Frame("L", -1, <<>>, "called")>> ELSE <<>>]

Next == \/ LuaStep \/ LuaReturn \/ CCall \/ CReturn \/ Create \/ Resume
        \/ ResumeFails \/ Yield \/ ThreadEnds \/ Error

Spec == Init /\ [][Next]_avars
=============================================================================
