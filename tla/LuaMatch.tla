------------------------------ MODULE LuaMatch ------------------------------
(***************************************************************************)
(* Pattern matching of the string library                                  *)
(* (src/libs/liblua/src/lstrlib.c): string.find, match, gmatch and gsub    *)
(* over the backtracking matcher.  Strings are sequences of character      *)
(* codes and pointers are positions from 1; behind the last character      *)
(* there is the terminator 0.  The matcher changes one MatchState in       *)
(* place and restores it when it backtracks, so that here each function    *)
(* takes the state and gives it back: [s |-> the end or NULL, ms].         *)
(* An error of the code leaves err in the state and unwinds everything.    *)
(***************************************************************************)
EXTENDS Integers, Sequences, TLC

CONSTANTS LUA_MAXCAPTURES, MAXCCALLS

NULL == 0
CAP_UNFINISHED == -1
CAP_POSITION == -2

L_ESC == 37   \* '%'
Open == 40    Close == 41    Caret == 94    Dollar == 36    Dot == 46
Star == 42    Plus == 43     Minus == 45    Quest == 63
LBracket == 91               RBracket == 93

SPECIALS == {Caret, Dollar, Star, Plus, Quest, Dot, Open, LBracket, L_ESC, Minus}

Char(str, k) == IF k = Len(str) + 1 THEN 0 ELSE str[k]
src_end(ms) == Len(ms.src) + 1
p_end(ms) == Len(ms.pat) + 1

Raise(ms, message) == [s |-> NULL, ms |-> [ms EXCEPT !.err = message]]
Gives(ms, s) == [s |-> s, ms |-> ms]
NoMatch(r) == r.s = NULL /\ r.ms.err = ""

\* What r gives, or what another attempt gives with the state r leaves.
Else(r, Again(_)) == IF NoMatch(r) THEN Again(r.ms) ELSE r

-----------------------------------------------------------------------------
(* Classes *)

isdigit(c) == c \in 48..57
isupper(c) == c \in 65..90
islower(c) == c \in 97..122
isgraph(c) == c \in 33..126
isalpha(c) == isupper(c) \/ islower(c)
isalnum(c) == isalpha(c) \/ isdigit(c)
isspace(c) == c \in 9..13 \/ c = 32
isxdigit(c) == isdigit(c) \/ c \in 65..70 \/ c \in 97..102
tolower(c) == IF isupper(c) THEN c + 32 ELSE c

match_class(c, cl) ==
    LET res == CASE tolower(cl) = 97 -> isalpha(c)
                 [] tolower(cl) = 99 -> c \in 0..31 \/ c = 127
                 [] tolower(cl) = 100 -> isdigit(c)
                 [] tolower(cl) = 103 -> isgraph(c)
                 [] tolower(cl) = 108 -> islower(c)
                 [] tolower(cl) = 112 -> isgraph(c) /\ ~isalnum(c)
                 [] tolower(cl) = 115 -> isspace(c)
                 [] tolower(cl) = 117 -> isupper(c)
                 [] tolower(cl) = 119 -> isalnum(c)
                 [] tolower(cl) = 120 -> isxdigit(c)
                 [] tolower(cl) = 122 -> c = 0
                 [] OTHER -> cl = c
        letters == {97, 99, 100, 103, 108, 112, 115, 117, 119, 120, 122}
    IN  IF tolower(cl) \notin letters \/ islower(cl) THEN res ELSE ~res

\* The position behind the class at p, or NULL with the message in err.
RECURSIVE SetEnd(_, _)
SetEnd(pat, p) ==     \* the loop that looks for the ']'
    IF p = Len(pat) + 1 THEN [s |-> NULL, err |-> "missing ]"]
    ELSE LET q == IF pat[p] = L_ESC /\ p < Len(pat) THEN p + 2 ELSE p + 1
         IN  IF Char(pat, q) = RBracket THEN [s |-> q + 1, err |-> ""] ELSE SetEnd(pat, q)

classend(pat, p) ==
    CASE pat[p] = L_ESC -> IF p = Len(pat) THEN [s |-> NULL, err |-> "ends with %"]
                           ELSE [s |-> p + 2, err |-> ""]
      [] pat[p] = LBracket ->
             SetEnd(pat, IF Char(pat, p + 1) = Caret THEN p + 2 ELSE p + 1)
      [] OTHER -> [s |-> p + 1, err |-> ""]

RECURSIVE InSet(_, _, _, _)
InSet(c, pat, p, ec) ==
    /\ p < ec
    /\ CASE pat[p] = L_ESC -> match_class(c, pat[p + 1]) \/ InSet(c, pat, p + 2, ec)
         [] pat[p] # L_ESC /\ pat[p + 1] = Minus /\ p + 2 < ec ->
                (pat[p] <= c /\ c <= pat[p + 2]) \/ InSet(c, pat, p + 3, ec)
         [] OTHER -> pat[p] = c \/ InSet(c, pat, p + 1, ec)

\* The set from the '[' at p to the ']' at ec.
matchbracketclass(c, pat, p, ec) ==
    IF pat[p + 1] = Caret THEN ~InSet(c, pat, p + 2, ec) ELSE InSet(c, pat, p + 1, ec)

singlematch(ms, s, p, ep) ==
    /\ s < src_end(ms)
    /\ CASE ms.pat[p] = Dot -> TRUE
         [] ms.pat[p] = L_ESC -> match_class(ms.src[s], ms.pat[p + 1])
         [] ms.pat[p] = LBracket -> matchbracketclass(ms.src[s], ms.pat, p, ep - 1)
         [] OTHER -> ms.pat[p] = ms.src[s]

-----------------------------------------------------------------------------
(* Captures *)

\* The capture that the digit l of the pattern names, or an error.
check_capture(ms, l) ==
    l - 48 >= 1 /\ l - 48 <= ms.level /\ ms.capture[l - 48].len # CAP_UNFINISHED

\* The innermost open capture, 0 when there is none.
capture_to_close(ms) ==
    LET open == {l \in 1..ms.level : ms.capture[l].len = CAP_UNFINISHED}
    IN  IF open = {} THEN 0 ELSE CHOOSE l \in open : \A k \in open : k <= l

Substring(str, from, len) == SubSeq(str, from, from + len - 1)

match_capture(ms, s, l) ==
    IF ~check_capture(ms, l) THEN Raise(ms, "invalid capture index")
    ELSE LET c == ms.capture[l - 48]
         IN  IF /\ c.len # CAP_POSITION     \* as a size it is larger than any string
                /\ src_end(ms) - s >= c.len
                /\ Substring(ms.src, c.init, c.len) = Substring(ms.src, s, c.len)
             THEN Gives(ms, s + c.len) ELSE Gives(ms, NULL)

RECURSIVE Balanced(_, _, _, _, _)
Balanced(ms, s, b, e, cont) ==      \* s is the next character
    CASE s >= src_end(ms) -> NULL
      [] s < src_end(ms) /\ ms.src[s] = e ->
             IF cont = 1 THEN s + 1 ELSE Balanced(ms, s + 1, b, e, cont - 1)
      [] OTHER -> Balanced(ms, s + 1, b, e, IF ms.src[s] = b THEN cont + 1 ELSE cont)

matchbalance(ms, s, p) ==
    IF p >= p_end(ms) - 1 THEN Raise(ms, "missing arguments to %b")
    ELSE IF Char(ms.src, s) # ms.pat[p] THEN Gives(ms, NULL)
    ELSE Gives(ms, Balanced(ms, s + 1, ms.pat[p], ms.pat[p + 1], 1))

-----------------------------------------------------------------------------
(* The matcher *)

RECURSIVE match(_, _, _)

\* Tries the rest of the pattern behind i repetitions, then behind fewer.
RECURSIVE Fewer(_, _, _, _)
Fewer(ms, s, i, next) ==
    Else(match(ms, s + i, next),
         LAMBDA left : IF i > 0 THEN Fewer(left, s, i - 1, next) ELSE Gives(left, NULL))

max_expand(ms, s, p, ep) ==
    LET i == CHOOSE n \in 0..(src_end(ms) - s) :
                 /\ \A k \in 0..(n - 1) : singlematch(ms, s + k, p, ep)
                 /\ ~singlematch(ms, s + n, p, ep)
    IN  Fewer(ms, s, i, ep + 1)

RECURSIVE min_expand(_, _, _, _)
min_expand(ms, s, p, ep) ==
    Else(match(ms, s, ep + 1),
         LAMBDA left : IF singlematch(left, s, p, ep) THEN min_expand(left, s + 1, p, ep)
                       ELSE Gives(left, NULL))

\* Fault: a failed match leaves the capture it opened.
start_capture_Kept(ms, s, p, what) ==
    IF ms.level >= LUA_MAXCAPTURES THEN Raise(ms, "too many captures")
    ELSE match([ms EXCEPT !.capture = Append(SubSeq(@, 1, ms.level), [init |-> s, len |-> what]),
                          !.level = @ + 1], s, p)

start_capture(ms, s, p, what) ==
    IF ms.level >= LUA_MAXCAPTURES THEN Raise(ms, "too many captures")
    ELSE Else(match([ms EXCEPT !.capture = Append(SubSeq(@, 1, ms.level), [init |-> s, len |-> what]),
                               !.level = @ + 1], s, p),
              LAMBDA left : Gives([left EXCEPT !.level = @ - 1], NULL))

end_capture(ms, s, p) ==
    LET Ended(l) ==
            IF l = 0 THEN Raise(ms, "invalid pattern capture")
            ELSE Else(match([ms EXCEPT !.capture[l].len = s - ms.capture[l].init], s, p),
                      LAMBDA left : Gives([left EXCEPT !.capture[l].len = CAP_UNFINISHED], NULL))
    IN  Ended(capture_to_close(ms))

\* One round from the label init: a class with an optional suffix, or one
\* of the items that begin with a special character.
RECURSIVE Round(_, _, _)
Default(ms, s, p) ==
    LET Item(ep, suffix) ==
            IF ~singlematch(ms, s, p, ep)
            THEN IF suffix \in {Star, Quest, Minus} THEN Round(ms, s, ep + 1) ELSE Gives(ms, NULL)
            ELSE CASE suffix = Quest ->
                          Else(match(ms, s + 1, ep + 1), LAMBDA left : Round(left, s, ep + 1))
                   [] suffix \in {Plus, Star} ->
                          max_expand(ms, IF suffix = Plus THEN s + 1 ELSE s, p, ep)
                   [] suffix = Minus -> min_expand(ms, s, p, ep)
                   [] OTHER -> Round(ms, s + 1, ep)
        Class(end) == IF end.err # "" THEN Raise(ms, end.err) ELSE Item(end.s, Char(ms.pat, end.s))
    IN  Class(classend(ms.pat, p))

\* "%f[set]": s begins a stretch of the set.
Frontier(ms, s, p) ==
    LET end == classend(ms.pat, p)
        previous == IF s = 1 THEN 0 ELSE ms.src[s - 1]
    IN  IF Char(ms.pat, p) # LBracket THEN Raise(ms, "missing [ after %f")
        ELSE IF end.err # "" THEN Raise(ms, end.err)
        ELSE IF /\ ~matchbracketclass(previous, ms.pat, p, end.s - 1)
                /\ matchbracketclass(Char(ms.src, s), ms.pat, p, end.s - 1)
        THEN Round(ms, s, end.s) ELSE Gives(ms, NULL)

Onwards(r, p) == IF r.s = NULL THEN r ELSE Round(r.ms, r.s, p)

Round(ms, s, p) ==
    IF p = p_end(ms) THEN Gives(ms, s)
    ELSE LET second == Char(ms.pat, p + 1)
         IN  CASE ms.pat[p] = Open ->
                      IF second = Close THEN start_capture(ms, s, p + 2, CAP_POSITION)
                      ELSE start_capture(ms, s, p + 1, CAP_UNFINISHED)
               [] ms.pat[p] = Close -> end_capture(ms, s, p + 1)
               [] ms.pat[p] = Dollar /\ p + 1 = p_end(ms) ->
                      Gives(ms, IF s = src_end(ms) THEN s ELSE NULL)
               [] ms.pat[p] = L_ESC /\ second = 98 -> Onwards(matchbalance(ms, s, p + 2), p + 4)
               [] ms.pat[p] = L_ESC /\ second = 102 -> Frontier(ms, s, p + 2)
               [] ms.pat[p] = L_ESC /\ isdigit(second) ->
                      Onwards(match_capture(ms, s, second), p + 2)
               [] OTHER -> Default(ms, s, p)

match(ms, s, p) ==
    IF ms.matchdepth = 0 THEN Raise(ms, "pattern too complex")
    ELSE LET Back(r) == IF r.ms.err # "" THEN r ELSE [r EXCEPT !.ms.matchdepth = @ + 1]
         IN  Back(Round([ms EXCEPT !.matchdepth = @ - 1], s, p))

-----------------------------------------------------------------------------
(* The functions of the library *)

prepstate(src, pat) ==
    [src |-> src, pat |-> pat, level |-> 0, capture |-> <<>>,
     matchdepth |-> MAXCCALLS, err |-> "", sound |-> TRUE]

\* lua_assert(ms->matchdepth == MAXCCALLS) is remembered in sound.
reprepstate(ms) == [ms EXCEPT !.level = 0, !.sound = @ /\ ms.matchdepth = MAXCCALLS]

\* A value that the matcher gives: a position, or a text.
Position(n) == [pos |-> n, text |-> <<>>]
Text(str) == [pos |-> 0, text |-> str]

push_onecapture(ms, i, s, e) ==
    CASE i > ms.level /\ i = 1 -> [err |-> "", v |-> Text(SubSeq(ms.src, s, e - 1))]
      [] i > ms.level /\ i # 1 -> [err |-> "invalid capture index", v |-> Text(<<>>)]
      [] i <= ms.level ->
             LET c == ms.capture[i]
             IN  CASE c.len = CAP_UNFINISHED -> [err |-> "unfinished capture", v |-> Text(<<>>)]
                   [] c.len = CAP_POSITION -> [err |-> "", v |-> Position(c.init)]
                   [] OTHER -> [err |-> "", v |-> Text(Substring(ms.src, c.init, c.len))]

push_captures(ms, s, e) ==
    LET nlevels == IF ms.level = 0 /\ s # NULL THEN 1 ELSE ms.level
        bad == {i \in 1..nlevels : push_onecapture(ms, i, s, e).err # ""}
    IN  [err |-> IF bad = {} THEN "" ELSE "unfinished capture",
         vals |-> [i \in 1..nlevels |-> push_onecapture(ms, i, s, e).v]]

\* A plain search from position s1, NULL when s2 is not there.
RECURSIVE memfind(_, _, _)
memfind(s1, from, s2) ==
    LET heads == {k \in from..(Len(s1) - Len(s2) + 1) : s1[k] = s2[1]}
        init == CHOOSE k \in heads : \A n \in heads : k <= n
    IN  IF heads = {} THEN NULL
        ELSE IF Substring(s1, init + 1, Len(s2) - 1) = Tail(s2) THEN init
        ELSE memfind(s1, init + 1, s2)
lmemfind(s1, from, s2) ==
    CASE s2 = <<>> -> from
      [] Len(s2) > Len(s1) - from + 1 -> NULL
      [] OTHER -> memfind(s1, from, s2)

nospecials(pat) == \A k \in DOMAIN pat : pat[k] \notin SPECIALS

posrelat(pos, len) == IF pos >= 0 THEN pos ELSE IF -pos > len THEN 0 ELSE len + pos + 1

Found(start, end, vals) == [err |-> "", start |-> start, end |-> end, vals |-> vals]
Nil == Found(0, 0, <<>>)

Anchored(pat) == pat # <<>> /\ pat[1] = Caret
Unanchored(pat) == IF Anchored(pat) THEN Tail(pat) ELSE pat

RECURSIVE FindFrom(_, _, _, _)
FindFrom(ms, s1, anchor, find) ==
    LET Answer(r, pushed) ==
            IF r.ms.err # "" THEN [Nil EXCEPT !.err = r.ms.err]
            ELSE IF r.s = NULL THEN Nil
            ELSE [Found(s1, r.s - 1, pushed.vals) EXCEPT !.err = pushed.err]
        Try(r) ==
            IF NoMatch(r) /\ s1 < src_end(ms) /\ ~anchor THEN FindFrom(r.ms, s1 + 1, anchor, find)
            ELSE Answer(r, push_captures(r.ms, IF find THEN NULL ELSE s1, r.s))
                   @@ [sound |-> r.ms.sound]
    IN  Try(match(reprepstate(ms), s1, 1))

str_find_aux(src, pat, at, find, plain) ==
    LET Plain(s2) == IF s2 = NULL THEN Nil ELSE Found(s2, s2 + Len(pat) - 1, <<>>)
        From(init) ==
            IF init > Len(src) + 1 THEN Nil @@ [sound |-> TRUE]
            ELSE IF find /\ (plain \/ nospecials(pat))
            THEN Plain(lmemfind(src, init, pat)) @@ [sound |-> TRUE]
            ELSE FindFrom(prepstate(src, Unanchored(pat)), init, Anchored(pat), find)
        rel == posrelat(at, Len(src))
    IN  From(IF rel < 1 THEN 1 ELSE rel)

\* One call of the iterator: the match it visits or the error, "end" when there
\* is no match any more, and the MatchState it leaves for the next call.
RECURSIVE gmatch_aux(_, _, _)
gmatch_aux(ms, src, lastmatch) ==
    LET Left(m, left) == m @@ [ms |-> left]
        Match(r, pushed) == [Found(src, r.s - 1, pushed.vals) EXCEPT !.err = pushed.err]
        Try(r) ==
            IF r.ms.err # "" THEN Left([Nil EXCEPT !.err = r.ms.err], r.ms)
            ELSE IF r.s # NULL /\ r.s # lastmatch
            THEN Left(Match(r, push_captures(r.ms, src, r.s)), r.ms)
            ELSE gmatch_aux(r.ms, src + 1, lastmatch)
    IN  IF src > src_end(ms) THEN Left([Nil EXCEPT !.err = "end"], ms)
        ELSE Try(match(reprepstate(ms), src, 1))

\* All its calls up to the one that ends, how it ended, and one call more: an
\* error that the caller caught has left src and lastmatch as they were, and
\* the depth of the matcher where it was raised.
RECURSIVE Visits(_, _, _, _)
Visits(ms, src, lastmatch, seen) ==
    LET Again(m) == IF m.start = 0 THEN gmatch_aux([m.ms EXCEPT !.err = ""], src, lastmatch)
                    ELSE gmatch_aux(m.ms, m.end + 1, m.end + 1)
        Visit(m) == IF m.err = "" THEN Visits(m.ms, m.end + 1, m.end + 1, Append(seen, m))
                    ELSE [err |-> m.err, seen |-> seen, again |-> Again(m)]
    IN  Visit(gmatch_aux(ms, src, lastmatch))
gmatch(src, pat) == Visits(prepstate(src, pat), 1, NULL, <<>>)

RECURSIVE Decimal(_)
Decimal(n) == IF n < 10 THEN <<48 + n>> ELSE Append(Decimal(n \div 10), 48 + (n % 10))
tolstring(v) == IF v.pos = 0 THEN v.text ELSE Decimal(v.pos)

RECURSIVE add_s(_, _, _, _, _)
add_s(ms, news, i, s, e) ==      \* from the i-th character of the replacement on
    LET Then(str, k) == [add_s(ms, news, k, s, e) EXCEPT !.out = str \o @]
        d == Char(news, i + 1)
        Captured(one) == IF one.err # "" THEN [err |-> one.err, out |-> <<>>]
                         ELSE Then(tolstring(one.v), i + 2)
    IN  CASE i > Len(news) -> [err |-> "", out |-> <<>>]
          [] i <= Len(news) /\ news[i] # L_ESC -> Then(<<news[i]>>, i + 1)
          [] i <= Len(news) /\ news[i] = L_ESC ->
                CASE d = L_ESC -> Then(<<L_ESC>>, i + 2)
                  [] d = 48 -> Then(SubSeq(ms.src, s, e - 1), i + 2)
                  [] d \in 49..57 -> Captured(push_onecapture(ms, d - 48, s, e))
                  [] OTHER -> [err |-> "invalid use of %", out |-> <<>>]

\* A replacement: a string, or a table or function, which answers the first
\* capture (all of them, for the function) with a text or with nil.
add_value(ms, repl, s, e) ==
    LET Answer(key, err) ==
            IF err # "" THEN [err |-> err, out |-> <<>>]
            ELSE [err |-> "", out |-> IF key.v \in repl.answers THEN repl.text
                                      ELSE SubSeq(ms.src, s, e - 1)]
        Ask(key) == Answer(key, IF repl.tr = "function" THEN push_captures(ms, s, e).err ELSE key.err)
    IN  IF repl.tr = "string" THEN add_s(ms, repl.text, 1, s, e)
        ELSE Ask(push_onecapture(ms, 1, s, e))

RECURSIVE Substitute(_, _, _, _, _, _, _)
Substitute(ms, repl, max_s, anchor, src, lastmatch, done) ==
    LET Ends(from, so_far) == [so_far EXCEPT !.out = @ \o SubSeq(ms.src, from, Len(ms.src))]
        GoOn(left, to, last, so_far) ==
            IF anchor THEN Ends(to, so_far)
            ELSE Substitute(left, repl, max_s, anchor, to, last, so_far)
        Replace(r, v) ==
            IF v.err # "" THEN [done EXCEPT !.err = v.err]
            ELSE GoOn(r.ms, r.s, r.s, [out |-> done.out \o v.out, n |-> done.n + 1, err |-> "",
                                       at |-> Append(done.at, <<src, r.s - 1>>)])
        Try(r) ==
            CASE r.ms.err # "" -> [done EXCEPT !.err = r.ms.err]
              [] r.ms.err = "" /\ r.s # NULL /\ r.s # lastmatch ->
                     Replace(r, add_value(r.ms, repl, src, r.s))
              [] OTHER -> IF src = src_end(ms) THEN Ends(src, done)
                          ELSE GoOn(r.ms, src + 1, lastmatch, [done EXCEPT !.out = Append(@, ms.src[src])])
    IN  IF done.n >= max_s THEN Ends(src, done) ELSE Try(match(reprepstate(ms), src, 1))
str_gsub(src, pat, repl, max_s) ==
    Substitute(prepstate(src, Unanchored(pat)), repl, max_s, Anchored(pat), 1, NULL,
               [err |-> "", out |-> <<>>, n |-> 0, at |-> <<>>])
=============================================================================
