----------------------------- MODULE LuaPattern ----------------------------
(***************************************************************************)
(* What a pattern of the Lua string library matches, without a matcher: a  *)
(* pattern is a sequence of items, a match is a choice of how often each   *)
(* item is repeated, and the best match is the first in the order of the   *)
(* items' preferences (a greedy item prefers more, a lazy one fewer).      *)
(* LuaMatch is the code that has to find it in the text of the pattern;    *)
(* FindIs and GsubIs compare the two.                                      *)
(*                                                                         *)
(* An item is a record [k, text, is, rep, n]: k is its kind, text how the  *)
(* pattern spells it, is the set of characters of a class.                 *)
(***************************************************************************)
EXTENDS LuaMatch, FiniteSets, SequencesExt

One(text, is, rep) == [k |-> "one", text |-> text \o rep, is |-> is, rep |-> rep, n |-> 0]
Special(kind, text, n) == [k |-> kind, text |-> text, is |-> {}, rep |-> <<>>, n |-> n]

TextOf(items) == FlattenSeq([i \in DOMAIN items |-> items[i].text])

Unclosed == -1

\* How often an item may be repeated in a string of the length len.
Times(item, len) ==
    CASE item.k # "one" \/ item.rep = <<>> -> {1}
      [] item.rep = <<63>> -> 0..1          \* ?
      [] item.rep = <<43>> -> 1..len        \* +
      [] OTHER -> 0..len                    \* * and -

\* The prefix of s that is balanced in x and y, up to its last character.
BalanceEnds(src, s, x, y) ==
    LET Number(c, from, to) == Len(SelectSeq(SubSeq(src, from, to), LAMBDA z : z = c))
    IN  {e \in (s + 1)..Len(src) :
            /\ src[s] = x /\ src[e] = y
            /\ IF x = y THEN TRUE ELSE Number(x, s, e) = Number(y, s, e)}

\* The runs that go on from the run r with one more item: r holds where the
\* string goes on, the captures, and the repetitions chosen so far.
Extend(r, item, src) ==
    LET at == r.at
        To(e) == {[r EXCEPT !.at = e, !.times = Append(@, 1)]}
        Captured(caps) == {[r EXCEPT !.caps = caps, !.times = Append(@, 1)]}
        open == {l \in DOMAIN r.caps : r.caps[l].to = Unclosed}
    IN  CASE item.k = "one" ->
               {[r EXCEPT !.at = at + n, !.times = Append(@, n)] :
                   n \in {m \in Times(item, Len(src)) :
                             /\ at + m <= Len(src) + 1
                             /\ \A k \in at..(at + m - 1) : src[k] \in item.is}}
          [] item.k = "open" -> Captured(Append(r.caps, [from |-> at, to |-> Unclosed]))
          [] item.k = "here" -> Captured(Append(r.caps, [from |-> at, to |-> 0]))
          [] item.k = "close" ->
               LET l == CHOOSE x \in open : \A y \in open : y <= x
               IN  Captured([r.caps EXCEPT ![l].to = at])
          [] item.k = "back" ->
               LET c == r.caps[item.n]
                   e == at + c.to - c.from
               IN  IF c.to # 0 /\ e <= Len(src) + 1 /\ SubSeq(src, c.from, c.to - 1) = SubSeq(src, at, e - 1)
                   THEN To(e) ELSE {}
          [] item.k = "balance" ->
               LET ends == IF at > Len(src) THEN {} ELSE BalanceEnds(src, at, item.text[3], item.text[4])
               IN  IF ends = {} THEN {} ELSE To(1 + CHOOSE x \in ends : \A y \in ends : x <= y)
          [] item.k = "frontier" ->
               LET before == IF at = 1 THEN 0 ELSE src[at - 1]
                   behind == IF at > Len(src) THEN 0 ELSE src[at]
               IN  IF before \notin item.is /\ behind \in item.is THEN To(at) ELSE {}
          [] item.k = "end" -> IF at = Len(src) + 1 THEN To(at) ELSE {}

\* All the matches of the items at s.
Matches(items, src, s) ==
    FoldLeft(LAMBDA runs, item : UNION {Extend(r, item, src) : r \in runs},
             {[at |-> s, caps |-> <<>>, times |-> <<>>]}, items)

\* Fewer repetitions are better for "-" only.
Better(items, m, w) ==
    \E i \in DOMAIN items :
        /\ \A k \in 1..(i - 1) : m.times[k] = w.times[k]
        /\ IF items[i].rep = <<45>> THEN m.times[i] < w.times[i] ELSE m.times[i] > w.times[i]

Best(items, matches) == CHOOSE m \in matches : \A w \in matches \ {m} : Better(items, m, w)

\* A pattern whose captures close, and that refers to closed ones only.
WellFormed(items) ==
    LET Count(kinds, i) == Len(SelectSeq(SubSeq(items, 1, i), LAMBDA x : x.k \in kinds))
        \* the item that closes the capture opened by the item i
        Closes(i) == {c \in (i + 1)..Len(items) :
                         /\ items[c].k = "close"
                         /\ Count({"open"}, c) - Count({"open"}, i - 1)
                              = Count({"close"}, c) - Count({"close"}, i - 1)}
    IN  /\ \A i \in DOMAIN items : Count({"close"}, i) <= Count({"open"}, i)
        /\ Count({"close"}, Len(items)) = Count({"open"}, Len(items))
        /\ \A i \in DOMAIN items : items[i].k = "back" =>
               \E o \in 1..(i - 1) : /\ items[o].k \in {"open", "here"}
                                     /\ Count({"open", "here"}, o) = items[i].n
                                     /\ items[o].k = "open" => \E c \in Closes(o) : c < i
        /\ \A i \in DOMAIN items : items[i].k = "end" => i = Len(items)
        \* "()" spells a position capture
        /\ \A i \in 1..(Len(items) - 1) : items[i].k = "open" => items[i + 1].k # "close"
-----------------------------------------------------------------------------
Least(S) == CHOOSE x \in S : \A y \in S : x <= y

ValuesOf(m, src) ==
    [l \in DOMAIN m.caps |-> IF m.caps[l].to = 0 THEN Position(m.caps[l].from)
                             ELSE Text(SubSeq(src, m.caps[l].from, m.caps[l].to - 1))]

\* The limits of the code, and nothing else, make a match of a well-formed
\* pattern an error.
WithinLimits(items) ==
    /\ Len(SelectSeq(items, LAMBDA x : x.k \in {"open", "here"})) <= LUA_MAXCAPTURES
    /\ Len(items) < MAXCCALLS

Starts(items, src, from) == {s \in from..(Len(src) + 1) : Matches(items, src, s) # {}}

\* find and match give the first place from init on where the items match at
\* all, and there the match the items prefer, with its captures; a pattern of
\* letters is found where a plain search finds it.
FindIs(items, src, at, anchored) ==
    LET text == IF anchored THEN <<Caret>> \o TextOf(items) ELSE TextOf(items)
        rel == IF at < 0 THEN Len(src) + 1 + at ELSE at
        StartsFrom(init) == LET all == Starts(items, src, init)
                            IN  IF anchored THEN all \cap {init} ELSE all
        Answers(found, matched, s, to, vals) ==
            /\ <<found.start, found.end, found.vals>> = <<s, to - 1, vals>>
            /\ matched.vals = IF vals = <<>> THEN <<Text(SubSeq(src, s, to - 1))>> ELSE vals
        Agree(found, matched, starts) ==
            /\ found.sound /\ matched.sound
            /\ IF found.err # "" THEN ~WithinLimits(items) /\ matched.err # ""
               ELSE IF starts = {} THEN found.start = 0 /\ matched.start = 0
               ELSE \E s \in {Least(starts)} :
                        \E m \in {Best(items, Matches(items, src, s))} :
                            Answers(found, matched, s, m.at, ValuesOf(m, src))
            /\ ~anchored /\ (\A i \in DOMAIN items : items[i].rep = <<>> /\ items[i].is = {items[i].text[1]})
                 => str_find_aux(src, text, at, TRUE, TRUE).start = IF starts = {} THEN 0 ELSE Least(starts)
    IN  Agree(str_find_aux(src, text, at, TRUE, FALSE), str_find_aux(src, text, at, FALSE, FALSE),
              StartsFrom(IF rel < 1 THEN 1 ELSE rel))

StringR(text) == [tr |-> "string", text |-> text, answers |-> {}]

\* gmatch visits, and gsub replaces, the same matches: each is the preferred
\* one where it begins, they do not overlap, none is empty right behind
\* another, and none is missed; "%0" puts back what was there, and nothing
\* but the matches is replaced.  An iterator that ended goes on answering so,
\* and its matcher is as deep as at first; after an error it is not, and the
\* assertion of reprepstate fails when the caller goes on.
GsubIs(items, src) ==
    LET \* a table that has a value for the text "a" only
        table == [tr |-> "table", text |-> <<120>>, answers |-> {Text(<<97>>)}]
        Replaced(repl) == str_gsub(src, TextOf(items), repl, Len(src) + 1)
        Preferred(s) == Best(items, Matches(items, src, s)).at - 1
        Key(x) == IF x.vals = <<>> THEN Text(SubSeq(src, x.start, x.end)) ELSE x.vals[1]
        Visited(m, covered) ==
             /\ \A k \in DOMAIN m :
                   /\ k > 1 => m[k].start > m[k - 1].end /\ m[k].end # m[k - 1].end
                   /\ m[k].end = Preferred(m[k].start)
             /\ \A s \in Starts(items, src, 1) :
                    \/ s \in covered
                    \/ \E k \in DOMAIN m : s = m[k].start
                    \/ /\ Preferred(s) = s - 1
                       /\ \E k \in DOMAIN m : m[k].end + 1 = s
        PutBack(m, same) ==
             /\ same.err = "" /\ same.out = src /\ same.n = Len(m)
             /\ same.at = [k \in DOMAIN m |-> <<m[k].start, m[k].end>>]
        Removed(covered, gone) ==
             gone.out = FlattenSeq([s \in 1..Len(src) |-> IF s \in covered THEN <<>> ELSE <<src[s]>>])
        Looked(m, some) ==
             /\ some.n = Len(m)
             /\ (\A k \in DOMAIN m : Key(m[k]) # Text(<<97>>)) => some.out = src
        All(m, covered) ==
             /\ Visited(m, covered) /\ PutBack(m, Replaced(StringR(<<37, 48>>)))
             /\ Removed(covered, Replaced(StringR(<<>>))) /\ Looked(m, Replaced(table))
        Ended(all) == IF all.err # "end" THEN ~WithinLimits(items)
                      ELSE /\ all.again.err = "end" /\ all.again.ms.sound
                           /\ All(all.seen, UNION {all.seen[k].start..all.seen[k].end : k \in DOMAIN all.seen})
    IN  Ended(gmatch(src, TextOf(items)))
=============================================================================
