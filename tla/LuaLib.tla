------------------------------- MODULE LuaLib ------------------------------
(***************************************************************************)
(* The functions of the Lua libraries that hold an algorithm, and the      *)
(* tables they work on.  table.sort calls back into Lua and is a machine   *)
(* of its own (LuaSort), and so is a table with its traversals (LuaTable); *)
(* the others answer in one step.  A behaviour runs one of the machines,   *)
(* or asks one of the others one question.                                 *)
(***************************************************************************)
EXTENDS LuaSort

CONSTANTS LUA_MAXCAPTURES, MAXCCALLS,                                   \* LuaMatch
          SizeInt, SizeT, SizeInstruction, SizeInteger, SizeNumber,     \* LuaDump
          Escape, LUAI_MAXSHORTLEN,
          IntegerBits,                                                  \* LuaTab
          NB, SZINT, SizeofShort, SizeofInt, SizeofLong, SizeofSize,    \* LuaPack
          SizeofFloat, SizeofDouble, MAXINTSIZE, MAXALIGN,
          Texts, Patterns,       \* subjects, and patterns as items
          Functions,             \* prototypes to dump
          Formats,               \* formats of pack
          Arguments(_),          \* the lists of values for one of them
          IntegerKeys, Strings, Pointers, ArrayMax                        \* LuaTable

Str == INSTANCE LuaPattern
Chunk == INSTANCE LuaDump
Tab == INSTANCE LuaTab
Pack == INSTANCE LuaPack

VARIABLES question,
          table, it, seen, owed, last      \* of LuaTable

Hash == INSTANCE LuaTable WITH t <- table, Ints <- IntegerKeys

tvars == <<table, it, seen, owed, last>>
vars == <<svars, question, tvars>>

Asks(kind, content) == [kind |-> kind, content |-> content]

\* What a question begins with.
Topics == {Asks("subject", src) : src \in Texts}
            \cup {Asks("function", f) : f \in Functions}
            \cup {Asks("format", fmt) : fmt \in Formats}
            \cup {Asks("range", f) : f \in Tab!Ints}
            \cup {Asks("length", len) : len \in 0..Tab!LUA_MAXINTEGER}

Init == /\ \/ question = Asks("sort", <<>>) /\ SortInit
           \/ question \in Topics \cup {Asks("table", <<>>)} /\ sort(<<>>) /\ ordered
        /\ Hash!Init

Ask == /\ LET x == question.content
          IN  \/ /\ question.kind = "subject"
                 /\ \E pat \in Patterns : question' = Asks("pattern", <<x, pat>>)
              \/ /\ question.kind = "function"
                 /\ question' = Asks("chunk", x)
              \/ /\ question.kind = "format"
                 /\ \E args \in Arguments(x) : question' = Asks("pack", <<x, args>>)
              \/ /\ question.kind = "range"
                 /\ \E e, t \in Tab!Ints, same \in BOOLEAN :
                        question' = Asks("move", <<x, e, t, same>>)
              \/ /\ question.kind = "length"
                 /\ \E pos \in Tab!Ints : question' = Asks("insert", <<x, pos>>)
       /\ UNCHANGED <<svars, tvars>>

Sorts == SortNext /\ UNCHANGED <<question, tvars>>

Writes == question.kind = "table" /\ Hash!Next /\ UNCHANGED <<svars, question>>

Next == Ask \/ Sorts \/ Writes

Spec == Init /\ [][Next]_vars /\ WF_vars(Sorts)

\* find, match, gmatch and gsub: the match a pattern prefers, at its first
\* place, with its captures, and all of them without overlap (lstrlib.c, the
\* matcher that changes and restores one MatchState as it backtracks).
PatternsMatch ==
    question.kind = "pattern" =>
        LET src == question.content[1]
            pat == question.content[2]
        IN  /\ \A at \in {1, 2, -1} : Str!FindIs(pat, src, at, FALSE)
            /\ Str!FindIs(pat, src, 1, TRUE)
            /\ Str!GsubIs(pat, src)

\* A dumped function loads as it was; a part of a chunk, and a chunk of another
\* machine or version, do not load.  Nothing else is looked for: what is behind
\* the chunk is not read, and a chunk whose body was changed may load, or fail
\* an assertion, or write outside the upvalues (ldump.c, lundump.c, lzio.c).
ChunksLoadBack ==
    question.kind = "chunk" => /\ Chunk!LoadsBack(question.content)
                               /\ Chunk!RefusesDamage(question.content)

\* move copies what was there, whatever overlaps and up to the ends of the
\* integers; insert and remove are those of sequences; unpack and concat take
\* a range in order (ltablib.c).
ElementsMove ==
    LET x == question.content
        Numbered == [k \in Tab!Ints |-> k + 100]
        Others == [k \in Tab!Ints |-> k + 200]
        Room(t) == IF t < 0 THEN -t ELSE t
        Sequence(len) == [k \in Tab!Ints |-> IF k <= len THEN k + 100 ELSE Tab!Nil]
    IN  /\ question.kind = "move" =>
               /\ Tab!MoveIs(Numbered, Others, x[4], x[1], x[2], x[3])
               /\ x[4] => Tab!RangeIs([Numbered EXCEPT ![x[3]] = Tab!Nil], x[1], x[2], Room(x[3]), 50)
        /\ question.kind = "insert" => Tab!InsertRemoveIs(Sequence(x[1]), x[1], x[2], 300)

\* unpack gives back what pack was given, and pack takes exactly the values
\* that its options can represent (lstrlib.c).
PackedComesBack ==
    question.kind = "pack" => Pack!ComesBack(question.content[1], question.content[2])

\* Every key holds what was last written to it, through any moves of nodes,
\* rehashes and dead keys (luaH_newkey, luaH_resize, removeentry).
HoldsLastWritten == Hash!HoldsLastWritten

\* Chains end and hold their keys, and the length is a border (luaH_newkey,
\* luaH_getn).
TableSound == Hash!TableSound

\* A traversal (lua_next) never fails, comes to no key twice, and when it ends has come to
\* every key that was there all the time; fields may be cleared, and their keys
\* die, while it runs.
TraversalExact == [][Hash!Traverses]_tvars
=============================================================================
