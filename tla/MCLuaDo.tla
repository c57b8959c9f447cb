------------------------------ MODULE MCLuaDo -------------------------------
EXTENDS LuaDo

MCWrapOf == [w1 |-> "co1", w2 |-> "co2"]
MCLocals == <<"d1", "d2", "d3", "d4", "d5", "d6">>
MCProtected == {<<"L">>, <<"pcall", "error">>, <<"call", "error">>, <<"call", "yield">>}
MCMaxFrames == [main |-> 3, co1 |-> 5, co2 |-> 3]
MCMayCall == [main |-> {"create", "resume", "w1"},
              co1  |-> {"pcall", "xpcall", "call", "dofile", "yieldk", "error", "w2", "yield"},
              co2  |-> {"L", "resume", "yield", "error"}]
=============================================================================
