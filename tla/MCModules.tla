----------------------------- MODULE MCModules -----------------------------
EXTENDS Modules
MCWidth     == [type \in {"char", "int", "pointer"} |-> IF type = "char" THEN 1 ELSE 2]
MCSandboxes == <<[name |-> <<"s">>, path |-> <<"/", "s", "/">>, access |-> "RW"],
                 [name |-> <<"t">>, path |-> <<"/", "t">>, access |-> "RO"],
                 [name |-> <<"s">>, path |-> <<"/", "t">>, access |-> "RO"]>>
MCPaths     == {<<"s", ":", "/", "b", "/", ".", ".", "/", "a", "/">>, <<"t", ":", "/", "a">>,
                <<"s", ":", "/", ".", ".", "/", "t", "/", "a">>, <<"u", ":", "/", "a">>,
                <<".", ".", "/", "/", "s", "a">>, <<>>, <<"s", ":", "/">>, <<"s", ":", "/", ".", ".">>,
                <<"s", ":", "/", ".", ".", "/", "s", "a">>}
MCModes     == {"r", "w"}
MCCalls     == {"mem"} :> 4 @@ {"file"} :> 3 @@ {"mem", "file"} :> 2
MCCwd       == <<"/", "w">>
CONSTANTS x, y
Swapped     == Permutations({x, y})
=============================================================================
