------------------------------ MODULE MCFileApi ------------------------------
EXTENDS FileApi, TLC

MCPaths == {<<"a">>, <<"a", "x">>, <<"ab">>, <<"ab", "x">>}
Scope(prefix, ops) == [prefix |-> prefix, ops |-> ops]
MCZones ==
    {{Scope(<<"a">>, {"read", "list", "search", "write", "delete"}), Scope(<<"ab">>, {"write"})},
     {Scope(<<"ab">>, {"search"})}}
MCQueries ==
    {{}, {"stat"}, {"grep", "limit"}, {"find"}, {"list"}, {"list", "limit"}, {"append"}, {"copy"},
     {"rename"}, {"mkdir", "mode"}, {"create"}, {"chmod", "create"}, {"copy", "create"}, {"recursive"}}
ApiSymmetry == Permutations(ApiClients)
=============================================================================
