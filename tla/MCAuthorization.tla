--------------------------- MODULE MCAuthorization ---------------------------
(* One user, one account of hers, one group, two policies and two objects.    *)
EXTENDS Authorization

MCTokens == {"b", "src", "dst", "GetObject", "PutObject", "alice"}
MCKeys == {"rootkey", "userkey", "sakey"}
MCIds == {"adminid", "userid", "said"}

Is(items) == [kind |-> "is", items |-> items]
Not(items) == [kind |-> "not", items |-> items]
None == [kind |-> "none", items |-> {}]
Exactly(text) == [text |-> text, star |-> FALSE]
From(text) == [text |-> text, star |-> TRUE]

Rule(effect, principal, actions, resources, tests) ==
    [effect |-> effect, principal |-> principal, action |-> actions,
     resource |-> resources, tests |-> tests]

Everything == Is({From(<<"b">>)})
FromInside == [key |-> "SourceIp", negated |-> FALSE, values |-> {"inside"}]

AllowReads == {Rule("Allow", None, Is({Exactly(<<"GetObject">>)}), Everything, {})}
AllowWrites == {Rule("Allow", None, Not({Exactly(<<"GetObject">>)}),
                     Is({From(<<"b", "dst">>)}), {})}
DenyOutside == {Rule("Deny", None, Is({From(<<>>)}), Not({Exactly(<<"b", "dst">>)}), {FromInside})}
PublicReads == {Rule("Allow", Is({Everyone}), Is({Exactly(<<"GetObject">>)}), Everything, {})}
DenyUser == {Rule("Deny", Is({"userkey"}), Is({From(<<>>)}), Everything, {})}

User(active, attached) ==
    [key |-> "userkey", name |-> "alice", active |-> active, attached |-> attached]
SA(active, override, embedded) ==
    [key |-> "sakey", id |-> "said", name |-> Nobody, active |-> active,
     parent |-> "userid", override |-> override, embedded |-> embedded]

MCEntries ==
    {<<"root">>, <<"bucketPolicy">>, <<"bucketOwner">>, <<"user", "userid">>,
     <<"account", "sakey">>, <<"groups", "userid">>, <<"group", "g">>}
      \cup {<<"objectOwner", o>> : o \in {"src", "dst"}}
      \cup {<<"policy", p>> : p \in {"p1", "p2"}}

MCPossible == [x \in MCEntries |->
    CASE x = <<"root">>               -> {"rootkey"}
      [] x = <<"bucketPolicy">>       -> {{}, PublicReads, DenyUser}
      [] x = <<"bucketOwner">>        -> {Nobody, "userid"}
      [] x = <<"objectOwner", "src">> -> {Nobody}
      [] x = <<"objectOwner", "dst">> -> {"said"}
      [] x = <<"user", "userid">>     -> {Absent, User(TRUE, <<"p1", "p2">>), User(FALSE, <<"p2">>)}
      [] x = <<"account", "sakey">>   -> {Absent, SA(TRUE, FALSE, {}), SA(TRUE, TRUE, AllowWrites)}
      [] x = <<"groups", "userid">>   -> {<<>>, <<"g">>}
      [] x = <<"group", "g">>         -> {[active |-> TRUE, attached |-> <<"p1">>],
                                          [active |-> FALSE, attached |-> <<"p1">>]}
      [] x = <<"policy", "p1">>       -> {AllowReads, AllowWrites, DenyOutside}
      [] x = <<"policy", "p2">>       -> {{}, AllowWrites}]

MCStart == [x \in MCEntries |-> CHOOSE v \in MCPossible[x] : TRUE]

MCContexts == {[a \in {"SourceIp"} |-> "inside"]}
=============================================================================
