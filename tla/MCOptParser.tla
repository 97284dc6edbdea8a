----------------------------- MODULE MCOptParser -----------------------------
(* Tables and argument vectors for OptParser. *)
EXTENDS OptParser

\* Characters and words; "A" and "a" differ in case only.
MCSymbols == {"-", "/", "=", ",", " ", "A", "a", "b", "c", "exec", "help", "h", "j", "k", "m", "o",
              "p", "q", "r", "s", "v", "x"}
MCLower == [x \in MCSymbols |-> IF x = "A" THEN "a" ELSE x]
MCRank ==
    LET order == <<" ", ",", "-", "/", "=", "A", "a", "b", "c", "exec", "h", "help", "j", "k", "m",
                   "o", "p", "q", "r", "s", "v", "x">>
    IN  [x \in MCSymbols |-> CHOOSE k \in DOMAIN order : order[k] = x]

Dash   == <<<<"-">>>>
Double == <<<<"-", "-">>>>
Both   == <<<<"-">>, <<"-", "-">>>>
SlashDash == <<<<"/">>, <<"-">>>>

Option(prefixes, prefixed, kind) ==
    [prefixes |-> prefixes, prefixed |-> prefixed, kind |-> kind, alias |-> 0,
     aliasArgs |-> <<>>, visible |-> TRUE, param |-> 0, flags |-> {}]
Specials == <<Option(<<>>, <<"x">>, "input"), Option(<<>>, <<"x">>, "unknown")>>

\* The tables of the two programs.
ProxyTable == Specials \o <<Option(Dash, <<"-", "p">>, "separate"),
                            Option(Both, <<"-", "-", "exec">>, "separate")>>
MainTable  == Specials \o <<Option(Double, <<"-", "-", "help">>, "flag"),
                            [Option(Dash, <<"-", "h">>, "flag") EXCEPT !.alias = 3],
                            Option(Dash, <<"-", "s">>, "separate")>>

\* Short options that can be grouped, sorted for a binary search: "ab" comes
\* before "a".
GroupTable == Specials \o <<Option(Dash, <<"-", "a", "b">>, "flag"),
                            Option(Dash, <<"-", "a">>, "flag"),
                            [Option(Dash, <<"-", "b">>, "flag") EXCEPT !.alias = 6],
                            Option(Dash, <<"-", "j">>, "joined"),
                            Option(Dash, <<"-", "s">>, "separate")>>

\* The other classes, a hidden option, an alias with arguments, prefixes "/" and
\* "-", and flags for the style of an option.
ClassTable == Specials \o <<Option(Dash, <<"x">>, "group"),
                            [Option(Dash, <<"-", "a">>, "flag") EXCEPT !.alias = 5, !.aliasArgs = <<<<"v">>>>],
                            Option(SlashDash, <<"/", "c">>, "commaJoined"),
                            [Option(Dash, <<"-", "h">>, "flag") EXCEPT !.visible = FALSE],
                            [Option(Dash, <<"-", "j">>, "joinedOrSeparate")
                               EXCEPT !.flags = {"renderSeparate"}],
                            [Option(Dash, <<"-", "k">>, "joinedAndSeparate")
                               EXCEPT !.flags = {"renderSeparate"}],
                            [Option(Dash, <<"-", "m">>, "multiArg") EXCEPT !.param = 2],
                            Option(Dash, <<"-", "q">>, "remainingArgsJoined"),
                            Option(Dash, <<"-", "r">>, "remainingArgs")>>

Plainly(table) ==
    [table |-> table, grouped |-> FALSE, tablegen |-> FALSE, ignoreCase |-> FALSE,
     dashDash |-> FALSE, pack |-> FALSE]

MCParsers ==
    [proxy      |-> [Plainly(ProxyTable) EXCEPT !.dashDash = TRUE],
     main       |-> [Plainly(MainTable) EXCEPT !.dashDash = TRUE, !.pack = TRUE],
     group      |-> [Plainly(GroupTable) EXCEPT !.grouped = TRUE, !.dashDash = TRUE],
     groupGen   |-> [Plainly(GroupTable) EXCEPT !.grouped = TRUE, !.tablegen = TRUE],
     class      |-> [Plainly(ClassTable) EXCEPT !.ignoreCase = TRUE],
     classGen   |-> [Plainly(ClassTable) EXCEPT !.tablegen = TRUE],
     classGroup |-> [Plainly(ClassTable) EXCEPT !.grouped = TRUE]]

Calls(parser, texts, n) ==
    [parser: {parser}, argv: UNION {[1 .. m -> texts] : m \in 0 .. n}]

DD == <<"-", "-">>
GroupTexts == {<<"-", "a", "b", "a">>, <<"-", "a", "b">>, <<"-", "b", "x">>, <<"-", "b", "j", "v">>,
               <<"-", "x", "s">>, <<"-", "a", "=", "v">>, <<"-", "b", "-">>, <<"v">>, <<"-">>,
               <<"-", "s", "b">>, <<"-", "x", "a", "b">>, <<"-", "x", "-", "x">>}
ClassTexts == {<<"-", "A">>, <<"/", "c", "v", ",", ",", "v">>, <<"-", "h">>, <<"-", "j">>, <<"-", "k", "v">>,
               <<"-", "m">>, <<"-", "q", "v">>, <<"-", "r">>, <<"/", "v">>, <<"v", " ">>, <<>>}

\* The two programs' tables alone.
MCProgramInputs ==
    Calls("proxy", {<<"-", "p">>, <<"-", "-", "exec">>, DD, <<"v">>, <<"-", "x">>, <<>>}, 3)
    \union Calls("main", {<<"-", "s">>, <<"-", "h">>, <<"-", "-", "help">>, DD, <<"v">>, <<>>}, 3)

MCInputs ==
    MCProgramInputs
    \union Calls("group", GroupTexts, 2) \union Calls("groupGen", GroupTexts, 2)
    \union Calls("class", ClassTexts, 3) \union Calls("classGen", ClassTexts, 2)
    \union Calls("classGroup", {<<"/">>, <<"/", "x", "a">>, <<"-", "a", "h">>, <<"-", "-", "x">>}, 2)
==============================================================================
