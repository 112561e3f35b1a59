-------------------------------- MODULE MCLines --------------------------------
(* Small instances of the two readers of lines, Cfg and TurnParse, for TLC. *)
(* They share nothing: a behaviour is one of either.                        *)
EXTENDS Cfg, TurnParse

VARIABLE reader

\* Up to three lines that no check refuses, or two of them and one that is refused.
MCFiles ==
    LET good == {Skipped, SectionLine("s", TRUE, ""), SectionLine("t", TRUE, "note"),
                 EntryLine("a", "1"), EntryLine("a", "yes"), EntryLine("a", "-1"),
                 EntryLine("b", "2^63"), EntryLine("b", "x")}
        bad == {[Skipped EXCEPT !.long = TRUE], NoEq, SectionLine("s", FALSE, ""),
                SectionLine("t", TRUE, "text"), SectionLine("", TRUE, ""),
                SectionLine("long", TRUE, ""), EntryLine("", "1"),
                EntryLine("long", "1"), EntryLine("a", "long")}
    IN  UNION {[1 .. n -> good] : n \in 0 .. 3} \cup
        {Append(f, l) : f \in UNION {[1 .. n -> good] : n \in 0 .. 2}, l \in bad}

\* Two members of the enum have one text.
MCBinds ==
    LET plain(section, key, typ, to, req) == Bind(section, key, typ, to, req, << >>)
        members == <<[text |-> "x", val |-> "first"], [text |-> "x", val |-> "second"],
                     [text |-> "y", val |-> "third"]>>
    IN  {<<plain("", "a", "bool", "bool", FALSE), plain("s", "a", "int", "int", TRUE),
           plain("", "b", "uint", "uint", FALSE), Bind("s", "b", "enum", "enum", FALSE, members)>>,
         <<plain("", "a", "str", "str", TRUE), plain("", "a", "num", "num", FALSE),
           plain("s", "a", "bool", "nil", FALSE), plain("t", "a", "int", "uint", FALSE),
           plain("t", "b", "other", "str", FALSE)>>,
         <<plain("", "a", "str", "str", FALSE), plain("", "a", "str", "str", TRUE)>>}

\* Of the texts of the files, those that are a number of each type.
MCNumbers ==
    [int |-> {"1", "-1"}, uint |-> {"1", "2^63"}, num |-> {"1", "-1", "2^63"}]

MCRests ==
    {Blank, Header, Content, RoleRest("nobody"), <<"text">>, <<"longline">>, <<"k", "v">>,
     <<"k", "">>, <<"", "v">>, <<"long", "v">>, <<"k", "long">>} \cup {RoleRest(r) : r \in Roles}
MCLongLines == {<<"longline">>}
MCTalks ==
    LET texts == {<<Line(0, FALSE, <<"text">>)>>, <<Empty>>} \cup
                 {<<Line(0, FALSE, RoleRest("user")), Empty>>,
                  <<Line(1, TRUE, <<"k", "v">>), Empty, Line(2, FALSE, <<"text">>)>>,
                  <<Line(1, FALSE, Blank), Line(0, TRUE, Header)>>}
        one == {[role |-> r, text |-> t] : r \in {"user", "assistant"}, t \in texts}
    IN  [params : {<< >>, <<<<"k", "v">>, <<"k", "">>>>},
         msgs : UNION {[1 .. n -> one] : n \in 1 .. 2}]

\* Any few lines; and what is written, with one line in it changed.
AnyLines ==
    LET lines == {Empty, Line(1, FALSE, Blank), Line(0, TRUE, Blank),
                  Line(0, FALSE, Header), Line(0, FALSE, Content),
                  Line(0, FALSE, RoleRest("user")), Line(0, FALSE, RoleRest("nobody")),
                  Line(0, FALSE, <<"text">>), Line(0, FALSE, <<"", "v">>),
                  Line(0, FALSE, <<"long", "v">>), Line(0, FALSE, <<"k", "long">>),
                  Line(0, FALSE, <<"longline">>)}
    IN  UNION {[1 .. n -> lines] : n \in 0 .. 3}
Changed ==
    LET t == CHOOSE x \in MCTalks :
                 /\ Len(x.params) = 2 /\ Len(x.msgs) = 2
                 /\ Len(x.msgs[1].text) = 3 /\ Len(x.msgs[2].text) = 2
        w == Written(0, t)
    IN  {[w EXCEPT ![k] = l] : k \in DOMAIN w,
             l \in [ind : 0 .. 4, tab : BOOLEAN,
                    rest : {Blank, <<"text">>, <<"longline">>, RoleRest("user")}]}

MCPayloads == {Written(i, t) : i \in {0, 1}, t \in MCTalks} \cup AnyLines \cup Changed

MCInit ==
    \/ /\ reader = "cfg" /\ input = << >>
       /\ CfgInit /\ ParseInit
    \/ /\ reader = "turn" /\ file = << >> /\ binds = CHOOSE b \in MCBinds : TRUE
       /\ CfgInit /\ ParseInit

MCNext ==
    \/ reader = "cfg" /\ CfgNext /\ UNCHANGED <<reader, parseVars>>
    \/ reader = "turn" /\ ParseNext /\ UNCHANGED <<reader, cfgVars>>

\* A reader that has returned stays as it is; one that has not goes on.
Done ==
    /\ IF reader = "cfg" THEN phase = "done" ELSE result # "reading"
    /\ UNCHANGED <<reader, cfgVars, parseVars>>

MCSpec == MCInit /\ [][MCNext \/ Done]_<<reader, cfgVars, parseVars>>
=============================================================================
