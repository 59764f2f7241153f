--------------------------- MODULE MCCommandMenu ---------------------------
(***************************************************************************)
(* Configurations of two groups and the copies of the first for its alias: *)
(* with and without a category, a key that is also the name of a command,  *)
(* an alias that another group has as its name, and a group of no commands.*)
(***************************************************************************)
EXTENDS CommandMenu

Group(cat, name, aliases, cmds) ==
  [cat |-> cat, name |-> name, aliases |-> aliases, cmds |-> cmds]

Cmd(i, name) == [id |-> i, name |-> name]

First(cat, alias) ==
  LET cmds == <<Cmd(1, <<"c">>), Cmd(2, <<"y">>), Cmd(3, <<"y", "c">>)>>
      own == Group(cat, <<"x">>, IF alias THEN {<<"b">>} ELSE {}, cmds)
  IN  IF alias THEN <<own, Group(cat, <<"b">>, {}, cmds)>> ELSE <<own>>

Seconds == {Group(<<"x">>, <<"y">>, {}, <<Cmd(4, <<"c">>), Cmd(5, <<"d">>)>>),
            Group(<<>>, <<"y">>, {}, <<Cmd(4, <<"c">>)>>),
            Group(<<>>, <<"g">>, {}, <<Cmd(4, <<"c">>)>>),
            Group(<<"y">>, <<"z">>, {}, <<>>)}

(* The other group is called as the alias, and comes first.                *)
Hidden == <<Group(<<>>, <<"b">>, {}, <<Cmd(4, <<"c">>)>>),
            Group(<<"q">>, <<"x">>, {<<"b">>}, <<Cmd(1, <<"c">>), Cmd(2, <<"d">>)>>),
            Group(<<"q">>, <<"b">>, {}, <<Cmd(1, <<"c">>), Cmd(2, <<"d">>)>>)>>

MCConfigured ==
  {First(cat, alias) \o <<g>> :
     cat \in {<<>>, <<"q">>}, alias \in BOOLEAN, g \in Seconds} \cup {Hidden, <<>>}

MCArguments ==
  {<<>>, <<<<"a">>>>, <<<<"nothere">>>>, <<<<"groups">>>>, <<<<"x">>>>, <<<<"b">>>>,
   <<<<"x", "c">>>>, <<<<"x", "c", "annotation">>>>,
   <<<<"x">>, <<"y">>>>, <<<<"all">>, <<"x">>>>, <<<<"x">>, <<"x", "c">>>>,
   <<<<"x">>, <<"x">>>>, <<<<"x", "c">>, <<"x", "y">>>>}

MCHistory == {<<"ls", "-l">>, <<"nothere">>}
=============================================================================
