-------------------------- MODULE MCCommandGroups --------------------------
(***************************************************************************)
(* Configurations of three groups, of which the first two or all three may *)
(* have the same name, as their own, by rotation, as an alias, or only     *)
(* when it is written with dots.                                           *)
(***************************************************************************)
EXTENDS CommandGroups

Named(cat, name, prefix) == [cat |-> cat, name |-> name, prefix |-> prefix]

Titles ==
  {Named(<<>>, <<"y">>, <<>>), Named(<<>>, <<"z">>, <<>>),
   Named(<<>>, <<"x">>, <<"y">>), Named(<<"x">>, <<"y">>, <<>>),
   Named(<<>>, <<"x", "y">>, <<>>), Named(<<>>, <<>>, <<"z">>)}

Cmd(n) == [id |-> n, name |-> <<"c">>, rank |-> (2 * n) % 5]

(* The i-th group, with a command or two and perhaps a menu.               *)
Group(i, title, alias, size, menu, hint, here) ==
  [cat |-> title.cat, name |-> title.name, prefix |-> title.prefix,
   aliases |-> IF alias THEN <<<<"z">>>> ELSE <<>>,
   commands |-> [j \in 1 .. size |-> Cmd(3 * i - 3 + j)],
   menu |-> IF menu THEN <<Cmd(3 * i)>> ELSE <<>>,
   hint |-> hint, here |-> here]

MCConfigured ==
  {<<Group(1, t1, a1, 2, m1, 0, FALSE),
     Group(2, t2, a2, 1, m2, h2, e2),
     Group(3, t3, FALSE, 1, FALSE, h3, FALSE)>> :
       t1 \in Titles, a1 \in BOOLEAN, m1 \in BOOLEAN,
       t2 \in Titles, a2 \in BOOLEAN, m2 \in BOOLEAN, h2 \in {-1, 1},
       e2 \in BOOLEAN,
       t3 \in Titles, h3 \in {-2, 0, 1}}

=============================================================================
