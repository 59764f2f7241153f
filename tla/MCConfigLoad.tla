---------------------------- MODULE MCConfigLoad ----------------------------
(***************************************************************************)
(* A main file, plain or split, with two linked files, each of several     *)
(* kinds; five repositories, among them a disabled one, and one that two   *)
(* files may hold.                                                         *)
(***************************************************************************)
EXTENDS ConfigLoad

Repo(name, ts, mode) ==
  [name |-> name, tags |-> ts, fetch |-> mode \in {"fetch", "both"},
   sync |-> mode \in {"sync", "off", "both"}, disabled |-> mode = "off",
   remote |-> mode # "none", home |-> name \in {"r1", "r2"}, ready |-> FALSE]

Item(name) == [name |-> name, ok |-> TRUE]
Project(name, repo) == [name |-> name, repo |-> repo]

Places(repos, projects, links, hosts) ==
  [s \in Section |->
    CASE s = "repos" -> repos [] s = "projects" -> projects
      [] s = "links" -> links [] s = "hosts" -> hosts [] OTHER -> <<>>]

With(set, paths, sec, old, net) ==
  [Empty EXCEPT !.set = set, !.paths = paths, !.sec = sec, !.old = old, !.net = net]

Nowhere == Places(<<>>, <<>>, <<>>, <<>>)

Plain(c) == [kind |-> "plain", conf |-> c]
Split(global, here) == [kind |-> "split", global |-> global, here |-> here]

(* The base part: with and without Settings.                               *)
Bases(paths) ==
  {With(set, IF set THEN paths ELSE <<>>,
        Places(<<Repo("r1", {"a"}, m)>>, <<Project("p", "r1")>>, <<Item("l1")>>,
               IF set THEN <<Item("h1")>> ELSE <<>>),
        Places(<<Repo("r2", {"a", "b"}, "off")>>, <<>>, <<Item("l2")>>, <<Item("h2")>>),
        net) :
     set \in BOOLEAN, m \in {"fetch", "sync", "both"}, net \in {<<>>, <<Item("h3")>>}}

Heres ==
  {With(set, <<>>, Places(<<Repo("r3", {"b"}, "sync")>>, ps, <<>>, <<>>),
        Places(<<>>, <<>>, <<Item("l3")>>, <<Item("h4")>>), <<>>) :
     set \in BOOLEAN, ps \in {<<>>, <<Project("", "r3")>>}}

Mains ==
  UNION {{Plain(c), Split(<<c>>, <<>>)} : c \in Bases(<<"f", "g">>)} \cup
  {Split(<<c>>, <<h>>) : c \in Bases(<<"f", "g">>), h \in Heres} \cup
  {Split(<<>>, <<>>)} \cup {Split(<<>>, <<h>>) : h \in Heres}

Grouped ==
  {Plain([c EXCEPT !.groups = [g \in {"t", "u"} |->
            IF g = "t" THEN {"a", "r1"} ELSE {"t", "nothing"}]]) :
     c \in Bases(<<>>)}

Linked ==
  {Plain(With(FALSE, <<>>, Places(<<Repo(n, {"b"}, m)>>, <<>>, <<>>, <<>>),
              Places(<<>>, <<>>, <<[name |-> "l4", ok |-> ok]>>, <<>>), net)) :
     n \in {"r4", "a"}, m \in {"fetch", "none"}, ok \in BOOLEAN,
     net \in {<<>>, <<Item("h5")>>}} \cup
  {Plain(With(TRUE, <<>>, Nowhere, Nowhere, <<>>)), [kind |-> "unreadable"],
   Plain(With(FALSE, <<>>, Nowhere, Places(<<Repo("r1", {}, "sync")>>, <<>>, <<>>, <<>>), <<>>))}

Second ==
  {Plain(With(FALSE, <<>>, Places(<<Repo("r5", {"c"}, "off")>>, <<>>, <<>>, <<>>), Nowhere, <<>>)),
   [kind |-> "unreadable"],
   Split(<<With(FALSE, <<>>, Nowhere, Nowhere, <<>>)>>,
         <<With(TRUE, <<>>, Nowhere, Nowhere, <<>>)>>)}

Disk(main, f, g) == [n \in {"main", "f", "g"} |->
  CASE n = "main" -> main [] n = "f" -> f [] n = "g" -> g]

MCDisks ==
  {Disk(main, f, g) : main \in Mains, f \in Linked, g \in Second} \cup
  {Disk(main, [kind |-> "unreadable"], [kind |-> "unreadable"]) :
     main \in Grouped \cup {[kind |-> "unreadable"]}}

MCRequests ==
  {<<>>, <<"a">>, <<"r2", "a">>, <<"b", "r1", "a">>, <<"nothing">>, <<"c", "r4">>}
=============================================================================
