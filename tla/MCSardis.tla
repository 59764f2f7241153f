------------------------------ MODULE MCSardis ------------------------------
EXTENDS Sardis, Sequences, TLC

(* As in SystemSetup.                                                      *)
Blank == <<"">>
File == [kind |-> "file"]
Dir == [kind |-> "dir"]
LinkTo(p) == [kind |-> "link", to |-> p]

P(s) == <<"/">> \o s

Link(path, name, target, update, sudo) ==
  [path |-> path, name |-> name, target |-> target, update |-> update, sudo |-> sudo]

Service(unit, user, enabled, begin) ==
  [unit |-> unit, user |-> user, system |-> ~user,
   enabled |-> enabled, disabled |-> ~enabled, start |-> begin]

Base ==
  [p \in {P(<<>>), P(<<"w">>), P(<<"t">>), P(<<"t", "b">>), P(<<"t", "b", "w">>)} |-> Dir]
    @@ (P(<<"t", "a">>) :> File)

(* What may be at the path of a link.                                      *)
MCMachines ==
  {Base} \cup {(P(<<"w", "l">>) :> n) @@ Base :
     n \in {File, Dir} \cup
            {LinkTo(p) : p \in {P(<<"t", "a">>), P(<<"t", "b">>), P(<<"t", "none">>),
                                P(<<"w", "l">>), <<"a">>}}}
    \cup {(P(<<"w", "l">>) :> LinkTo(P(<<"t", "b">>)))
             @@ (P(<<"t", "b", "x">>) :> File) @@ Base}

LinkOne ==
  {Link(path, name, target, update, sudo) :
     path \in {P(<<"w", "l">>), <<"l">>}, name \in {Blank, <<"x">>},
     target \in {P(<<"t", "a">>), P(<<"t", "none">>)},
     update \in BOOLEAN, sudo \in BOOLEAN}

LinkTwo ==
  {Link(<<"l">>, Blank, P(<<"t", "b">>), u, FALSE) : u \in BOOLEAN} \cup
  {Link(Blank, P(<<"w", "m">>), P(<<"w", "l">>), TRUE, FALSE),
   Link(P(<<"w", "l", "m">>), Blank, P(<<"t", "a">>), FALSE, FALSE),
   Link(<<"n">>, Blank, P(<<"t", "b">>), TRUE, TRUE)}

(* A path spelled in two ways, where /w/l leads to /t/b; a target through  *)
(* a link that is made again; a relative target.                           *)
LinksThroughLinks ==
  {<<Link(P(<<"w", "l", "m">>), Blank, P(<<"t", "a">>), u, FALSE),
     Link(P(<<"t", "b", "m">>), Blank, P(<<"t", "b", "w">>), v, FALSE)>> :
     u \in BOOLEAN, v \in BOOLEAN} \cup
  {<<Link(path, Blank, P(<<"t", "a">>), TRUE, sudo),
     Link(<<"n">>, Blank, target, v, sudo)>> :
     path \in {P(<<"w", "l">>), <<"l">>}, target \in {P(<<"w", "l", "w">>), <<"l">>},
     sudo \in BOOLEAN, v \in BOOLEAN}

Conf(ls, ss, rs, skip) ==
  [links |-> ls, services |-> ss, repos |-> rs, search |-> <<P(<<"w">>)>>,
   ignore |-> {}, ignoreTargets |-> {P(<<"u">>)}, skipMissing |-> skip, skipResolved |-> FALSE]

MCSettings ==
  {Conf(<<a, b>>, <<>>, <<>>, FALSE) : a \in LinkOne, b \in LinkTwo} \cup
  {Conf(ls, <<>>, <<>>, FALSE) : ls \in LinksThroughLinks} \cup
  {Conf(<<>>, <<Service("s", TRUE, TRUE, begin), Service("s", user, enabled, TRUE)>>,
        <<[exists |-> exists]>>, TRUE) :
     begin \in BOOLEAN, user \in BOOLEAN, enabled \in BOOLEAN, exists \in BOOLEAN}

-----------------------------------------------------------------------------
MCInstalled ==
  {i \in UNION {[s -> {"explicit", "deps"}] : s \in SUBSET Package} :
     "b" \in DOMAIN i => i["b"] = "explicit"}

MCBuilds ==
  {b \in [Package -> {"none", "empty", "clone", "remote"}] :
     b["n"] \in {"none", "clone"} /\ b["b"] \in {"none", "empty"}}

MCBeginnings == [installed : MCInstalled, build : MCBuilds]

Task(kind, names, dist) == [kind |-> kind, names |-> names, dist |-> dist]

MCRequests ==
  {Task(kind, <<"a", "b">>, {}) : kind \in {"export", "list"}} \cup
  {Task(kind, names, {}) : kind \in {"fetch", "build", "install"},
     names \in {<<"a">>, <<"a", "a">>, <<"a", "b">>}} \cup
  {Task("setup", <<"sync", "a", "b">>, dist) : dist \in {{}, {"n"}, {"n", "b"}}}

-----------------------------------------------------------------------------
Pkg(name, t) == [name |-> name, tests |-> t]

Mod(loads, packages) == [loads |-> loads, packages |-> packages]

Kinds == {"pass", "fail", "none", "broken"}

MCTrees ==
  {<<Mod(TRUE, <<Pkg("x", t), Pkg(name, u)>>), Mod(loads, <<Pkg("x", v)>>)>> :
     t \in Kinds, u \in Kinds, v \in {"pass", "fail"}, name \in {"x", "y"}, loads \in BOOLEAN}

MCOptionSets ==
  {o \in [recursive : BOOLEAN, compileOnly : BOOLEAN, coverage : BOOLEAN,
          skipLint : BOOLEAN, workers : {0, 2}, legal : BOOLEAN] :
     o.legal \/ (o.compileOnly /\ o.coverage /\ o.workers = 2)}
=============================================================================
