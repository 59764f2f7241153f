--------------------------- MODULE CommandGroups ---------------------------
(***************************************************************************)
(* How the configured groups of commands become the groups that menus and  *)
(* the command line offer (subexec/group.go, subexec.go): each group is    *)
(* validated, a group is copied for each of its aliases, and groups with   *)
(* the same category and name are merged and sorted.                       *)
(*                                                                         *)
(* A copy of a Group shares the array of its commands with the original,   *)
(* and append writes into an array that has room.  So the arrays are       *)
(* modelled: a slice is a number of an array in heap and a length.         *)
(*                                                                         *)
(* A name is the sequence of its parts, which DotJoin concatenates.  A     *)
(* command's rank stands for its SortHint and Name, the order of           *)
(* commands.  Templates, environments, directories and flags are left out, *)
(* and so is the order of the groups, which is for display only.           *)
(* Definitions marked "Wrong" are bugs with which PROJECT.json shows that  *)
(* the properties can fail.                                                *)
(***************************************************************************)
EXTENDS Integers, Sequences, FiniteSets

CONSTANTS
  Configured,    \* the configurations: sequences of groups as they are read
  IncludeLocal,  \* Settings.IncludeLocalSHH
  Slack          \* no new array has more room than this behind its slice

ASSUME GroupsAssumption == IncludeLocal \in BOOLEAN /\ Slack \in Nat

VARIABLES
  phase,     \* the loop that is running
  at,        \* its index
  conf,      \* Configuration.Commands
  expanded,  \* withAliases
  index,     \* the first group of each category and name
  merged,    \* haveMerged
  heap,      \* the arrays
  given      \* the configuration as it was read (history)

vars == <<phase, at, conf, expanded, index, merged, heap, given>>

-----------------------------------------------------------------------------
(* Slices.                                                                 *)

Free == [id |-> 0, name |-> <<>>, rank |-> 0]

Slice == [arr : 1 .. Len(heap), len : Nat]

In(h, s) == SubSeq(h[s.arr], 1, s.len)

Overwrite(h, s, from, cmds) ==
  [h EXCEPT ![s.arr] =
     [k \in DOMAIN @ |-> IF k \in from + 1 .. from + Len(cmds)
                         THEN cmds[k - from] ELSE @[k]]]

(* Wrong: takes the room for granted.                                      *)
AppendedInPlace(h, s, cmds) ==
  {[heap  |-> Overwrite(h, s, s.len, cmds),
    slice |-> [s EXCEPT !.len = @ + Len(cmds)]]}

(* append(s, cmds...): in place if there is room, in a new array if not.   *)
Appended(h, s, cmds) ==
  LET n == s.len + Len(cmds)
  IN  IF n <= Len(h[s.arr])
      THEN {[heap  |-> Overwrite(h, s, s.len, cmds),
             slice |-> [s EXCEPT !.len = n]]}
      ELSE {[heap  |-> Append(h, In(h, s) \o cmds \o [k \in 1 .. room |-> Free]),
             slice |-> [arr |-> Len(h) + 1, len |-> n]] : room \in 0 .. Slack}

-----------------------------------------------------------------------------
(* Names.                                                                  *)

Key(g) == g.cat \o g.name

(* Group.Validate moves a name to the category, or a prefix to the name.   *)
Rotated(g) ==
  IF g.cat = <<>> /\ g.name # <<>> /\ g.prefix # <<>>
  THEN [g EXCEPT !.cat = g.name, !.name = g.prefix, !.prefix = <<>>]
  ELSE IF g.name = <<>> /\ g.prefix # <<>>
  THEN [g EXCEPT !.name = g.prefix, !.prefix = <<>>]
  ELSE g

Skipped(g) == g.here /\ ~IncludeLocal

-----------------------------------------------------------------------------
(* What is read has arrays without room, one for each group.               *)

Init ==
  /\ given \in Configured
  /\ heap = [i \in DOMAIN given |-> given[i].commands]
  /\ conf = [i \in DOMAIN given |->
              [cat |-> given[i].cat, name |-> given[i].name,
               prefix |-> given[i].prefix, aliases |-> given[i].aliases,
               menu |-> given[i].menu, here |-> given[i].here,
               hint |-> given[i].hint,
               cmds |-> [arr |-> i, len |-> Len(given[i].commands)]]]
  /\ phase = "validate" /\ at = 1
  /\ expanded = <<>> /\ index = <<>> /\ merged = FALSE

(* Group.Validate appends a command for each selection of its menu.        *)
AddSelection ==
  /\ phase = "validate" /\ at <= Len(conf)
  /\ conf[at].menu # <<>>
  /\ \E r \in Appended(heap, conf[at].cmds, <<Head(conf[at].menu)>>) :
       /\ heap' = r.heap
       /\ conf' = [conf EXCEPT ![at].cmds = r.slice, ![at].menu = Tail(@)]
  /\ UNCHANGED <<phase, at, expanded, index, merged, given>>

(* ... and names its commands.                                             *)
ValidateGroup ==
  /\ phase = "validate" /\ at <= Len(conf)
  /\ conf[at].menu = <<>>
  /\ LET g == Rotated(conf[at])
         cmds == In(heap, g.cmds)
         Prefixed(c) == [c EXCEPT !.name = g.prefix \o @]
     IN  /\ conf' = [conf EXCEPT ![at] = g]
         /\ heap' = Overwrite(heap, g.cmds, 0,
                              [k \in DOMAIN cmds |-> Prefixed(cmds[k])])
  /\ at' = at + 1
  /\ UNCHANGED <<phase, expanded, index, merged, given>>

StartExpand ==
  /\ phase = "validate" /\ at > Len(conf)
  /\ phase' = "expand" /\ at' = 1
  /\ UNCHANGED <<conf, expanded, index, merged, heap, given>>

Alias(g, a) == [g EXCEPT !.name = a, !.aliases = <<>>]

(* resolveAliasesAndMergeGroups: a copy of the group for each alias.       *)
ExpandAliases ==
  /\ phase = "expand" /\ at <= Len(conf)
  /\ LET g == conf[at]
     IN  expanded' =
           IF Skipped(g) THEN expanded
           ELSE expanded \o <<g>>
                  \o [k \in DOMAIN g.aliases |-> Alias(g, g.aliases[k])]
  /\ at' = at + 1
  /\ UNCHANGED <<phase, conf, index, merged, heap, given>>

StartMerge ==
  /\ phase = "expand" /\ at > Len(conf)
  /\ conf' = expanded /\ expanded' = <<>>
  /\ phase' = "merge" /\ at' = 1
  /\ UNCHANGED <<index, merged, heap, given>>

-----------------------------------------------------------------------------
(* Merging.                                                                *)

Magnitude(n) == IF n < 0 THEN -n ELSE n

Mergeable(g, r) ==
  /\ g.cat = r.cat
  /\ g.cat = <<>> => g.name = r.name

(* Wrong: appends to the other group's commands those commands again.      *)
MergeTwice(g, r) ==
  LET results == IF g.hint >= r.hint
                 THEN Appended(heap, g.cmds, In(heap, r.cmds))
                 ELSE Appended(heap, r.cmds, In(heap, r.cmds))
  IN  {[heap |-> a.heap, group |-> [g EXCEPT !.cmds = a.slice]] : a \in results}

(* doMerge: the commands of the group with the higher hint come first, and *)
(* the other's are appended to them.                                       *)
DoMerge(g, r) ==
  LET hint == IF Magnitude(g.hint) >= Magnitude(r.hint) THEN g.hint ELSE r.hint
      results == IF g.hint >= r.hint
                 THEN Appended(heap, g.cmds, In(heap, r.cmds))
                 ELSE Appended(heap, r.cmds, In(heap, g.cmds))
  IN  {[heap  |-> a.heap,
        group |-> [g EXCEPT !.aliases = <<>>, !.cmds = a.slice, !.hint = hint]]
       : a \in results}

FirstOfItsName ==
  /\ phase = "merge" /\ at <= Len(conf)
  /\ Key(conf[at]) \notin DOMAIN index
  /\ index' = [k \in DOMAIN index \cup {Key(conf[at])} |->
                IF k \in DOMAIN index THEN index[k] ELSE at]
  /\ at' = at + 1
  /\ UNCHANGED <<phase, conf, expanded, merged, heap, given>>

MergeGroup ==
  /\ phase = "merge" /\ at <= Len(conf)
  /\ Key(conf[at]) \in DOMAIN index
  /\ LET t == index[Key(conf[at])]
     IN  \/ /\ Mergeable(conf[t], conf[at])
            /\ \E r \in DoMerge(conf[t], conf[at]) :
                 /\ heap' = r.heap
                 /\ conf' = [conf EXCEPT ![t] = r.group]
         \/ /\ ~Mergeable(conf[t], conf[at])
            /\ UNCHANGED <<heap, conf>>
  /\ merged' = TRUE
  /\ at' = at + 1
  /\ UNCHANGED <<phase, expanded, index, given>>

(* Without a merge the groups stay as they are.                            *)
EndMerge ==
  /\ phase = "merge" /\ at > Len(conf)
  /\ phase' = IF merged THEN "sort" ELSE "done"
  /\ at' = 1
  /\ UNCHANGED <<conf, expanded, index, merged, heap, given>>

-----------------------------------------------------------------------------
(* Sorting, in place, and only of the groups that are kept.                *)

Firsts == {index[k] : k \in DOMAIN index}

(* Wrong: compares the other way round.                                    *)
ReversedCommands(cmds) ==
  LET Before(j, k) ==
        cmds[j].rank > cmds[k].rank \/ (cmds[j].rank = cmds[k].rank /\ j <= k)
      Position(k) == Cardinality({j \in DOMAIN cmds : Before(j, k)})
  IN  [p \in DOMAIN cmds |-> cmds[CHOOSE k \in DOMAIN cmds : Position(k) = p]]

(* slices.SortStableFunc                                                   *)
SortedCommands(cmds) ==
  LET Before(j, k) ==
        cmds[j].rank < cmds[k].rank \/ (cmds[j].rank = cmds[k].rank /\ j <= k)
      Position(k) == Cardinality({j \in DOMAIN cmds : Before(j, k)})
  IN  [p \in DOMAIN cmds |-> cmds[CHOOSE k \in DOMAIN cmds : Position(k) = p]]

SortGroup ==
  /\ phase = "sort" /\ at <= Len(conf)
  /\ LET s == conf[at].cmds
     IN  heap' = IF at \in Firsts
                 THEN Overwrite(heap, s, 0, SortedCommands(In(heap, s)))
                 ELSE heap
  /\ at' = at + 1
  /\ UNCHANGED <<phase, conf, expanded, index, merged, given>>

(* Wrong: keeps the groups that were merged into others.                   *)
FinishWithAll ==
  /\ phase = "sort" /\ at > Len(conf)
  /\ phase' = "done"
  /\ UNCHANGED <<at, conf, expanded, index, merged, heap, given>>

Finish ==
  /\ phase = "sort" /\ at > Len(conf)
  /\ LET Kept(i) == Cardinality({j \in Firsts : j <= i})
     IN  conf' = [p \in 1 .. Cardinality(Firsts) |->
                   conf[CHOOSE i \in Firsts : Kept(i) = p]]
  /\ phase' = "done"
  /\ UNCHANGED <<at, expanded, index, merged, heap, given>>

Next ==
  \/ AddSelection \/ ValidateGroup
  \/ StartExpand \/ ExpandAliases
  \/ StartMerge \/ FirstOfItsName \/ MergeGroup \/ EndMerge
  \/ SortGroup \/ Finish

Spec == Init /\ [][Next]_vars

-----------------------------------------------------------------------------
(* Slices stay within their arrays.                                        *)
TypeOK ==
  /\ phase \in {"validate", "expand", "merge", "sort", "done"}
  /\ at \in Nat /\ merged \in BOOLEAN
  /\ \A i \in DOMAIN conf :
       /\ conf[i].cmds \in Slice
       /\ conf[i].cmds.len <= Len(heap[conf[i].cmds.arr])
       /\ \A k \in 1 .. conf[i].cmds.len : In(heap, conf[i].cmds)[k] # Free
  /\ \A k \in DOMAIN index : index[k] \in DOMAIN conf \/ phase = "done"

(* No two groups that are offered have the same category and name.         *)
NamesAreUnique ==
  phase = "done" =>
    \A i, j \in DOMAIN conf : Key(conf[i]) = Key(conf[j]) => i = j

(* What was configured for the name k: by groups of that name, and by      *)
(* groups that have it as an alias.                                        *)
Keys(i) ==
  LET g == Rotated(given[i])
  IN  IF Skipped(g) THEN {}
      ELSE {Key(g)} \cup {g.cat \o g.aliases[a] : a \in DOMAIN g.aliases}

For(k) == {i \in DOMAIN given : k \in Keys(i)}

Ids(cmds) == {cmds[j].id : j \in DOMAIN cmds}

ConfiguredFor(k) ==
  UNION {Ids(given[i].commands \o given[i].menu) : i \in For(k)}

(* Groups of one name in two categories, whose dotted names are the same.  *)
Ambiguous(k) ==
  \E i, j \in For(k) : Rotated(given[i]).cat # Rotated(given[j]).cat

(* A group whose copies share an array that has room.                      *)
Exposed(k) == \E i \in For(k) : given[i].aliases # <<>> /\ given[i].menu # <<>>

(* Under every name there are the commands that were configured for it,    *)
(* none lost and none of others, although copies of a group share arrays   *)
(* that are appended to and sorted in place; except for names of a group   *)
(* that has both aliases and a menu, and those that two categories share.  *)
ExactlyConfigured ==
  phase = "done" =>
    \A k \in UNION {Keys(i) : i \in DOMAIN given} :
      Ambiguous(k) \/ Exposed(k) \/
        ConfiguredFor(k) =
          UNION {Ids(In(heap, conf[p].cmds)) :
                   p \in {p \in DOMAIN conf : Key(conf[p]) = k}}

(* When anything was merged the commands of every group are in order, also *)
(* where two groups share an array and differ in length.                   *)
CommandsInOrder ==
  phase = "done" /\ merged =>
    \A p \in DOMAIN conf :
      LET cmds == In(heap, conf[p].cmds)
      IN  \A j, k \in DOMAIN cmds : j < k => cmds[j].rank <= cmds[k].rank

=============================================================================
