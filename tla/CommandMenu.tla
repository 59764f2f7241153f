---------------------------- MODULE CommandMenu ----------------------------
(***************************************************************************)
(* The commands of an operator: how the arguments of run, cmd, dmenu,      *)
(* fuzzy, their search forms and list become a menu, a further menu or     *)
(* commands to run (operations/menu.go over subexec/list.go, index.go and  *)
(* group.go).  A session is one process: it resolves its arguments, offers *)
(* entries, resolves what the user picks, and ends.                        *)
(*                                                                         *)
(* The groups are as Configuration.Validate leaves them (CommandGroups): a *)
(* copy of a group for each alias, and the keys all different.  A name is  *)
(* the sequence of its words, so DotJoin is concatenation and DotSplit the *)
(* identity.  Commands run as a batch that succeeds or fails.  Definitions *)
(* marked "Wrong" are bugs with which PROJECT.json shows that the          *)
(* properties can fail.                                                    *)
(***************************************************************************)
EXTENDS Naturals, Sequences, FiniteSets, FiniteSetsExt, SequencesExt

CONSTANTS
  Configured,   \* the validated configurations: sequences of groups
  Arguments,    \* the arguments of sessions: sequences of names
  MaxPicks,     \* no more entries than this are picked at once
  Programs,     \* the programs in $PATH
  History       \* the lines of the shell history that pass the filters

VARIABLES
  conf,      \* Configuration.Commands
  via,       \* the operation
  op,        \* the arguments that are resolved next
  phase,     \* what the session does
  group,     \* the key of the group whose menu is open, if it is one's
  offered,   \* the entries of the open menu
  picked,    \* the entries picked last
  ran,       \* the commands run last
  outcome    \* how the session ended

vars == <<conf, via, op, phase, group, offered, picked, ran, outcome>>

-----------------------------------------------------------------------------
(* What is exported.                                                       *)

Key(g) == g.cat \o g.name

(* doExportAllCommands: commands by their full names, in order.            *)
AllCommands ==
  FlattenSeq([i \in DOMAIN conf |->
    [j \in DOMAIN conf[i].cmds |->
      [name |-> Key(conf[i]) \o conf[i].cmds[j].name,
       id   |-> conf[i].cmds[j].id]]])

Named(n) == {i \in DOMAIN AllCommands : AllCommands[i].name = n}

Ids(is) == {AllCommands[i].id : i \in is}

(* doExportCommandGroups: by name and by alias, and the last one wins.     *)
Owners(k) == {i \in DOMAIN conf : k = Key(conf[i]) \/ k \in conf[i].aliases}

GroupKeys == UNION {{Key(conf[i])} \cup conf[i].aliases : i \in DOMAIN conf}

GroupAt(k) == conf[Max(Owners(k))]

-----------------------------------------------------------------------------
(* ResolveCommands.  An entry has the name that picking it resolves, and   *)
(* the commands it stands for, none if it stands for a group.              *)

AllWords == {<<"all">>, <<"a">>}
GroupWords == {<<"groups">>, <<"group">>, <<"g">>}

CommandEntries == {[name |-> c.name, ids |-> Ids(Named(c.name))] : c \in Range(AllCommands)}

GroupEntries(ks) == {[name |-> k, ids |-> {}] : k \in ks}

(* Wrong: offers the names without the group's.                            *)
BareEntries(k) ==
  {[name |-> c.name, ids |-> {c.id}] : c \in Range(GroupAt(k).cmds)}

EntriesOf(k) ==
  LET cmds == Range(GroupAt(k).cmds)
  IN  {[name |-> k \o c.name,
        ids  |-> {d.id : d \in {d \in cmds : d.name = c.name}}] : c \in cmds}

(* FilterCommands: the first command of each name, or an error.            *)
Matches(names) == {i \in DOMAIN AllCommands :
  /\ AllCommands[i].name \in Range(names)
  /\ \A j \in Named(AllCommands[i].name) : i <= j}

Filterable(names) ==
  /\ names # <<>>
  /\ IsInjective(names)
  /\ \A n \in Range(names) : Named(n) # {}

Menu(k, entries) == [kind |-> "menu", key |-> k, entries |-> entries, run |-> {}]
Commands(is) == [kind |-> "run", key |-> <<>>, entries |-> {}, run |-> is]
Refused == [kind |-> "error", key |-> <<>>, entries |-> {}, run |-> {}]

Filtered(names) ==
  IF Filterable(names) THEN Commands(Matches(names)) ELSE Refused

ResolveOne(n) ==
  IF n \in AllWords THEN Menu(<<>>, CommandEntries)
  ELSE IF n \in GroupWords THEN Menu(<<>>, GroupEntries(GroupKeys))
  ELSE IF n \in GroupKeys THEN Menu(n, EntriesOf(n))
  ELSE Filtered(<<n>>)

ResolveMany(names) ==
  LET groups == Range(names) \cap GroupKeys
  IN  IF names[1] \in AllWords \cup GroupWords THEN Refused
      ELSE IF groups = {} THEN Filtered(names)
      ELSE IF groups # Range(names) \/ ~IsInjective(names) THEN Refused
      ELSE Menu(<<>>, GroupEntries(groups))

ResolveCommands(names) ==
  CASE Len(names) = 0 -> Menu(<<>>, CommandEntries)
    [] Len(names) = 1 -> ResolveOne(names[1])
    [] OTHER          -> ResolveMany(names)

-----------------------------------------------------------------------------
(* The tree of names.  A node is its path.                                 *)

Paths == UNION {{SubSeq(c.name, 1, n) : n \in 0 .. Len(c.name)} :
                  c \in Range(AllCommands)}

Children(p) == {q \in Paths : Len(q) = Len(p) + 1 /\ Front(q) = p}

(* Wrong: every part of a name gets the command.                           *)
CommandBelow(p) ==
  LET is == {i \in DOMAIN AllCommands : IsPrefix(p, AllCommands[i].name)}
  IN  IF p = <<>> \/ is = {} THEN {} ELSE {Max(is)}

(* Node.add: the last command of a name replaces the others.               *)
NodeCommand(p) == IF Named(p) = {} THEN {} ELSE {Max(Named(p))}

NodeEntries(ps) == {[name |-> p, ids |-> Ids(Named(p))] : p \in ps}

(* Node.Extend: one node for each word.                                    *)
OnePerWord(ps) ==
  {s \in SUBSET ps :
     /\ \A p, q \in s : Last(p) = Last(q) => p = q
     /\ {Last(p) : p \in s} = {Last(p) : p \in ps}}

-----------------------------------------------------------------------------
Operations == {"run", "cmd", "dmenu", "fuzzy", "search", "dmenu search",
               "fuzzy search", "list", "info", "plain", "exec"}

Init ==
  /\ conf \in Configured
  /\ via \in Operations
  /\ op \in Arguments
  /\ phase = "resolve"
  /\ group = <<>> /\ offered = {} /\ picked = {} /\ ran = {} /\ outcome = "none"

End(how) ==
  /\ phase' = "ended" /\ outcome' = how
  /\ UNCHANGED <<conf, via, op>>

Fail == End("error") /\ UNCHANGED <<group, offered, picked, ran>>

(* RunCommands, after which the session is over.                           *)
RunAndEnd(is) ==
  /\ \E how \in {"done", "error"} : End(how)
  /\ ran' = Ids(is)
  /\ UNCHANGED <<group, offered, picked>>

(* A listing: what is printed is left in offered.                          *)
Show(entries) ==
  /\ End("listed")
  /\ offered' = entries
  /\ UNCHANGED <<group, picked, ran>>

Offer(key, entries) ==
  /\ phase' = "menu"
  /\ group' = key /\ offered' = entries
  /\ UNCHANGED <<conf, via, op, picked, ran, outcome>>

(* RunCommand: arguments are names, never groups.                          *)
Run ==
  /\ phase = "resolve" /\ via = "run"
  /\ LET r == Filtered(op)
     IN  \/ r.kind = "run" /\ RunAndEnd(r.run)
         \/ r.kind = "error" /\ Fail

(* SearchMenu: runs, or prints entries, if so configured annotated with    *)
(* the tree's command for each, which a group need not have.  SplitN with  *)
(* a limit of 1 leaves the annotation of an argument where it is.          *)
SearchMenu ==
  /\ phase = "resolve" /\ via = "cmd"
  /\ LET r == ResolveCommands(op)
     IN  \/ r.kind = "run" /\ RunAndEnd(r.run)
         \/ r.kind = "error" /\ Fail
         \/ /\ r.kind = "menu"
            /\ \/ Show(r.entries)
               \/ /\ \E e \in r.entries : NodeCommand(e.name) = {}
                  /\ End("panic")
                  /\ UNCHANGED <<group, offered, picked, ran>>

(* DMenu: a menu, or commands that end the session.                        *)
DMenu ==
  /\ phase = "resolve" /\ via = "dmenu"
  /\ LET r == ResolveCommands(op)
     IN  \/ r.kind = "run" /\ RunAndEnd(r.run)
         \/ r.kind = "menu" /\ r.entries # {} /\ Offer(r.key, r.entries)
         \/ r.kind = "menu" /\ r.entries = {} /\ Fail
         \/ r.kind = "error" /\ Fail

(* The same for fuzzy, which may, if so configured, wait for the process   *)
(* to be interrupted when its commands are done.                           *)
Fuzzy ==
  /\ phase = "resolve" /\ via = "fuzzy"
  /\ LET r == ResolveCommands(op)
     IN  \/ r.kind = "run" /\ RunAndEnd(r.run)
         \/ /\ r.kind = "run"
            /\ phase' = "waiting" /\ ran' = Ids(r.run)
            /\ UNCHANGED <<conf, via, op, outcome, group, offered, picked>>
         \/ r.kind = "menu" /\ r.entries # {} /\ Offer(r.key, r.entries)
         \/ r.kind = "menu" /\ r.entries = {} /\ Fail
         \/ r.kind = "error" /\ Fail

Interrupt ==
  /\ phase = "waiting"
  /\ End("done")
  /\ UNCHANGED <<group, offered, picked, ran>>

(* godmenu returns one entry, fzf any number of them.                      *)
Selectable(entries) ==
  LET most == IF via = "dmenu" THEN 1 ELSE MaxPicks
  IN  UNION {kSubset(n, entries) : n \in 1 .. most}

(* Wrong: the name that was resolved before is resolved again.             *)
PickStale ==
  /\ phase = "menu" /\ via \in {"dmenu", "fuzzy"}
  /\ \E es \in Selectable(offered) : picked' = es
  /\ phase' = "resolve"
  /\ UNCHANGED <<conf, via, op, group, offered, ran, outcome>>

(* op is what was picked, in the order of picking.                         *)
Pick ==
  /\ phase = "menu" /\ via \in {"dmenu", "fuzzy"}
  /\ \E es \in Selectable(offered) :
       /\ picked' = es
       /\ op' \in SetToSeqs({e.name : e \in es})
  /\ phase' = "resolve"
  /\ UNCHANGED <<conf, via, group, offered, ran, outcome>>

(* Leaving a menu is no error for dmenu; nothing picked is one for fzf.    *)
Leave ==
  /\ phase = "menu"
  /\ \E how \in IF via \in {"dmenu", "dmenu search"} THEN {"left", "error"}
                                                     ELSE {"error"} : End(how)
  /\ UNCHANGED <<group, offered, picked, ran>>

-----------------------------------------------------------------------------
(* The searches in the tree.                                               *)

(* searchCommand: the node of the joined arguments.                        *)
Search ==
  /\ phase = "resolve" /\ via = "search"
  /\ LET p == FlattenSeq(op)
     IN  \/ p \notin Paths /\ Fail
         \/ /\ p \in Paths /\ NodeCommand(p) # {} /\ Children(p) # {}
            /\ ran' = Ids(NodeCommand(p))
            /\ \/ End("error") /\ UNCHANGED offered
               \/ End("listed") /\ offered' = NodeEntries(Children(p))
            /\ UNCHANGED <<group, picked>>
         \/ p \in Paths /\ NodeCommand(p) # {} /\ Children(p) = {}
              /\ RunAndEnd(NodeCommand(p))
         \/ p \in Paths /\ NodeCommand(p) = {} /\ Children(p) = {} /\ Fail
         \/ p \in Paths /\ NodeCommand(p) = {} /\ Children(p) # {}
              /\ Show(NodeEntries(Children(p)))

(* dmenuSearch at a node: its command is run on the way to its children.   *)
Visit(p) ==
  \/ p \notin Paths /\ Fail
  \/ /\ p \in Paths /\ NodeCommand(p) # {} /\ Children(p) # {}
     /\ ran' = Ids(NodeCommand(p))
     /\ \/ End("error") /\ UNCHANGED offered
        \/ /\ phase' = "menu" /\ offered' = NodeEntries(Children(p))
           /\ UNCHANGED <<conf, via, op, outcome>>
     /\ UNCHANGED <<group, picked>>
  \/ p \in Paths /\ NodeCommand(p) # {} /\ Children(p) = {}
       /\ RunAndEnd(NodeCommand(p))
  \/ p \in Paths /\ NodeCommand(p) = {} /\ Children(p) = {} /\ Fail
  \/ /\ p \in Paths /\ NodeCommand(p) = {} /\ Children(p) # {}
     /\ phase' = "menu" /\ offered' = NodeEntries(Children(p))
     /\ ran' = {}
     /\ UNCHANGED <<conf, via, op, group, picked, outcome>>

(* NarrowTo takes a word, so an argument with a dot is no node.            *)
DmenuSearch ==
  /\ phase = "resolve" /\ via = "dmenu search"
  /\ \/ picked = {} /\ op = <<>> /\ Visit(<<>>)
     \/ picked = {} /\ Len(op) = 1 /\ Len(op[1]) = 1 /\ Visit(op[1])
     \/ picked = {} /\ (Len(op) > 1 \/ (Len(op) = 1 /\ Len(op[1]) # 1)) /\ Fail
     \/ \E e \in picked : Visit(e.name)

PickChild ==
  /\ phase = "menu" /\ via = "dmenu search"
  /\ \E e \in offered : picked' = {e}
  /\ phase' = "resolve"
  /\ UNCHANGED <<conf, via, op, group, offered, ran, outcome>>

(* fuzzySearch ignores its arguments and starts at the root.               *)
FuzzySearch ==
  /\ phase = "resolve" /\ via = "fuzzy search"
  /\ \/ Children(<<>>) = {} /\ Fail
     \/ Children(<<>>) # {} /\ Offer(<<>>, NodeEntries(Children(<<>>)))

(* The commands of the picked nodes run, then their children are offered.  *)
FuzzyPick ==
  /\ phase = "menu" /\ via = "fuzzy search"
  /\ \E es \in Selectable(offered) :
       LET nodes == {e.name : e \in es}
           below == UNION {Children(p) : p \in nodes}
       IN  /\ picked' = es
           /\ ran' = Ids(UNION {NodeCommand(p) : p \in nodes})
           /\ \/ ran' # {} /\ End("error") /\ UNCHANGED offered
              \/ below = {} /\ End("done") /\ UNCHANGED offered
              \/ /\ below # {}
                 /\ \E s \in OnePerWord(below) : offered' = NodeEntries(s)
                 /\ UNCHANGED <<conf, via, op, phase, outcome>>
  /\ UNCHANGED group

-----------------------------------------------------------------------------
(* Listings, and exec.                                                     *)

(* listCommands: the groups that are asked for, or all of them.            *)
List ==
  /\ phase = "resolve" /\ via = "list"
  /\ Show(GroupEntries(IF op = <<>> THEN GroupKeys
                                     ELSE GroupKeys \cap Range(op)))

ListInfo ==
  /\ phase = "resolve" /\ via = "info"
  /\ Show(CommandEntries)

(* listCommandsPlain fails with the names it found, and without any.       *)
ListPlain ==
  /\ phase = "resolve" /\ via = "plain"
  /\ LET r == ResolveCommands(<<>>)
     IN  r.kind = "error" \/ r.entries # {} \/ r.run = {}
  /\ Fail

(* ExecCommand offers programs, and lines of the history that start one,   *)
(* and runs what is entered, offered or not.                               *)
Exec ==
  /\ phase = "resolve" /\ via = "exec"
  /\ offered' = {[name |-> <<p>>, ids |-> {}] : p \in Programs} \cup
       {[name |-> h, ids |-> {}] : h \in {h \in History : h[1] \in Programs}}
  /\ \E how \in {"done", "error"} : End(how)
  /\ UNCHANGED <<group, picked, ran>>

-----------------------------------------------------------------------------
Next ==
  \/ Run \/ SearchMenu \/ DMenu \/ Fuzzy \/ Interrupt \/ Pick \/ Leave
  \/ Search \/ DmenuSearch \/ PickChild \/ FuzzySearch \/ FuzzyPick
  \/ List \/ ListInfo \/ ListPlain \/ Exec

(* The user who is offered entries goes on picking.                        *)
Spec == Init /\ [][Next]_vars /\ WF_vars(DMenu \/ DmenuSearch)
             /\ WF_vars(Pick) /\ WF_vars(PickChild)

-----------------------------------------------------------------------------
(* A group that the map has under an alias, which its commands are not     *)
(* exported under: it has a category, or hides the group of that name.     *)
Borrowed(k) == k \in GroupKeys /\ Key(GroupAt(k)) # k

(* Whichever way the user came to an entry, if only one command has its    *)
(* name then picking it runs that command, and nothing is run that was not *)
(* picked: menus, which look names up among all commands, and the tree,    *)
(* which keeps another of several, agree; except in the menus of aliases   *)
(* under which commands are not exported.                                  *)
RunsWhatWasPicked ==
  /\ ran # {} /\ picked # {} /\ phase # "resolve"
  /\ ~Borrowed(group)
  /\ \A e \in picked : Cardinality(Named(e.name)) <= 1
  => ran = UNION {e.ids : e \in picked}

(* No menu offers an entry that cannot be resolved, or whose menu would be *)
(* empty, unless a group has no commands or is offered by its alias.       *)
EveryEntryLeads ==
  phase = "menu" /\ via \in {"dmenu", "fuzzy"} /\ ~Borrowed(group) =>
    \A e \in offered :
      LET r == ResolveCommands(<<e.name>>)
      IN  \/ r.kind = "run"
          \/ r.kind = "menu" /\ r.entries # {}
          \/ e.name \in GroupKeys /\ GroupAt(e.name).cmds = <<>>

(* A session in which one entry is picked after another comes to an end,   *)
(* unless a group has a name by which all groups are asked for.            *)
PickingEnds ==
  via \in {"dmenu", "dmenu search"} /\ GroupKeys \cap GroupWords = {}
    ~> phase = "ended"

=============================================================================
