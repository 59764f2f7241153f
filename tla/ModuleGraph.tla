---------------------------- MODULE ModuleGraph ----------------------------
(***************************************************************************)
(* Collect of tools/gadget/daggen.go feeding GetBuildOrder: the imports of *)
(* the loaded packages, which the Go compiler keeps free of cycles, and    *)
(* the Dependencies that Collect computes from them.                       *)
(***************************************************************************)
EXTENDS BuildOrder

CONSTANT ImportGraph   \* the imports of modules that compile, in their order

(* Every set of names has one that imports none of the others.             *)
Acyclic(R) ==
  \A S \in SUBSET Name : S # {} => \E p \in S : ToSet(R[p]) \cap S = {}

ASSUME ImportAssumption ==
  /\ ImportGraph \subseteq [Name -> Seq(Name)]
  /\ \A R \in ImportGraph : Acyclic(R)

VARIABLE imports   \* for each name with the module's path as a prefix, the
                   \* imports that also have it

moduleVars == <<vars, imports>>

(* For each import of p in turn, Dependencies is overwritten with what the *)
(* imports of that import import; the last one decides.                    *)
Dependencies(R, p) ==
  IF R[p] = <<>> THEN {}
  ELSE UNION {ToSet(R[e]) : e \in ToSet(R[Last(R[p])])}

Collect ==
  /\ imports \in ImportGraph
  /\ deps = [p \in Package |-> Dependencies(imports, p)]

ModuleInit == Collect /\ Start

ModuleSpec ==
  /\ ModuleInit
  /\ [][Next /\ UNCHANGED imports]_moduleVars
  /\ WF_vars(Resolve \/ Postpone \/ GiveUp \/ Finish)

-----------------------------------------------------------------------------
(* The dependencies that Collect computes never contain a cycle, so        *)
(* GetBuildOrder gives up only when a name that has the module's path as a *)
(* prefix was not loaded: a package outside the directory, or one of       *)
(* another module whose path merely begins with this module's.             *)
GivesUpOnlyWhenNotLoaded ==
  result = "irresolvable" =>
    \E p \in Package : deps[p] \cap (Name \ Package) # {}

=============================================================================
