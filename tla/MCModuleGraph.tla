--------------------------- MODULE MCModuleGraph ---------------------------
(***************************************************************************)
(* An instance of ModuleGraph for TLC: names are numbers and import only   *)
(* greater ones.  The first three may import one another and the fourth in *)
(* every way and order; the others may form a chain, which gives the order *)
(* more than two groups.                                                   *)
(***************************************************************************)
EXTENDS ModuleGraph

CONSTANT Names   \* how many names there are; all but the last are packages

MCName == 1..Names
MCPackage == 1..(Names - 1)

Lists(S) == UNION {SetToSeqs(T) : T \in SUBSET S}

MCImportGraph ==
  {[n \in MCName |-> IF n <= 3 THEN <<one, two, three>>[n]
                     ELSE IF n \in chain THEN <<n + 1>> ELSE <<>>] :
     one \in Lists({2, 3, 4}), two \in Lists({3, 4}), three \in Lists({4}),
     chain \in SUBSET (4..(Names - 1))}

=============================================================================
