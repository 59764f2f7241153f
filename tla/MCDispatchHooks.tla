-------------------------- MODULE MCDispatchHooks --------------------------
(***************************************************************************)
(* An instance of DispatchHooks for TLC: two protocols, two hooks at most  *)
(* under one of them and one under every other key.                        *)
(***************************************************************************)
EXTENDS DispatchHooks

CONSTANTS p, q

MCProtocol == {p, q}
MCMaxHooks == [k \in Key |-> IF k = p THEN 2 ELSE 1]

=============================================================================
