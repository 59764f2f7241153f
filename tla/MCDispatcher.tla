---------------------------- MODULE MCDispatcher ----------------------------
(***************************************************************************)
(* Instances of Dispatcher for TLC.  The configurations choose the sets;   *)
(* the symmetry is used by the run that checks no liveness.                *)
(***************************************************************************)
EXTENDS Dispatcher, TLC

Protocols == Permutations(Protocol)

=============================================================================
