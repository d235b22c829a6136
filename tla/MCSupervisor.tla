---------------------------- MODULE MCSupervisor ----------------------------
(***************************************************************************)
(* Supervisor with an instance that up to two callers stop.                *)
(***************************************************************************)
EXTENDS Supervisor, TLC

CONSTANTS i1, s1, s2

Symmetric == Permutations(Stopper)
=============================================================================
