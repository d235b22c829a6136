---------------------------- MODULE MCAuthStorage ----------------------------
(***************************************************************************)
(* AuthStorage with two instances and two providers.  A unit of time is    *)
(* five seconds.                                                           *)
(***************************************************************************)
EXTENDS AuthStorage, TLC

CONSTANTS a1, a2, p1, p2

Symmetric == Permutations(Instance) \cup Permutations(Provider)
=============================================================================
