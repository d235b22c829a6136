-------------------------- MODULE MCSettingsManager --------------------------
(***************************************************************************)
(* SettingsManager with two processes and two fields.                      *)
(***************************************************************************)
EXTENDS SettingsManager, TLC

CONSTANTS p1, p2, f1, f2

Symmetric == Permutations(Proc) \cup Permutations(Field)
=============================================================================
