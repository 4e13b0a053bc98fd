-------------------------- MODULE MCServerActions --------------------------
(* ServerActions for TLC.                                                   *)
EXTENDS ServerActions, TLC

ActionSymmetry == Permutations(Actions)

=============================================================================
