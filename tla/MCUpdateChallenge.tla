------------------------- MODULE MCUpdateChallenge -------------------------
(***************************************************************************)
(* UpdateChallenge with one-block phases and two values, which proposals   *)
(* may share or contend with.                                              *)
(***************************************************************************)
EXTENDS UpdateChallenge, TLC

Symmetry == Permutations(Accounts) \cup Permutations(Values)
=============================================================================
