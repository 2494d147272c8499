----------------------------- MODULE MCTeeGated -----------------------------
(***************************************************************************)
(* TeeGated with two keys, of which the deployer registers one.             *)
(***************************************************************************)
EXTENDS TeeGated, TLC

Symmetry == Permutations(Keys) \cup Permutations(Values)
                \cup Permutations(Nonces \ {EmptyNonce})
=============================================================================
