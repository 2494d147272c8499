----------------------------- MODULE MCKdsFetch -----------------------------
(***************************************************************************)
(* KdsFetch with two calls on a cache that earlier calls have used.         *)
(***************************************************************************)
EXTENDS KdsFetch
=============================================================================
