---------------------------- MODULE MCHelperCall ----------------------------
(***************************************************************************)
(* HelperCall with limits of a few blocks.                                  *)
(***************************************************************************)
EXTENDS HelperCall
=============================================================================
