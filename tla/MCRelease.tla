------------------------------ MODULE MCRelease ------------------------------
(***************************************************************************)
(* Instance of AttestedBuild and Registry for TLC: what is released, and    *)
(* what is said of it. They share no state: a behaviour is about one, and   *)
(* the other stands still.                                                  *)
(*                                                                          *)
(* Of AttestedBuild, one tree of two files; a build whose command           *)
(* misbehaves, with edits of the tree or with readers of its output (who    *)
(* never look at the tree), an enclave likewise, two builds sharing the     *)
(* output directory, a build beside two runs, and a build and a rebuild     *)
(* beside one run, while the tree is edited. Of Registry, the authority and *)
(* another signer, and a pinned trust root.                                 *)
(***************************************************************************)
EXTENDS AttestedBuild, Registry

VARIABLE about
releaseVars == <<buildVars, vars, about>>

MCPlatformOf ==
    [p \in Procs |-> IF p \in Builders THEN "SevSnp"
                     ELSE IF p \in Enclaves THEN "Nitro" ELSE "Tdx"]

One == CHOOSE b \in Builders : TRUE

Cast(procs, rough, verify, builds, runs, e) ==
    [procs |-> procs, rough |-> rough, verify |-> verify,
     builds |-> builds, runs |-> runs, edits |-> e]

MCCasts ==
    {Cast({One}, {One}, TRUE, 1, 0, 0),
     Cast({One}, {One}, FALSE, 1, 0, 1),
     Cast(Enclaves, Enclaves, FALSE, 1, 0, 1),
     Cast(Builders, {}, TRUE, 1, 0, 0),
     Cast({One} \cup Runners, {}, FALSE, 1, 2, 1),
     Cast({One} \cup Runners, {}, FALSE, 2, 1, 1)}

MCSymmetry == Permutations(Contents)

Pinned == {[kind |-> "RawPublicKey", key |-> Publisher],
           [kind |-> "SigstoreKeyless", key |-> Publisher]}

ReleaseInit ==
    /\ BuildInit /\ Init
    /\ about \in {"build", "registry"}
    /\ about # "build" => /\ cast = CHOOSE c \in MCCasts : TRUE
                          /\ \A f, g \in Files : tree[f] = tree[g]
ReleaseNext ==
    \/ about = "build" /\ BuildNext /\ UNCHANGED <<vars, about>>
    \/ about = "registry" /\ Next /\ UNCHANGED <<buildVars, about>>
ReleaseSpec == ReleaseInit /\ [][ReleaseNext]_releaseVars
=============================================================================
