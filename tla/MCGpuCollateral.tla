-------------------------- MODULE MCGpuCollateral --------------------------
(***************************************************************************)
(* GpuCollateral with a GPU and a switch whose certificates share an        *)
(* authority and one manifest, a device whose certificate expires, and a    *)
(* cache with room for one manifest, which an imported one may have used.   *)
(* An imported cache may also say something of the switch's certificate in  *)
(* the GPU's entry, or of all the root issued in the manifest's.           *)
(***************************************************************************)
EXTENDS GpuCollateral, TLC

CONSTANTS g, h, k, m, n, Leaf, Leaf2, Mid, Old, Signer, Root, Deputy

MCDevices == {g, h, k}
MCManifests == {m, n}
MCCerts == {Leaf, Leaf2, Mid, Old, Signer, Root, Deputy}
MCPath == (g :> <<Leaf, Mid>>) @@ (h :> <<Leaf2, Mid>>) @@ (k :> <<Old>>)
            @@ (m :> <<Signer>>) @@ (n :> <<Signer>>)
MCIssuer == [c \in MCCerts |-> IF c \in {Leaf, Leaf2, Deputy} THEN Mid ELSE Root]
MCNotAfter == [c \in MCCerts |-> IF c = Old THEN 0 ELSE 9]
MCDelegates == [c \in MCCerts |-> IF c = Mid THEN {Deputy} ELSE {}]
MCSelectors == (g :> {m}) @@ (h :> {m}) @@ (k :> {n})
MCImports == {<<n, Signer>>, <<g, Leaf2>>, <<m, Root>>}
MCBundles == {<<g, h>>, <<k, g>>}
=============================================================================
