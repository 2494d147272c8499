------------------------------ MODULE MCRelay ------------------------------
(***************************************************************************)
(* Relay with two device keys, a device with and one without authenticated  *)
(* application identity, and a TEE receipt that is admitted and one whose   *)
(* binding is too short.                                                    *)
(***************************************************************************)
EXTENDS Relay

CONSTANTS k1, k2

Device(key, platform, identity, ima) ==
    [key |-> key, platform |-> platform, identity |-> identity, verdict |-> "verified", ima |-> ima]

MCDevices ==
    {Device(k1, "linux-tpm-client", "app", TRUE),
     Device(k2, "linux-tpm-client", "claimed", FALSE)}

MCEats ==
    {[suite |-> 2, admitted |-> TRUE, value_x |-> "tee"],
     [suite |-> 0, admitted |-> TRUE, value_x |-> "legacy"]}

=============================================================================
