-------------------------------- MODULE Eat --------------------------------
(***************************************************************************)
(* The Entity Attestation Token of v2/src/eat.rs: its shape rules and the   *)
(* commitment its hardware quote carries.                                   *)
(*                                                                          *)
(* A token is a record.  Byte strings whose content no rule looks into     *)
(* (challenge, key, Value X, build hashes) are values of small sets; None is *)
(* an absent option or an empty byte string.  A receipt is the CBOR encoding *)
(* of a token; Decode is EatToken::from_cbor, and a receipt that does not   *)
(* decode is mapped to None.  A hash is injective: the digest of v is a     *)
(* tagged tuple that contains v, so two digests are equal only if the       *)
(* hashed values are.                                                       *)
(***************************************************************************)
EXTENDS Integers, Sequences

CONSTANTS
    None,       \* Option::None, or an empty byte string
    Receipts,   \* encoded tokens a verifier can be handed as a prior stage
    Decode,     \* receipt -> token (None when from_cbor fails)
    Size,       \* receipt -> length in bytes
    Signed      \* the quotes that genuine, vendor-rooted hardware has signed

ASSUME EatAssumption ==
    /\ None \notin Receipts
    /\ DOMAIN Decode = Receipts
    /\ Size \in [Receipts -> Nat]

Platforms == {"Nitro", "SevSnp", "Tdx", "AzureSnpVtpm", "AwsSnpNitroTpm"}
TpmPlatforms == {"AzureSnpVtpm", "AwsSnpNitroTpm"}

EAT_VERSION == 2
EAT_PROFILE_ACCEPTED == {"uq", "bountynet"}

SuiteV2 == 0
SuiteDual == 1
SuiteComposite == 2

Sha256(bytes) == <<"sha256", bytes>>
ZeroHash == <<"zero">>

previous_hash(t) ==
    IF t.previous = None THEN ZeroHash ELSE Sha256(t.previous)

\* The fields both binding layouts hash, in the order of the code.
BoundClaims(t) ==
    <<t.version, t.profile, t.value_x, t.platform, t.tls_spki, t.build, t.iat, t.nonce,
      previous_hash(t)>>

binding_bytes_v2(t) == <<"v2", BoundClaims(t)>>

binding_bytes_v3(t) == <<"v3", t.binding_suite, BoundClaims(t)>>

binding_bytes(t) ==
    IF t.binding_suite = SuiteComposite
    THEN <<"composite", binding_bytes_v3(t), t.gpu, t.boot>>
    ELSE IF t.binding_suite = SuiteDual
         THEN binding_bytes_v3(t)
         ELSE binding_bytes_v2(t)

\* report_data_64(None): the second half is the start of Value X.
report_data_64(t) == <<binding_bytes(t), t.value_x>>

\* The last two rules limit the sizes of the evidence, the quote and the
\* preceding stage; a token says whether it keeps to them.
validate_shape(t) ==
    /\ t.version = EAT_VERSION /\ t.profile \in EAT_PROFILE_ACCEPTED
    /\ t.binding_suite \in {SuiteV2, SuiteDual, SuiteComposite}
    /\ t.binding_suite # SuiteComposite => t.gpu = None /\ t.boot = None
    /\ t.platform \in Platforms
    /\ t.platform \in TpmPlatforms => t.binding_suite = SuiteComposite
    /\ ~t.oversized

\* What a receipt is: a token that from_cbor decodes and whose shape is valid.
from_cbor(r) ==
    IF Decode[r] # None /\ validate_shape(Decode[r]) THEN Decode[r] ELSE None

=============================================================================
