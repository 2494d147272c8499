------------------------------- MODULE Relay -------------------------------
(***************************************************************************)
(* Relay credentials (v2/src/relay.rs): a device proves itself once to an   *)
(* attested TEE, which signs a short-lived credential over the device's     *)
(* key; a relying party then accepts the credential with a signature by     *)
(* that key over a challenge of its own.                                    *)
(*                                                                          *)
(* The issuer and the relying party are separate processes with separate    *)
(* clocks and separate in-memory replay stores; either may restart and      *)
(* lose its store.  Challenges, credentials, presentations and device       *)
(* evidence travel over a network that may repeat, drop, mix or alter them, *)
(* so a call may be made with anything that exists.  A call that returns an *)
(* error changes nothing and is a stuttering step.                          *)
(***************************************************************************)
EXTENDS Integers, Sequences, FiniteSets

CONSTANTS
    None,
    Keys,          \* device signing keys
    ISSUER,        \* the relay TEE's signing key
    Devices,       \* [key, platform, identity, verdict, ima]
    Eats,          \* receipts of relay TEEs: [suite, admitted, value_x]
    Nonces,
    Ttls,          \* ttl_secs a caller may ask for
    SKEW_SECS,
    MaxU64,
    MaxDrift,      \* how far the two clocks may be apart
    MaxTime, MaxChallenges, MaxAttested, MaxIssued, MaxAccepted, MaxRestarts \* bounds

ASSUME RelayAssumption ==
    /\ SKEW_SECS \in Nat /\ MaxU64 \in Nat /\ MaxTime \in Nat /\ MaxDrift \in Nat
    /\ MaxChallenges \in Nat /\ MaxIssued \in Nat /\ MaxAccepted \in Nat
    /\ MaxRestarts \in Nat /\ MaxAttested \in Nat
    /\ Ttls \subseteq Nat
    /\ MaxDrift <= SKEW_SECS
    /\ MaxTime + SKEW_SECS <= MaxU64
    /\ ISSUER \notin Keys /\ None \notin Devices

VARIABLES
    issuerClock, verifierClock,   \* unix seconds at the issuer, at the relying party
    relayTee,                     \* value_x of the VerifiedRelayTee, or None
    bootChallenges,               \* RelayChallenges of the issuer
    presChallenges,               \* RelayChallenges of the relying party
    attested,                     \* device evidence: <<device, binding>>
    bootSeen, presSeen,           \* the replay stores' seen_until entries
    bootEpoch, presEpoch,         \* restarts of the issuer and the relying party
    issued,                       \* history: credentials in the order of issue
    accepted                      \* history: acceptances in order

vars == <<issuerClock, verifierClock, relayTee, bootChallenges, presChallenges,
          attested, bootSeen, presSeen, bootEpoch, presEpoch, issued, accepted>>

-----------------------------------------------------------------------------
(* Messages.  A signature is its key and the bytes it is over; a digest is  *)
(* its preimage.                                                            *)

Sign(key, bytes) == <<key, bytes>>
Digest(bytes) == <<"sha256", bytes>>

ensure_fresh(challenge, now) == now <= challenge.expires_at

challenge_bytes(challenge) == <<"challenge", challenge.nonce, challenge.expires_at>>

device_binding(key, tee_value_x, challenge) ==
    Digest(<<"device-binding", key, tee_value_x, challenge_bytes(challenge)>>)

credential_bytes(c) ==
    <<"credential", c.device_pubkey, c.platform, c.value_x, c.tee_value_x,
      c.issued_at, c.expiry>>

pop_message(challenge) == <<"proof-of-possession", challenge_bytes(challenge)>>

present(key, challenge) == Sign(key, pop_message(challenge))

\* Mutation of verify: no allowance for a relying party whose clock is behind.
verify_no_skew(c, issuer, now) ==
    IF now > c.expiry THEN "Expired"
    ELSE IF now < c.issued_at THEN "NotYetValid"
    ELSE IF c.sig = Sign(issuer, credential_bytes(c)) THEN "Ok" ELSE "IssuerSignatureInvalid"

\* Mutation of verify: the expiry is not checked.
verify_no_expiry(c, issuer, now) ==
    IF now + SKEW_SECS < c.issued_at THEN "NotYetValid"
    ELSE IF c.sig = Sign(issuer, credential_bytes(c)) THEN "Ok" ELSE "IssuerSignatureInvalid"

\* RelayCredential::verify
verify(c, issuer, now) ==
    IF now > c.expiry THEN "Expired"
    ELSE IF now + SKEW_SECS < c.issued_at THEN "NotYetValid"
    ELSE IF c.sig = Sign(issuer, credential_bytes(c)) THEN "Ok" ELSE "IssuerSignatureInvalid"

\* VerifiedRelayTee::from_eat: a full report-data binding and an admission.
from_eat(eat) ==
    IF eat.suite \in {1, 2} /\ eat.admitted THEN eat.value_x ELSE None

\* VerifiedDeviceAttestation::from_desktop_tpm and from_macos_app_attest: the
\* evidence verifies against the expected binding and, for a TPM, the
\* application identity is authenticated by IMA.
VerifiedDevice(d, binding, expected) ==
    /\ binding = expected
    /\ d.verdict = "verified"
    /\ d.platform = "linux-tpm-client" => d.ima

\* A mutation of Replayed: the whole challenge is looked up, not its nonce.
ReplayedWhole(seen, challenge) == challenge \in seen

\* The lookup of both check_and_store functions; an entry is a nonce with its
\* expiry and is never removed.
Replayed(seen, challenge) == \E s \in seen : s.nonce = challenge.nonce

\* A mutation of SeenAfter: the store is asked before the other checks.
SeenBefore(seen, challenge, result, now) ==
    IF ensure_fresh(challenge, now) THEN seen \cup {challenge} ELSE seen

\* The store after a call of bootstrap or accept: check_and_store comes last, and
\* inserts after its own checks, so only a call that succeeds inserts.
SeenAfter(seen, challenge, result, now) ==
    IF result = "Ok" THEN seen \cup {challenge} ELSE seen

\* A mutation of bootstrap: the device's binding is not compared.
bootstrap_unbound(seen, key, observed, tee, challenge, now, ttl) ==
    IF now + ttl > MaxU64 THEN "TimeOverflow"
    ELSE IF ~ensure_fresh(challenge, now) THEN "ChallengeExpired"
    ELSE IF Replayed(seen, challenge) THEN "BootstrapReplay"
    ELSE "Ok"

\* What bootstrap (and its alias bootstrap_once) returns, checks in order.
bootstrap(seen, key, observed, tee, challenge, now, ttl) ==
    IF now + ttl > MaxU64 THEN "TimeOverflow"
    ELSE IF observed # device_binding(key, tee, challenge) THEN "DeviceBindingMismatch"
    ELSE IF ~ensure_fresh(challenge, now) THEN "ChallengeExpired"
    ELSE IF Replayed(seen, challenge) THEN "BootstrapReplay"
    ELSE "Ok"

\* issue: the credential and the issuer's signature over it.
issue(key, d, tee, now, ttl) ==
    LET c == [device_pubkey |-> key, platform |-> d.platform, value_x |-> d.identity,
              tee_value_x |-> tee, issued_at |-> now, expiry |-> now + ttl, sig |-> None]
    IN  [c EXCEPT !.sig = Sign(ISSUER, credential_bytes(c))]

\* What accept returns; verify_presentation checks the credential before the
\* holder's signature.
accept(seen, c, presentation, challenge, now) ==
    IF ~ensure_fresh(challenge, now) THEN "ChallengeExpired"
    ELSE IF verify(c, ISSUER, now) # "Ok" THEN verify(c, ISSUER, now)
    ELSE IF presentation # present(c.device_pubkey, challenge) THEN "ProofOfPossession"
    ELSE IF Replayed(seen, challenge) THEN "PresentationReplay"
    ELSE "Ok"

-----------------------------------------------------------------------------
(* Operations.                                                              *)

NewChallenge(nonce, now, ttl) == [nonce |-> nonce, expires_at |-> now + ttl]

\* RelayChallenge::new at the issuer, refused when the expiry overflows.  The
\* caller picks the nonce.
NewBootChallenge(nonce, ttl) ==
    /\ Cardinality(bootChallenges) < MaxChallenges
    /\ issuerClock + ttl <= MaxU64
    /\ bootChallenges' = bootChallenges \cup {NewChallenge(nonce, issuerClock, ttl)}
    /\ UNCHANGED <<issuerClock, verifierClock, relayTee, presChallenges, attested,
                   bootSeen, presSeen, bootEpoch, presEpoch, issued, accepted>>

\* RelayChallenge::new at the relying party.
NewPresChallenge(nonce, ttl) ==
    /\ Cardinality(presChallenges) < MaxChallenges
    /\ verifierClock + ttl <= MaxU64
    /\ presChallenges' = presChallenges \cup {NewChallenge(nonce, verifierClock, ttl)}
    /\ UNCHANGED <<issuerClock, verifierClock, relayTee, bootChallenges, attested,
                   bootSeen, presSeen, bootEpoch, presEpoch, issued, accepted>>

AdmitTee(eat) ==
    /\ from_eat(eat) # None
    /\ relayTee' = from_eat(eat)
    /\ UNCHANGED <<issuerClock, verifierClock, bootChallenges, presChallenges, attested,
                   bootSeen, presSeen, bootEpoch, presEpoch, issued, accepted>>

\* A device's hardware commits to its key, a TEE it was shown and a challenge.
Attest(d, eat, challenge) ==
    /\ Cardinality(attested) < MaxAttested
    /\ attested' = attested \cup {<<d, device_binding(d.key, eat.value_x, challenge)>>}
    /\ UNCHANGED <<issuerClock, verifierClock, relayTee, bootChallenges, presChallenges,
                   bootSeen, presSeen, bootEpoch, presEpoch, issued, accepted>>

\* The issuer verifies evidence e against a binding and calls bootstrap, for
\* any key and challenge, successfully or not.
Bootstrap(key, e, expected, challenge, ttl) ==
    /\ Len(issued) < MaxIssued
    /\ relayTee # None
    /\ VerifiedDevice(e[1], e[2], expected)
    /\ LET result == bootstrap(bootSeen, key, expected, relayTee, challenge, issuerClock, ttl)
       IN  /\ bootSeen' = SeenAfter(bootSeen, challenge, result, issuerClock)
           /\ issued' = IF result # "Ok" THEN issued
                        ELSE Append(issued,
                                [cred |-> issue(key, e[1], relayTee, issuerClock, ttl),
                                 device |-> e[1], challenge |-> challenge,
                                 ttl |-> ttl, epoch |-> bootEpoch])
    /\ UNCHANGED <<issuerClock, verifierClock, relayTee, bootChallenges, presChallenges,
                   attested, presSeen, bootEpoch, presEpoch, accepted>>

\* Credentials a relying party can be shown: the issued ones, and altered or
\* self-signed copies of them.
Shown ==
    LET real == {issued[i].cred : i \in DOMAIN issued} IN
    real \cup {[c EXCEPT !.device_pubkey = k] : c \in real, k \in Keys}
         \cup {[c EXCEPT !.expiry = MaxTime] : c \in real}
         \cup {[c EXCEPT !.sig = Sign(c.device_pubkey, credential_bytes(c))] : c \in real}

\* accept for a credential, a presentation and a challenge of the relying party.
Accept(c, presentation, challenge) ==
    /\ Len(accepted) < MaxAccepted
    /\ LET result == accept(presSeen, c, presentation, challenge, verifierClock)
       IN  /\ presSeen' = SeenAfter(presSeen, challenge, result, verifierClock)
           /\ accepted' = IF result # "Ok" THEN accepted
                          ELSE Append(accepted,
                                  [cred |-> c, presentation |-> presentation,
                                   challenge |-> challenge, at |-> verifierClock,
                                   issuerAt |-> issuerClock, epoch |-> presEpoch])
    /\ UNCHANGED <<issuerClock, verifierClock, relayTee, bootChallenges, presChallenges,
                   attested, bootSeen, bootEpoch, presEpoch, issued>>

\* A restart empties the in-memory store; keys and configuration survive.
RestartIssuer ==
    /\ bootEpoch < MaxRestarts
    /\ bootEpoch' = bootEpoch + 1 /\ bootSeen' = {} /\ relayTee' = None
    /\ UNCHANGED <<issuerClock, verifierClock, bootChallenges, presChallenges, attested,
                   presSeen, presEpoch, issued, accepted>>

RestartVerifier ==
    /\ presEpoch < MaxRestarts
    /\ presEpoch' = presEpoch + 1 /\ presSeen' = {}
    /\ UNCHANGED <<issuerClock, verifierClock, relayTee, bootChallenges, presChallenges,
                   attested, bootSeen, bootEpoch, issued, accepted>>

TickIssuer ==
    /\ issuerClock < MaxTime /\ issuerClock - verifierClock < MaxDrift
    /\ issuerClock' = issuerClock + 1
    /\ UNCHANGED <<verifierClock, relayTee, bootChallenges, presChallenges, attested,
                   bootSeen, presSeen, bootEpoch, presEpoch, issued, accepted>>

TickVerifier ==
    /\ verifierClock < MaxTime /\ verifierClock - issuerClock < MaxDrift
    /\ verifierClock' = verifierClock + 1
    /\ UNCHANGED <<issuerClock, relayTee, bootChallenges, presChallenges, attested,
                   bootSeen, presSeen, bootEpoch, presEpoch, issued, accepted>>

-----------------------------------------------------------------------------
Init ==
    /\ issuerClock = 0 /\ verifierClock = 0
    /\ relayTee = None
    /\ bootChallenges = {} /\ presChallenges = {} /\ attested = {}
    /\ bootSeen = {} /\ presSeen = {}
    /\ bootEpoch = 0 /\ presEpoch = 0
    /\ issued = <<>> /\ accepted = <<>>

Next ==
    \/ \E n \in Nonces, ttl \in Ttls : NewBootChallenge(n, ttl) \/ NewPresChallenge(n, ttl)
    \/ \E eat \in Eats : AdmitTee(eat)
    \/ \E d \in Devices, eat \in Eats, ch \in bootChallenges : Attest(d, eat, ch)
    \/ \E k \in Keys, e \in attested, f \in attested, ch \in bootChallenges, ttl \in Ttls :
          Bootstrap(k, e, f[2], ch, ttl)
    \/ \E c \in Shown, k \in Keys, ch \in presChallenges, signed \in presChallenges :
          Accept(c, present(k, signed), ch)
    \/ RestartIssuer \/ RestartVerifier
    \/ TickIssuer \/ TickVerifier

Spec == Init /\ [][Next]_vars

-----------------------------------------------------------------------------
(* Correctness.                                                             *)

Challenges == [nonce : Nonces, expires_at : 0 .. MaxU64]

Credentials ==
    {issue(k, d, eat.value_x, t, ttl) :
        k \in Keys, d \in Devices, eat \in Eats, t \in 0 .. MaxTime, ttl \in Ttls}

Issuances ==
    [cred : Credentials, device : Devices, challenge : Challenges, ttl : Ttls,
     epoch : 0 .. MaxRestarts]

Acceptances ==
    [cred : Credentials, presentation : {present(k, ch) : k \in Keys, ch \in Challenges},
     challenge : Challenges, at : 0 .. MaxTime, issuerAt : 0 .. MaxTime,
     epoch : 0 .. MaxRestarts]

\* The clocks stay within their drift, the stores hold challenges that were
\* issued, and only credentials that the issuer signed, with an expiry that is
\* a u64, are issued or accepted.
TypeOK ==
    /\ issuerClock \in 0 .. MaxTime /\ verifierClock \in 0 .. MaxTime
    /\ issuerClock - verifierClock \in -MaxDrift .. MaxDrift
    /\ relayTee = None \/ \E eat \in Eats : from_eat(eat) # None /\ relayTee = eat.value_x
    /\ bootChallenges \subseteq Challenges /\ presChallenges \subseteq Challenges
    /\ bootSeen \subseteq bootChallenges /\ presSeen \subseteq presChallenges
    /\ bootEpoch \in 0 .. MaxRestarts /\ presEpoch \in 0 .. MaxRestarts
    /\ issued \in Seq(Issuances) /\ accepted \in Seq(Acceptances)
    /\ \A i \in DOMAIN issued : issued[i].cred.expiry <= MaxU64

\* The issuance behind a credential: an admitted TEE and a verified device
\* whose evidence committed to exactly this key, TEE and challenge.
Earned(c, i) ==
    /\ issued[i].cred = c
    /\ \E eat \in Eats : eat.admitted /\ eat.suite # 0 /\ eat.value_x = c.tee_value_x
    /\ <<issued[i].device, device_binding(c.device_pubkey, c.tee_value_x, issued[i].challenge)>>
          \in attested
    /\ issued[i].device.verdict = "verified"
    /\ issued[i].device.platform = "linux-tpm-client" => issued[i].device.ima
    /\ c.platform = issued[i].device.platform /\ c.value_x = issued[i].device.identity

\* "The credential is only as strong as the device attestation that earned it
\* and the TEE that signed it": whatever is altered or mixed on the network,
\* claims are accepted only from a credential earned by a bootstrap with that
\* identity, TEE and key, and only from the holder of the key.
AcceptedInheritsAttestation ==
    \A a \in DOMAIN accepted :
       /\ \E i \in DOMAIN issued : Earned(accepted[a].cred, i)
       /\ accepted[a].presentation
             = present(accepted[a].cred.device_pubkey, accepted[a].challenge)

\* "Never re-accepts a consumed nonce for the lifetime of the process": in one
\* lifetime a nonce earns at most one credential and at most one acceptance,
\* even when the caller reuses it in another challenge.
NonceConsumedOnce ==
    /\ \A i, j \in DOMAIN issued :
          issued[i].epoch = issued[j].epoch
             /\ issued[i].challenge.nonce = issued[j].challenge.nonce => i = j
    /\ \A a, b \in DOMAIN accepted :
          accepted[a].epoch = accepted[b].epoch
             /\ accepted[a].challenge.nonce = accepted[b].challenge.nonce => a = b

\* However often the processes restart, what a device gains is bounded by the
\* challenge it answered: a credential dies ttl after that challenge at the
\* latest, and is accepted at most MaxDrift later by the issuer's clock.
InheritedTrustExpires ==
    \A a \in DOMAIN accepted :
       /\ accepted[a].at <= accepted[a].challenge.expires_at
       /\ \E i \in DOMAIN issued :
             /\ issued[i].cred = accepted[a].cred
             /\ accepted[a].issuerAt
                   <= issued[i].challenge.expires_at + issued[i].ttl + MaxDrift

\* A nonce in a replay store was spent on a credential or an acceptance of this
\* lifetime: no failed attempt of anybody uses up a challenge.
OnlySuccessConsumes ==
    /\ \A s \in bootSeen : \E i \in DOMAIN issued :
          issued[i].challenge = s /\ issued[i].epoch = bootEpoch
    /\ \A s \in presSeen : \E a \in DOMAIN accepted :
          accepted[a].challenge = s /\ accepted[a].epoch = presEpoch

\* A challenge is used up by exactly one success of the running lifetime, and by
\* nothing else.
ChallengeSpentOnce == NonceConsumedOnce /\ OnlySuccessConsumes

\* A credential is good until it expires: with clocks no further apart than the
\* drift, its holder is accepted for every fresh challenge not yet spent, and
\* in particular right after the bootstrap.
CredentialUsable ==
    \A i \in DOMAIN issued, ch \in presChallenges :
       LET c == issued[i].cred IN
       /\ verifierClock <= c.expiry
       /\ ensure_fresh(ch, verifierClock)
       /\ ~Replayed(presSeen, ch)
       => accept(presSeen, c, present(c.device_pubkey, ch), ch, verifierClock) = "Ok"
=============================================================================
