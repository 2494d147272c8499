------------------------------- MODULE CpuPki -------------------------------
(***************************************************************************)
(* The certificate rules CPU quotes and vendor collateral are held to:      *)
(* v2/src/quote/pki.rs.                                                     *)
(*                                                                          *)
(* A certificate is a record of what it says; "signer" is the key its       *)
(* signature verifies under.  "defects" is the set of the profile's         *)
(* requirements that its encoding breaks, each of which alone is fatal.     *)
(***************************************************************************)
EXTENDS Naturals, Sequences, FiniteSets

CONSTANTS
    MAX_CHAIN_CERTS,    \* 12
    Missing                \* an optional field that is absent

ASSUME PkiAssumption == MAX_CHAIN_CERTS \in Nat /\ MAX_CHAIN_CERTS >= 2

\* What may be wrong with a certificate apart from its dates and its signature.
CertificateDefects ==
    {"version", "unique id", "inner algorithm", "empty subject", "duplicate extension",
     "name constraints", "critical extension", "path length of an end entity",
     "key agreement bits", "restricted use", "public key"}
CrlDefects ==
    {"version", "inner algorithm", "delta or scoped", "unknown extension",
     "duplicate serial", "entry extension"}

\* check_certificate.
check_certificate(c, now) == c.defects = {} /\ c.from <= now /\ now <= c.to

\* check_authority_key_id: an identifier that is given must be the issuer's.
check_authority_key_id(aki, issuer) ==
    /\ aki.key # Missing => issuer.ski # Missing /\ aki.key = issuer.ski
    /\ (aki.name = Missing) = (aki.serial = Missing)
    /\ aki.serial # Missing => aki.serial = issuer.serial /\ aki.name = issuer.issuer

\* verify_signature: the algorithm fits the issuer's key, and the key signed it.
verify_signature(issuer, algorithm, signer) ==
    /\ algorithm \in {"pss", "ecdsa"}
    /\ (algorithm = "pss") = (issuer.kind = "rsa")
    /\ signer = issuer.key
verify_certificate_signature(c, issuer) ==
    /\ c.issuer = issuer.subject
    /\ c.aki # Missing => check_authority_key_id(c.aki, issuer)
    /\ verify_signature(issuer, c.alg, c.signer)

\* The leaf signs quotes and not certificates; AMD's has no key usage.
LeafProfile(c, curve) ==
    /\ IF c.usage = Missing THEN curve = "AmdEndorsement"
       ELSE "digitalSignature" \in c.usage /\ "keyCertSign" \notin c.usage
    /\ c.ca # TRUE
    /\ c.kind = IF curve = "P256" THEN "P256" ELSE "P384"

\* An issuer is a critical CA whose path length covers the CAs below it.
IssuerProfile(chain, i) ==
    /\ chain[i].ca = TRUE /\ chain[i].caCritical
    /\ chain[i].usage # Missing /\ "keyCertSign" \in chain[i].usage
    /\ chain[i].pathLen # Missing =>
          Cardinality({j \in 2 .. i - 1 : chain[j].issuer # chain[j].subject}) <= chain[i].pathLen

\* validate_chain: leaf first, distinct certificates, ending in the pinned root.
validate_chain(chain, pin, now, curve) ==
    /\ Len(chain) \in 2 .. MAX_CHAIN_CERTS
    /\ \A i, j \in DOMAIN chain : chain[i] = chain[j] => i = j
    /\ chain[Len(chain)] = pin
    /\ \A i \in DOMAIN chain : check_certificate(chain[i], now)
    /\ LeafProfile(chain[1], curve)
    /\ \A i \in 2 .. Len(chain) :
          IssuerProfile(chain, i) /\ verify_certificate_signature(chain[i - 1], chain[i])
    /\ verify_certificate_signature(pin, pin)

check_dates(this, next, now) == this < next /\ this <= now /\ now < next

\* check_crl: a complete and current list of the issuer, with a signature of
\* its own, that does not name the subject.
check_crl(crl, subject, issuer, now) ==
    /\ crl.defects = {}
    /\ crl.issuer = issuer.subject /\ subject.issuer = issuer.subject
    /\ issuer.usage # Missing /\ "cRLSign" \in issuer.usage
    /\ crl.to # Missing /\ check_dates(crl.from, crl.to, now)
    /\ crl.aki # Missing => check_authority_key_id(crl.aki, issuer)
    /\ verify_signature(issuer, crl.alg, crl.signer)
    /\ subject.serial \notin crl.revoked

=============================================================================
