------------------------------ MODULE Registry ------------------------------
(***************************************************************************)
(* v2/src/registry.rs for one Value X: signers publish entries and          *)
(* time-bounded snapshots of its status, and a relying party loads them     *)
(* from a directory with Registry::load and asks fresh_status and lookup    *)
(* for as long as it keeps the loaded registry.                             *)
(*                                                                          *)
(* The directory is somebody's mirror.  It is rewritten while it is being   *)
(* read, so each read may return any file ever published, in any            *)
(* combination, as well as nothing or garbage; a signature verifies for the *)
(* exact bytes its key signed.                                              *)
(***************************************************************************)
EXTENDS Naturals, FiniteSets

CONSTANTS
    None,       \* a missing file
    Garbage,    \* a file that does not parse
    Keys,       \* raw public keys of signers
    Publisher,  \* the key of the authority the relying party means to trust
    TrustRoot,  \* the relying party's identities
    Validity,   \* how long the authority's snapshots stay valid
    MaxTime,    \* bound on the clock
    MaxSigned   \* bound on the number of signatures

Status == {"Recommended", "Deprecated", "Revoked"}

Bodies == [type: {"entry"}, status: Status]
            \cup [type: {"snapshot"}, status: Status \cup {None},
                  generated_at: 0..MaxTime, expires_at: 0..(MaxTime + Validity)]

ASSUME RegistryAssumption ==
    /\ Publisher \in Keys
    /\ TrustRoot \subseteq [kind: {"RawPublicKey"}, key: {Publisher}]
                              \cup [kind: {"SigstoreKeyless"}, key: Keys]
    /\ Validity \in Nat /\ MaxTime \in Nat /\ MaxSigned \in Nat
    /\ None \notin Nat \cup Status \cup Bodies

VARIABLES
    now,
    status,         \* the status the authority has decided
    revoked_at,     \* when it decided on Revoked
    signed,         \* [key, body]: every signature ever made
    pc,             \* the load: entry, entry sig, snapshot, snapshot sig, loaded
    body,           \* the file the load has read and not judged yet
    entry,          \* entries[value_x]: the entry and its SignatureState
    snapshot,       \* the snapshot kept
    snapshot_state, \* Fresh, Expired, Untrusted, Missing
    loaded_at       \* history: when the snapshot was judged

authority == <<now, status, revoked_at, signed>>
registry == <<entry, snapshot, snapshot_state, loaded_at>>
vars == <<authority, pc, body, registry>>

Entries == [body: Bodies, signature: {"Verified", "Untrusted", "Missing"}]

\* Every variable holds a value of its type; the load holds a body exactly
\* between reading a file and judging its sidecar.
TypeOK ==
    /\ now \in 0..MaxTime /\ status \in Status /\ revoked_at \in 0..MaxTime \cup {None}
    /\ signed \in SUBSET [key: Keys, body: Bodies]
    /\ pc \in {"entry", "entry sig", "snapshot", "snapshot sig", "loaded"}
    /\ body \in Bodies \cup {None}
    /\ body # None <=> pc \in {"entry sig", "snapshot sig"}
    /\ entry \in Entries \cup {None}
    /\ snapshot \in Bodies \cup {None}
    /\ snapshot_state \in {"Fresh", "Expired", "Untrusted", "Missing"}
    /\ loaded_at \in 0..MaxTime \cup {None}

Init ==
    /\ now = 0 /\ status = "Recommended" /\ revoked_at = None /\ signed = {}
    /\ pc = "entry" /\ body = None
    /\ entry = None /\ snapshot = None /\ snapshot_state = "Missing" /\ loaded_at = None
-----------------------------------------------------------------------------
(* Signers. *)

\* The authority deprecates or revokes Value X; a revocation is final.
Decide(s) ==
    /\ status # "Revoked" /\ s # status
    /\ status' = s
    /\ revoked_at' = IF s = "Revoked" THEN now ELSE None
    /\ UNCHANGED <<now, signed, pc, body, registry>>

\* The authority signs its current decision; other keys sign what they like.
Sign(k, b) ==
    /\ Cardinality(signed) < MaxSigned
    /\ [key |-> k, body |-> b] \notin signed
    /\ k = Publisher =>
          /\ b.status = status
          /\ b.type = "snapshot" =>
                b.generated_at = now /\ b.expires_at = now + Validity
    /\ signed' = signed \cup {[key |-> k, body |-> b]}
    /\ UNCHANGED <<now, status, revoked_at, pc, body, registry>>

Tick ==
    /\ now < MaxTime /\ now' = now + 1
    /\ UNCHANGED <<status, revoked_at, signed, pc, body, registry>>
-----------------------------------------------------------------------------
(* Registry::load, one file at a time. *)

\* Files of a kind that a mirror can serve.
Published(type) == {s.body : s \in {t \in signed : t.body.type = type}}
Sidecars == signed \cup {None, Garbage}

\* The bytes are not part of what is verified.
verify_any_bytes(id, b, sidecar) ==
    id.kind = "RawPublicKey" /\ sidecar.key = id.key

\* A raw key verifies its own signatures over exactly these bytes; keyless
\* identities never verify.
verify_against(id, b, sidecar) ==
    id.kind = "RawPublicKey" /\ sidecar = [key |-> id.key, body |-> b]

Verified(b, sidecar) ==
    sidecar \in signed /\ \E id \in TrustRoot : verify_against(id, b, sidecar)

\* The directory has no file for Value X, or one that is skipped.
SkipEntry ==
    /\ pc = "entry" /\ pc' = "snapshot"
    /\ UNCHANGED <<authority, body, registry>>

ReadEntry ==
    /\ pc = "entry" /\ pc' = "entry sig"
    /\ body' \in Published("entry")
    /\ UNCHANGED <<authority, registry>>

check_sidecar(sidecar) ==
    IF sidecar = None THEN "Missing"
    ELSE IF Verified(body, sidecar) THEN "Verified" ELSE "Untrusted"

ReadEntrySig(sidecar) ==
    /\ pc = "entry sig" /\ pc' = "snapshot"
    /\ entry' = [body |-> body, signature |-> check_sidecar(sidecar)]
    /\ body' = None
    /\ UNCHANGED <<authority, snapshot, snapshot_state, loaded_at>>

\* load_snapshot: no file, or one that does not parse.
NoSnapshot(file) ==
    /\ pc = "snapshot" /\ pc' = "loaded"
    /\ snapshot_state' = IF file = None THEN "Missing" ELSE "Untrusted"
    /\ loaded_at' = now
    /\ UNCHANGED <<authority, body, entry, snapshot>>

ReadSnapshot ==
    /\ pc = "snapshot" /\ pc' = "snapshot sig"
    /\ body' \in Published("snapshot")
    /\ UNCHANGED <<authority, registry>>

\* An off-by-one that still trusts a snapshot one second after its end.
is_expired_late(s) == now > s.expires_at + 1

is_expired(s) == now > s.expires_at

ReadSnapshotSig(sidecar) ==
    /\ pc = "snapshot sig" /\ pc' = "loaded"
    /\ snapshot' = body /\ body' = None
    /\ snapshot_state' = IF ~Verified(body, sidecar) THEN "Untrusted"
                         ELSE IF is_expired(body) THEN "Expired" ELSE "Fresh"
    /\ loaded_at' = now
    /\ UNCHANGED <<authority, entry>>

\* The relying party loads again.
Reload ==
    /\ pc = "loaded" /\ pc' = "entry"
    /\ entry' = None /\ snapshot' = None /\ snapshot_state' = "Missing" /\ loaded_at' = None
    /\ UNCHANGED <<authority, body>>

Next ==
    \/ \E s \in Status : Decide(s)
    \/ \E k \in Keys, b \in Bodies : Sign(k, b)
    \/ Tick
    \/ SkipEntry \/ ReadEntry
    \/ \E sidecar \in Sidecars : ReadEntrySig(sidecar)
    \/ \E file \in {None, Garbage} : NoSnapshot(file)
    \/ ReadSnapshot
    \/ \E sidecar \in Sidecars : ReadSnapshotSig(sidecar)
    \/ Reload

Spec == Init /\ [][Next]_vars
-----------------------------------------------------------------------------
\* What the relying party is told; None when no fresh snapshot covers Value X.
fresh_status == IF snapshot_state = "Fresh" THEN snapshot.status ELSE None

(* Revocation reaches every relying party within one validity period: if    *)
(* the fresh snapshot does not say Revoked, the authority had not revoked   *)
(* Value X more than Validity before the load, whatever mirror served the   *)
(* files and however it mixed them (load_snapshot, fresh_status).           *)
RevocationBound ==
    fresh_status \in Status \ {"Revoked"} /\ revoked_at # None =>
        loaded_at <= revoked_at + Validity

(* A status reported fresh, and an entry reported Verified, are ones the    *)
(* authority itself signed (check_sidecar, load_snapshot).                  *)
ReportedIsSigned ==
    /\ fresh_status # None => [key |-> Publisher, body |-> snapshot] \in signed
    /\ entry # None /\ entry.signature = "Verified" =>
          [key |-> Publisher, body |-> entry.body] \in signed

=============================================================================
