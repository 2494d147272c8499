--------------------------- MODULE ReleaseProofs ---------------------------
(***************************************************************************)
(* Proofs about what is released and what approves it.                     *)
(*                                                                         *)
(* Registry: revocation reaches relying parties within one validity        *)
(* period, for any keys, any pinned trust root and any mixture of          *)
(* published files.  The invariant says what the authority's signatures    *)
(* mean: a snapshot that does not say Revoked was generated before the     *)
(* revocation.                                                             *)
(*                                                                         *)
(* AttestedBuild: receipts, verified files and served chains name one      *)
(* tree, for any number of files, commands and edits.  The invariant       *)
(* follows each command (Ratchet, Running: what the steps so far have tied *)
(* together) and the tokens it leaves behind: a certificate is of a run    *)
(* that serves or is over (Served), and the runtime token on disk is of    *)
(* one key (Chained), so that no server can offer it under another.        *)
(***************************************************************************)
EXTENDS Registry, AttestedBuild, SequenceTheorems, TLAPS

Types ==
    /\ now \in Nat /\ status \in Status /\ revoked_at \in Nat \cup {None}
    /\ loaded_at \in Nat \cup {None}
    /\ revoked_at # None => status = "Revoked"

\* What a signature of the authority on a snapshot means.
Means(s) ==
    s.key = Publisher /\ s.body.type = "snapshot" =>
        /\ s.body.generated_at \in Nat /\ s.body.status \in Status
        /\ s.body.expires_at = s.body.generated_at + Validity
        /\ s.body.generated_at <= now
        /\ s.body.status # "Revoked" /\ revoked_at # None =>
              s.body.generated_at <= revoked_at

AuthoritySigned(b) == [key |-> Publisher, body |-> b] \in signed

\* What the loaded registry rests on.
FreshRests ==
    snapshot_state = "Fresh" =>
        /\ AuthoritySigned(snapshot) /\ snapshot.type = "snapshot"
        /\ loaded_at \in Nat /\ loaded_at <= snapshot.expires_at

EntryRests ==
    entry # None /\ entry.signature = "Verified" => AuthoritySigned(entry.body)

Reading == pc = "snapshot sig" => body.type = "snapshot"

IInv == /\ Types /\ FreshRests /\ EntryRests /\ Reading
        /\ \A s \in signed : Means(s)

LEMMA InitIInv == Init => IInv
<1> SUFFICES ASSUME Init PROVE IInv
  OBVIOUS
<1>1. Types
  BY RegistryAssumption DEF Init, Types, Status
<1>2. FreshRests /\ EntryRests /\ Reading
  BY DEF Init, FreshRests, EntryRests, Reading
<1>3. \A s \in signed : Means(s)
  BY DEF Init
<1> QED
  BY <1>1, <1>2, <1>3 DEF IInv

\* A pinned trust root accepts only the authority's own signatures.
LEMMA VerifiedIsAuthority ==
    ASSUME NEW b, NEW sidecar, Verified(b, sidecar) PROVE AuthoritySigned(b)
<1>1. PICK id \in TrustRoot : id.kind = "RawPublicKey" /\ sidecar = [key |-> id.key, body |-> b]
  BY DEF Verified, verify_against
<1>2. id.key = Publisher
  BY <1>1, RegistryAssumption
<1> QED
  BY <1>1, <1>2 DEF Verified, AuthoritySigned

\* Steps that leave the authority alone keep the meaning of its signatures.
LEMMA SameAuthority ==
    ASSUME IInv, UNCHANGED authority
    PROVE  /\ \A s \in signed' : Means(s)'
           /\ loaded_at' \in Nat \cup {None} => Types'
BY DEF IInv, authority, Means, Types

LEMMA DecideIInv == ASSUME IInv, NEW s \in Status, Decide(s) PROVE IInv'
<1>1. revoked_at = None /\ now \in Nat /\ now' = now /\ signed' = signed
  BY DEF IInv, Types, Decide
<1>2. Types'
  BY <1>1 DEF IInv, Types, Decide, registry
<1>3. FreshRests' /\ EntryRests' /\ Reading'
  BY DEF IInv, FreshRests, EntryRests, Reading, AuthoritySigned, Decide, registry
<1>4. revoked_at' \in {None, now}
  BY DEF Decide
<1>5. ASSUME NEW t \in signed' PROVE Means(t)'
  <2>1. Means(t)
    BY <1>1 DEF IInv
  <2> QED
    BY <1>1, <1>4, <2>1 DEF Means
<1> QED
  BY <1>2, <1>3, <1>5 DEF IInv

LEMMA SignIInv == ASSUME IInv, NEW k \in Keys, NEW b \in Bodies, Sign(k, b) PROVE IInv'
<1>1. UNCHANGED <<now, status, revoked_at, pc, body, entry, snapshot, snapshot_state, loaded_at>>
  BY DEF Sign, registry
<1>2. signed' = signed \cup {[key |-> k, body |-> b]}
  BY DEF Sign
<1>3. Types' /\ Reading'
  BY <1>1 DEF IInv, Types, Reading
<1>4. FreshRests' /\ EntryRests'
  BY <1>1, <1>2 DEF IInv, FreshRests, EntryRests, AuthoritySigned
<1>5. ASSUME NEW t \in signed' PROVE Means(t)'
  <2>1. CASE t \in signed
    BY <1>1, <2>1 DEF IInv, Means
  <2>2. CASE t = [key |-> k, body |-> b]
    <3>1. t.key = k /\ t.body = b
      BY <2>2
    <3>2. k = Publisher /\ b.type = "snapshot" =>
             b.status = status /\ b.generated_at = now /\ b.expires_at = now + Validity
      BY DEF Sign
    <3>3. now \in Nat /\ status \in Status /\ (revoked_at # None => status = "Revoked")
      BY DEF IInv, Types
    <3> QED
      BY <1>1, <3>1, <3>2, <3>3 DEF Means
  <2> QED
    BY <1>2, <2>1, <2>2
<1> QED
  BY <1>3, <1>4, <1>5 DEF IInv

LEMMA TickIInv == ASSUME IInv, Tick PROVE IInv'
<1>1. now' = now + 1 /\ now \in Nat
  BY DEF IInv, Types, Tick
<1>2. UNCHANGED <<status, revoked_at, signed, pc, body, entry, snapshot, snapshot_state, loaded_at>>
  BY DEF Tick, registry
<1>3. Types'
  BY <1>1, <1>2 DEF IInv, Types
<1>4. FreshRests' /\ EntryRests' /\ Reading'
  BY <1>2 DEF IInv, FreshRests, EntryRests, Reading, AuthoritySigned
<1>5. ASSUME NEW t \in signed' PROVE Means(t)'
  <2>1. Means(t)
    BY <1>2 DEF IInv
  <2> QED
    BY <1>1, <1>2, <2>1 DEF Means
<1> QED
  BY <1>3, <1>4, <1>5 DEF IInv

\* Reading a file, or finding none.
LEMMA ReadIInv ==
    ASSUME IInv, SkipEntry \/ ReadEntry \/ ReadSnapshot \/ (\E f \in {None, Garbage} : NoSnapshot(f))
    PROVE  IInv'
<1>1. UNCHANGED authority
  BY DEF SkipEntry, ReadEntry, ReadSnapshot, NoSnapshot
<1>2. loaded_at' \in Nat \cup {None}
  BY DEF SkipEntry, ReadEntry, ReadSnapshot, NoSnapshot, registry, IInv, Types
<1>3. FreshRests'
  BY <1>1 DEF SkipEntry, ReadEntry, ReadSnapshot, NoSnapshot, registry, authority, IInv,
              FreshRests, AuthoritySigned
<1>4. EntryRests'
  BY <1>1 DEF SkipEntry, ReadEntry, ReadSnapshot, NoSnapshot, registry, authority, IInv,
              EntryRests, AuthoritySigned
<1>5. Reading'
  BY DEF SkipEntry, ReadEntry, ReadSnapshot, NoSnapshot, Reading, Published
<1> QED
  BY <1>1, <1>2, <1>3, <1>4, <1>5, SameAuthority DEF IInv

LEMMA ReadEntrySigIInv ==
    ASSUME IInv, NEW sidecar, ReadEntrySig(sidecar) PROVE IInv'
<1>1. UNCHANGED authority /\ loaded_at' = loaded_at /\ pc' = "snapshot"
  BY DEF ReadEntrySig
<1>2. FreshRests'
  BY <1>1 DEF ReadEntrySig, IInv, FreshRests, AuthoritySigned, authority
<1>3. EntryRests'
  <2>1. entry' = [body |-> body, signature |-> check_sidecar(sidecar)]
    BY DEF ReadEntrySig
  <2>2. entry'.body = body /\ entry'.signature = check_sidecar(sidecar)
    BY <2>1
  <2>3. check_sidecar(sidecar) = "Verified" => AuthoritySigned(body)
    BY VerifiedIsAuthority DEF check_sidecar
  <2> QED
    BY <1>1, <2>2, <2>3 DEF EntryRests, AuthoritySigned, authority
<1>4. Reading'
  BY <1>1 DEF Reading
<1>5. loaded_at' \in Nat \cup {None}
  BY <1>1 DEF IInv, Types
<1> QED
  BY <1>1, <1>2, <1>3, <1>4, <1>5, SameAuthority DEF IInv

LEMMA ReadSnapshotSigIInv ==
    ASSUME IInv, NEW sidecar, ReadSnapshotSig(sidecar) PROVE IInv'
<1>1. /\ UNCHANGED authority /\ loaded_at' = now /\ pc' = "loaded" /\ entry' = entry
      /\ snapshot' = body
  BY DEF ReadSnapshotSig
<1>2. now \in Nat /\ body.type = "snapshot"
  BY DEF IInv, Types, Reading, ReadSnapshotSig
<1>3. FreshRests'
  <2> SUFFICES ASSUME snapshot_state' = "Fresh"
               PROVE  /\ AuthoritySigned(snapshot)' /\ snapshot'.type = "snapshot"
                      /\ loaded_at' \in Nat /\ loaded_at' <= snapshot'.expires_at
    BY DEF FreshRests
  <2>1. Verified(body, sidecar) /\ ~(now > body.expires_at)
    BY DEF ReadSnapshotSig, is_expired
  <2>2. AuthoritySigned(body)
    BY <2>1, VerifiedIsAuthority
  <2>3. body.expires_at \in Nat
    <3>1. Means([key |-> Publisher, body |-> body])
      BY <2>2 DEF IInv, AuthoritySigned
    <3> QED
      BY <1>2, <3>1, RegistryAssumption DEF Means
  <2>4. now <= body.expires_at
    BY <2>1, <2>3, <1>2
  <2>5. AuthoritySigned(snapshot)'
    BY <1>1, <2>2 DEF AuthoritySigned, authority
  <2> QED
    BY <1>1, <1>2, <2>4, <2>5
<1>4. EntryRests' /\ Reading'
  BY <1>1 DEF IInv, EntryRests, Reading, AuthoritySigned, authority
<1>5. loaded_at' \in Nat \cup {None}
  BY <1>1, <1>2
<1> QED
  BY <1>1, <1>3, <1>4, <1>5, SameAuthority DEF IInv

LEMMA ReloadIInv == ASSUME IInv, Reload PROVE IInv'
<1>1. UNCHANGED authority /\ loaded_at' \in Nat \cup {None}
  BY DEF Reload
<1>2. FreshRests' /\ EntryRests' /\ Reading'
  BY DEF Reload, FreshRests, EntryRests, Reading
<1> QED
  BY <1>1, <1>2, SameAuthority DEF IInv

\* Every step preserves the invariant.
LEMMA StepIInv == ASSUME IInv, [Next]_vars PROVE IInv'
<1>1. CASE UNCHANGED vars
  <2>1. UNCHANGED authority /\ UNCHANGED <<pc, body, entry, snapshot, snapshot_state, loaded_at>>
    BY <1>1 DEF vars, registry
  <2>2. FreshRests' /\ EntryRests' /\ Reading' /\ loaded_at' \in Nat \cup {None}
    BY <2>1 DEF IInv, Types, FreshRests, EntryRests, Reading, AuthoritySigned, authority
  <2> QED
    BY <2>1, <2>2, SameAuthority DEF IInv
<1>2. ASSUME NEW s \in Status, Decide(s) PROVE IInv'
  BY <1>2, DecideIInv
<1>3. ASSUME NEW k \in Keys, NEW b \in Bodies, Sign(k, b) PROVE IInv'
  BY <1>3, SignIInv
<1>4. ASSUME NEW sidecar \in Sidecars, ReadEntrySig(sidecar) PROVE IInv'
  BY <1>4, ReadEntrySigIInv
<1>5. ASSUME NEW sidecar \in Sidecars, ReadSnapshotSig(sidecar) PROVE IInv'
  BY <1>5, ReadSnapshotSigIInv
<1> QED
  BY <1>1, <1>2, <1>3, <1>4, <1>5, TickIInv, ReadIInv, ReloadIInv DEF Next

\* The inductive invariant holds in every reachable state.
THEOREM RegistryInvariant == Spec => []IInv
<1>1. Init => IInv
  BY InitIInv
<1>2. IInv /\ [Next]_vars => IInv'
  BY StepIInv
<1> QED
  BY <1>1, <1>2, PTL DEF Spec

\* A revocation older than the validity period is never hidden at a load.
THEOREM RegistryRevocationBound == Spec => []RevocationBound
<1>1. IInv => RevocationBound
  <2> SUFFICES ASSUME IInv, fresh_status \in Status \ {"Revoked"}, revoked_at # None
               PROVE  loaded_at <= revoked_at + Validity
    BY DEF RevocationBound
  <2>1. snapshot_state = "Fresh" /\ snapshot.status # "Revoked"
    BY RegistryAssumption DEF fresh_status, Status
  <2>2. /\ AuthoritySigned(snapshot) /\ snapshot.type = "snapshot"
        /\ loaded_at \in Nat /\ loaded_at <= snapshot.expires_at
    BY <2>1 DEF IInv, FreshRests
  <2>3. Means([key |-> Publisher, body |-> snapshot])
    BY <2>2 DEF IInv, AuthoritySigned
  <2>4. /\ snapshot.generated_at \in Nat
        /\ snapshot.expires_at = snapshot.generated_at + Validity
        /\ snapshot.generated_at <= revoked_at
    BY <2>1, <2>2, <2>3 DEF Means
  <2>5. revoked_at \in Nat
    BY DEF IInv, Types
  <2> QED
    BY <2>2, <2>4, <2>5, RegistryAssumption
<1> QED
  BY <1>1, RegistryInvariant, PTL

\* Fresh statuses and verified entries carry the authority's signature.
THEOREM RegistryReportedIsSigned == Spec => []ReportedIsSigned
<1>1. IInv => ReportedIsSigned
  BY DEF IInv, FreshRests, EntryRests, AuthoritySigned, ReportedIsSigned, fresh_status
<1> QED
  BY <1>1, RegistryInvariant, PTL
\* Every variable keeps its type, and the load holds a body exactly between
\* reading a file and judging its sidecar, whatever the mirror serves.
THEOREM RegistryTypeCorrect == Spec => []TypeOK
<1>1. Init => TypeOK
  BY RegistryAssumption DEF Init, TypeOK, Status
<1>2. ASSUME TypeOK, [Next]_vars PROVE TypeOK'
  <2> USE <1>2
  <2>1. ASSUME NEW s \in Status, Decide(s) PROVE TypeOK'
    BY <2>1 DEF TypeOK, Decide, registry
  <2>2. ASSUME NEW k \in Keys, NEW b \in Bodies, Sign(k, b) PROVE TypeOK'
    <3>1. [key |-> k, body |-> b] \in [key: Keys, body: Bodies]
      OBVIOUS
    <3>2. signed' = signed \cup {[key |-> k, body |-> b]}
      BY <2>2 DEF Sign
    <3>3. signed' \in SUBSET [key: Keys, body: Bodies]
      BY <3>1, <3>2, ZenonT(20) DEF TypeOK
    <3> QED
      BY <2>2, <3>3 DEF TypeOK, Sign, registry
  <2>3. CASE Tick
    <3>1. now \in 0..MaxTime /\ now < MaxTime /\ now' = now + 1
      BY <2>3 DEF TypeOK, Tick
    <3>2. MaxTime \in Nat
      BY RegistryAssumption
    <3>3. now' \in 0..MaxTime
      BY <3>1, <3>2
    <3> QED
      BY <2>3, <3>3 DEF TypeOK, Tick, registry
  <2>4. CASE SkipEntry
    BY <2>4 DEF TypeOK, SkipEntry, authority, registry
  <2>5. CASE ReadEntry \/ ReadSnapshot
    <3>1. body' \in Bodies
      BY <2>5 DEF TypeOK, ReadEntry, ReadSnapshot, Published
    <3>2. body' # None
      BY <3>1, RegistryAssumption
    <3>3. pc' \in {"entry sig", "snapshot sig"} /\ UNCHANGED <<authority, registry>>
      BY <2>5 DEF ReadEntry, ReadSnapshot
    <3> QED
      BY <3>1, <3>2, <3>3 DEF TypeOK, authority, registry
  <2>6. ASSUME NEW sidecar \in Sidecars, ReadEntrySig(sidecar) PROVE TypeOK'
    <3>1. body \in Bodies
      BY <2>6 DEF TypeOK, ReadEntrySig
    <3>2. check_sidecar(sidecar) \in {"Verified", "Untrusted", "Missing"}
      BY DEF check_sidecar
    <3>3. entry' \in Entries
      BY <2>6, <3>1, <3>2 DEF ReadEntrySig, Entries
    <3> QED
      BY <2>6, <3>3 DEF TypeOK, ReadEntrySig, authority
  <2>7. ASSUME NEW file \in {None, Garbage}, NoSnapshot(file) PROVE TypeOK'
    BY <2>7 DEF TypeOK, NoSnapshot, authority
  <2>8. ASSUME NEW sidecar \in Sidecars, ReadSnapshotSig(sidecar) PROVE TypeOK'
    <3>1. body \in Bodies
      BY <2>8 DEF TypeOK, ReadSnapshotSig
    <3> QED
      BY <2>8, <3>1 DEF TypeOK, ReadSnapshotSig, authority
  <2>9. CASE Reload
    BY <2>9 DEF TypeOK, Reload, authority
  <2>10. CASE UNCHANGED vars
    BY <2>10 DEF TypeOK, vars, authority, registry
  <2> QED
    BY <2>1, <2>2, <2>3, <2>4, <2>5, <2>6, <2>7, <2>8, <2>9, <2>10 DEF Next
<1> QED
  BY <1>1, <1>2, PTL DEF Spec

-----------------------------------------------------------------------------
(* Attested builds.                                                         *)

\* A token's own stage: a record whose quote covers its claims.
Claims(c) ==
    c = [platform |-> c.platform, value_x |-> c.value_x, source_hash |-> c.source_hash,
         artifact_hash |-> c.artifact_hash, key |-> c.key, nonce |-> c.nonce]
SignedToken(t) ==
    /\ t \in Seq(ToSet(t)) /\ t # << >>
    /\ t[1] = [claims |-> t[1].claims, quote |-> t[1].quote] /\ Claims(t[1].claims)
    /\ t[1].quote[1] = t[1].claims

\* Where a command is: past the quote, Value X, the artifact's hash, the second
\* rehash, the build.
PastQuote ==
    {"sequence", "number", "json", "json2", "cbor", "cbor2", "copyout", "log", "serving"}
PastValueX == PastQuote \cup {"quote"}
PastArtifact == PastValueX \cup {"valuex"}
PastRehash == PastArtifact \cup {"artifact"}
PastBuild == PastRehash \cup {"post"}

RunFields ==
    {"pc", "runs", "hash", "frozen", "compiled", "rewrote", "linger", "hashed", "art", "a", "x", "seq", "token"}
AtRest(r) == r.pc = "idle" /\ r.runs \in Nat
Underway(r) == DOMAIN r = RunFields /\ r.runs \in Nat \ {0}

\* The token of one run of a build or an enclave.
Receipt(p, r) ==
    LET claims == [platform |-> PlatformOf[p], value_x |-> r.x, source_hash |-> r.hash,
                   artifact_hash |-> r.a, key |-> IF p \in Builders THEN Nothing ELSE <<p, r.runs>>,
                   nonce |-> <<p, r.runs>>]
    IN  <<[claims |-> claims, quote |-> <<claims, << >>>>]>>

\* The ratchet, tooth by tooth: what each step of a build has tied together.
Ratchet(p, r) ==
    /\ r.pc \in {"hash", "copy", "build"} \cup PastBuild
    /\ r.pc \notin PastBuild => ~r.linger /\ ~r.rewrote
    /\ r.pc = "build" /\ p \in Builders => r.frozen = r.hash
    /\ r.pc \in PastBuild =>
          /\ p \in Builders => r.compiled = r.hash
          /\ ~r.linger => r.art = r.compiled /\ (~r.rewrote => r.frozen = r.compiled)
    /\ r.pc \in PastRehash /\ ~r.linger => r.frozen = r.hash
    /\ p \in Builders => r.hashed
    /\ r.pc \in PastArtifact /\ ~r.linger => r.a = IF r.hashed THEN r.compiled ELSE Zeros
    /\ r.pc \in PastValueX /\ ~r.linger => r.x = r.hash
    /\ r.token = IF r.pc \in PastQuote THEN Receipt(p, r) ELSE << >>
Making(p, r) == AtRest(r) \/ (Underway(r) /\ Ratchet(p, r))

\* A runtime holds a chain of one tree; from its own quote on, one of its key.
Running(p, r) ==
    \/ AtRest(r)
    \/ /\ Underway(r) /\ r.pc \in {"hash", "drift", "stage1", "stage1b", "certify", "serving"}
       /\ SignedToken(r.token) /\ OneChain(r.token)
       /\ r.pc \notin {"hash", "drift"} => Len(r.token) > 1 /\ r.token[1].claims.key = <<p, r.runs>>

Commands ==
    /\ DOMAIN proc = Procs
    /\ \A p \in Makers : Making(p, proc[p])
    /\ \A p \in Runners : Running(p, proc[p])

\* The key of a run that has begun.
Keyed(k) ==
    /\ k = <<k[1], k[2]>> /\ k[1] \in Procs
    /\ k[2] \in Nat \ {0} /\ k[2] <= proc[k[1]].runs

\* The claims a receipt shows are those of its binding.
Projects(j) ==
    /\ j.value_x = j.binding[1].value_x /\ j.source_hash = j.binding[1].source_hash
    /\ j.artifact_hash = j.binding[1].artifact_hash /\ j.platform = j.binding[1].platform
Written ==
    /\ DOMAIN out = {"sequence", "json", "cbor", "artifact", "stage1"}
    /\ out.json \notin {Nothing, Torn} => Projects(out.json)
    /\ out.cbor \notin {Nothing, Torn} => SignedToken(out.cbor) /\ out.cbor[1].claims.key = Nothing
    /\ out.stage1 \notin {Nothing, Torn} => SignedToken(out.stage1)

\* A certificate is of a run that serves or is over.
Served(c) ==
    /\ c = [key |-> c.key, token |-> c.token]
    /\ SignedToken(c.token) /\ c.token[1].claims.key = c.key
    /\ Keyed(c.key)
    /\ c.key[2] = proc[c.key[1]].runs => proc[c.key[1]].pc \in {"serving", "idle"}
    /\ c.key[1] \in Runners => Len(c.token) > 1 /\ OneChain(c.token)
Certified == \A c \in certs : Served(c)

\* The runtime token on disk is that of its run, and of no other key.
Chained ==
    out.stage1 \notin {Nothing, Torn} =>
       LET k == out.stage1[1].claims.key IN
       /\ Keyed(k) /\ k[1] \in Runners
       /\ k[2] = proc[k[1]].runs =>
             /\ proc[k[1]].pc \in {"certify", "serving", "idle"}
             /\ proc[k[1]].pc = "certify" => proc[k[1]].token = out.stage1
       /\ \A c \in certs : c.key = k => c.token = out.stage1

ReadPair ==
    /\ DOMAIN read = {"json", "cbor", "artifact", "pass"}
    /\ read.json # Nothing => Projects(read.json)
    /\ VerifiedPair

CheckedServed ==
    checked # Nothing => checked.cert \in certs /\ OneChain(checked.cert.token)

BuildInv == Commands /\ Written /\ Certified /\ Chained /\ ReadPair /\ CheckedServed

-----------------------------------------------------------------------------
(* Tokens.                                                                  *)

LEMMA ReceiptSigned ==
    ASSUME NEW p, NEW r
    PROVE  SignedToken(Receipt(p, r)) /\ Receipt(p, r) # << >>
           /\ Receipt(p, r)[1].claims.key = (IF p \in Builders THEN Nothing ELSE <<p, r.runs>>)
<1> DEFINE cl == [platform |-> PlatformOf[p], value_x |-> r.x, source_hash |-> r.hash,
                  artifact_hash |-> r.a, key |-> IF p \in Builders THEN Nothing ELSE <<p, r.runs>>,
                  nonce |-> <<p, r.runs>>]
           st == [claims |-> cl, quote |-> <<cl, << >>>>]
<1>1. Claims(cl) /\ cl.key = IF p \in Builders THEN Nothing ELSE <<p, r.runs>>
  BY DEF Claims
<1>2. Receipt(p, r) = <<st>>
  BY DEF Receipt
<1> HIDE DEF cl
<1>3. st.claims = cl /\ st.quote[1] = cl /\ st = [claims |-> st.claims, quote |-> st.quote]
  OBVIOUS
<1> HIDE DEF st
<1>4. <<st>>[1] = st /\ <<st>> # << >> /\ <<st>> \in Seq({st}) /\ ToSet(<<st>>) = {st}
  BY DEF ToSet
<1> QED
  BY <1>1, <1>2, <1>3, <1>4 DEF SignedToken

\* A stage in front of a chain of its Value X makes a longer one.
LEMMA ChainGrows ==
    ASSUME NEW t, SignedToken(t), OneChain(t), NEW cl, Claims(cl),
           cl.value_x = t[1].claims.value_x
    PROVE  LET st == [claims |-> cl, quote |-> binding_bytes(cl, t)]
               longer == <<st>> \o t
           IN  /\ SignedToken(longer) /\ OneChain(longer)
               /\ Len(longer) > 1 /\ longer[1].claims = cl
<1> DEFINE st == [claims |-> cl, quote |-> binding_bytes(cl, t)]
           longer == <<st>> \o t
           S == {st} \cup ToSet(t)
<1>1. t \in Seq(S) /\ <<st>> \in Seq(S) /\ Len(t) \in Nat /\ t # << >> /\ Len(t) > 0
  BY DEF SignedToken, ToSet
<1>2. st.claims = cl /\ st.quote = <<cl, t>>
      /\ st = [claims |-> st.claims, quote |-> st.quote]
  BY DEF binding_bytes
<1> HIDE DEF st
<1>3. /\ longer \in Seq(S) /\ Len(longer) = 1 + Len(t) /\ longer[1] = st
      /\ \A i \in 2 .. Len(longer) : longer[i] = t[i - 1]
  BY <1>1
<1> HIDE DEF S, longer
<1>4. longer \in Seq(ToSet(longer))
  BY <1>3 DEF ToSet
<1>5. Previous(longer, 1) = t
  <2>1. SubSeq(longer, 2, Len(longer)) = [i \in 1 .. Len(t) |-> longer[i + 1]]
    BY <1>1, <1>3
  <2>2. \A i \in 1 .. Len(t) : longer[i + 1] = t[i]
    BY <1>1, <1>3
  <2>3. t = [i \in 1 .. Len(t) |-> t[i]]
    BY <1>1
  <2>4. Previous(longer, 1) = SubSeq(longer, 2, Len(longer))
    BY DEF Previous
  <2> QED
    BY <2>1, <2>2, <2>3, <2>4
<1>6. ASSUME NEW i \in 2 .. Len(longer) PROVE Previous(longer, i) = Previous(t, i - 1)
  <2>1. i \in Nat /\ i - 1 \in 1 .. Len(t) /\ Len(longer) = Len(t) + 1
    BY <1>1, <1>3
  <2>2. SubSeq(longer, i + 1, Len(longer)) = [j \in 1 .. Len(t) + 1 - i |-> longer[j + i]]
    <3>1. SubSeq(longer, i + 1, Len(longer))
             = [j \in 1 .. (Len(longer) - (i + 1)) + 1 |-> longer[(j + (i + 1)) - 1]]
      BY <1>1, <1>3, <2>1
    <3>2. (Len(longer) - (i + 1)) + 1 = Len(t) + 1 - i
      BY <1>1, <2>1
    <3>3. \A j \in 1 .. Len(t) + 1 - i : (j + (i + 1)) - 1 = j + i
      BY <1>1, <2>1
    <3> QED
      BY <3>1, <3>2, <3>3
  <2>3. SubSeq(t, i, Len(t)) = [j \in 1 .. Len(t) + 1 - i |-> t[j + i - 1]]
    BY <1>1, <2>1
  <2>4. \A j \in 1 .. Len(t) + 1 - i : longer[j + i] = t[j + i - 1]
    BY <1>1, <1>3, <2>1
  <2>5. (i - 1) + 1 = i
    BY <2>1
  <2> QED
    BY <2>2, <2>3, <2>4, <2>5 DEF Previous
<1>7. ASSUME NEW i \in 1 .. Len(longer)
      PROVE  /\ verify_platform_quote(longer[i], Previous(longer, i))
             /\ longer[i].claims.value_x = longer[1].claims.value_x
  <2>1. CASE i = 1
    BY <1>2, <1>3, <1>5, <2>1 DEF verify_platform_quote, binding_bytes
  <2>2. CASE i # 1
    <3>1. i \in 2 .. Len(longer) /\ i - 1 \in 1 .. Len(t) /\ longer[i] = t[i - 1]
      BY <1>1, <1>3, <2>2
    <3>2. /\ verify_platform_quote(t[i - 1], Previous(t, i - 1))
          /\ t[i - 1].claims.value_x = t[1].claims.value_x
      BY <3>1 DEF OneChain
    <3> QED
      BY <1>2, <1>3, <1>6, <3>1, <3>2
  <2> QED
    BY <2>1, <2>2
<1>8. SignedToken(longer)
  BY <1>1, <1>2, <1>3, <1>4 DEF SignedToken
<1>9. OneChain(longer) /\ Len(longer) > 1 /\ longer[1].claims = cl
  BY <1>1, <1>2, <1>3, <1>7 DEF OneChain
<1> QED
  BY <1>8, <1>9 DEF longer, st

\* A quote covers the key: whoever replaces it in a token breaks the quote.
LEMMA KeyCovered ==
    ASSUME NEW t, SignedToken(t), NEW k, OneChain([t EXCEPT ![1].claims.key = k])
    PROVE  k = t[1].claims.key /\ [t EXCEPT ![1].claims.key = k] = t
<1> DEFINE cl == t[1].claims
           other == [t EXCEPT ![1].claims.key = k]
<1>1. t \in Seq(ToSet(t)) /\ Len(t) \in Nat /\ Len(t) > 0 /\ 1 \in DOMAIN t
  BY DEF SignedToken
<1>2. /\ DOMAIN other = DOMAIN t /\ other[1] = [t[1] EXCEPT !.claims = [cl EXCEPT !.key = k]]
      /\ \A i \in DOMAIN t : i # 1 => other[i] = t[i]
  BY <1>1
<1>3. t[1] = [claims |-> cl, quote |-> t[1].quote] /\ Claims(cl) /\ t[1].quote[1] = cl
  BY DEF SignedToken
<1>4. other[1] = [claims |-> [cl EXCEPT !.key = k], quote |-> t[1].quote]
  BY <1>2, <1>3
<1>5. Len(other) = Len(t)
  <2> DEFINE V == {other[i] : i \in DOMAIN t}
  <2>1. other \in [1 .. Len(t) -> V]
    BY <1>1
  <2> HIDE DEF V, other
  <2>2. other \in Seq(V)
    BY <1>1, <2>1
  <2> QED
    BY <1>1, <2>1, <2>2
<1>12. OneChain(other)
  OBVIOUS
<1> HIDE DEF other
<1>6. verify_platform_quote(other[1], Previous(other, 1))
  BY <1>1, <1>5, <1>12 DEF OneChain
<1>7. t[1].quote[1] = [cl EXCEPT !.key = k]
  BY <1>4, <1>6 DEF verify_platform_quote, binding_bytes
<1>8. [cl EXCEPT !.key = k].key = k
  BY <1>3 DEF Claims
<1>9. k = cl.key
  BY <1>3, <1>7, <1>8
<1>10. other[1] = t[1]
  BY <1>3, <1>4, <1>7
<1>11. other = t
  <2>1. t = [i \in DOMAIN t |-> t[i]]
    BY <1>1
  <2>2. other = [i \in DOMAIN t |-> other[i]]
    BY Zenon DEF other
  <2>3. \A i \in DOMAIN t : other[i] = t[i]
    BY <1>2, <1>10
  <2> QED
    BY <2>1, <2>2, <2>3
<1> QED
  BY <1>9, <1>11 DEF other
-----------------------------------------------------------------------------
(* One command moves.                                                       *)

\* A run that serves or has ended stays so until the next one begins.
Moves(r, s) ==
    \/ s.runs = r.runs + 1
    \/ /\ s.runs = r.runs
       /\ r.pc \in {"idle", "serving"} => s.pc = "idle"
       /\ r.pc = "certify" => s.pc \in {"serving", "idle"}

LEMMA RunsCounted ==
    ASSUME Commands, NEW p \in Procs PROVE proc[p].runs \in Nat
<1>1. Making(p, proc[p]) \/ Running(p, proc[p])
  BY DEF Commands, Procs
<1> QED
  BY <1>1 DEF Making, Running, AtRest, Underway

\* What a step of one command needs to show.
LEMMA CommandMoves ==
    ASSUME BuildInv, NEW p \in Procs, NEW s, proc' = [proc EXCEPT ![p] = s],
           p \in Makers => Making(p, s), p \in Runners => Running(p, s), Moves(proc[p], s),
           UNCHANGED <<read, checked>>, Written',
           certs \subseteq certs', \A c \in certs' \ certs : Served(c)',
           \/ Chained'
           \/ /\ out'.stage1 = out.stage1
              /\ out.stage1 \notin {Nothing, Torn} =>
                    \A c \in certs' \ certs :
                       c.key = out.stage1[1].claims.key => c.token = out.stage1
    PROVE  BuildInv'
<1>1. Commands /\ Certified /\ Chained /\ DOMAIN proc = Procs
  BY DEF BuildInv, Commands
<1>2. /\ DOMAIN proc' = Procs /\ proc'[p] = s
      /\ \A u \in Procs : u # p => proc'[u] = proc[u]
  BY <1>1
<1>3. Commands'
  BY <1>1, <1>2 DEF Commands, Procs, Makers
<1>4. proc[p].runs \in Nat /\ s.runs \in Nat /\ proc[p].runs <= s.runs
  BY <1>1, RunsCounted DEF Moves
<1>5. ASSUME NEW k, Keyed(k)
      PROVE  /\ Keyed(k)'
             /\ k[2] = proc'[k[1]].runs /\ k[1] = p =>
                   k[2] = proc[p].runs /\ s.runs = proc[p].runs
  <2>1. k[1] \in Procs /\ k[2] \in Nat /\ k[2] <= proc[k[1]].runs /\ proc[k[1]].runs \in Nat
    BY <1>1, <1>5, RunsCounted DEF Keyed
  <2>2. CASE k[1] = p
    <3>1. k[2] <= s.runs
      BY <1>4, <2>1, <2>2
    <3>2. k[2] = s.runs => s.runs = proc[p].runs
      BY <1>4, <2>1, <2>2
    <3> QED
      BY <1>2, <1>5, <2>2, <3>1, <3>2 DEF Keyed
  <2>3. CASE k[1] # p
    BY <1>2, <1>5, <2>1, <2>3 DEF Keyed
  <2> QED
    BY <2>2, <2>3
<1>6. s.runs = proc[p].runs =>
         /\ proc[p].pc \in {"idle", "serving"} => s.pc = "idle"
         /\ proc[p].pc = "certify" => s.pc \in {"serving", "idle"}
  BY <1>4 DEF Moves
<1>7. Certified'
  <2> SUFFICES ASSUME NEW c \in certs PROVE Served(c)'
    BY DEF Certified
  <2>1. /\ c = [key |-> c.key, token |-> c.token]
        /\ SignedToken(c.token) /\ c.token[1].claims.key = c.key /\ Keyed(c.key)
        /\ c.key[2] = proc[c.key[1]].runs => proc[c.key[1]].pc \in {"serving", "idle"}
        /\ c.key[1] \in Runners => Len(c.token) > 1 /\ OneChain(c.token)
    BY <1>1 DEF Certified, Served
  <2>2. Keyed(c.key)' /\ c.key[1] \in Procs
    BY <1>5, <2>1 DEF Keyed
  <2>3. c.key[2] = proc'[c.key[1]].runs => proc'[c.key[1]].pc \in {"serving", "idle"}
    <3>1. CASE c.key[1] = p
      BY <1>2, <1>5, <1>6, <2>1, <3>1
    <3>2. CASE c.key[1] # p
      BY <1>2, <2>1, <2>2, <3>2
    <3> QED
      BY <3>1, <3>2
  <2> QED
    BY <2>1, <2>2, <2>3 DEF Served
<1>8. Chained'
  <2> DEFINE k == out.stage1[1].claims.key
  <2> SUFFICES ASSUME out.stage1 \notin {Nothing, Torn}, out'.stage1 = out.stage1,
                      \A c \in certs' \ certs : c.key = k => c.token = out.stage1
               PROVE  /\ Keyed(k)' /\ k[1] \in Runners
                      /\ k[2] = proc'[k[1]].runs =>
                            /\ proc'[k[1]].pc \in {"certify", "serving", "idle"}
                            /\ proc'[k[1]].pc = "certify" => proc'[k[1]].token = out.stage1
                      /\ \A c \in certs' : c.key = k => c.token = out.stage1
    BY DEF Chained, Keyed
  <2>1. /\ Keyed(k) /\ k[1] \in Runners
        /\ k[2] = proc[k[1]].runs =>
              /\ proc[k[1]].pc \in {"certify", "serving", "idle"}
              /\ proc[k[1]].pc = "certify" => proc[k[1]].token = out.stage1
        /\ \A c \in certs : c.key = k => c.token = out.stage1
    BY <1>1 DEF Chained
  <2>2. Keyed(k)' /\ k[1] \in Procs
    BY <1>5, <2>1 DEF Keyed
  <2> HIDE DEF k
  <2>3. CASE k[1] = p
    BY <1>2, <1>5, <1>6, <2>1, <2>2, <2>3
  <2>4. CASE k[1] # p
    BY <1>2, <2>1, <2>2, <2>4
  <2> QED
    BY <2>3, <2>4
<1>9. ReadPair' /\ CheckedServed'
  BY DEF BuildInv, ReadPair, VerifiedPair, CheckedServed
<1> QED
  BY <1>3, <1>7, <1>8, <1>9 DEF BuildInv

LEMMA StepMoves ==
    ASSUME BuildInv, NEW p \in Procs, NEW s, Step(p, s),
           p \in Makers => Making(p, s), p \in Runners => Running(p, s), Moves(proc[p], s)
    PROVE  BuildInv'
<1>1. proc' = [proc EXCEPT ![p] = s] /\ UNCHANGED <<out, certs, read, checked>>
  BY DEF Step, outputs
<1>2. Written'
  BY <1>1 DEF BuildInv, Written
<1> QED
  BY <1>1, <1>2, CommandMoves

LEMMA AbortKeeps == ASSUME BuildInv, NEW p \in Procs, Abort(p) PROVE BuildInv'
<1> DEFINE s == [pc |-> "idle", runs |-> proc[p].runs]
<1>1. [Idle EXCEPT !.runs = proc[p].runs] = s
  BY DEF Idle
<1>2. Step(p, s)
  BY <1>1 DEF Abort, Step
<1>3. proc[p].runs \in Nat
  BY RunsCounted DEF BuildInv
<1>4. AtRest(s) /\ Moves(proc[p], s)
  BY <1>3 DEF AtRest, Moves
<1> QED
  BY <1>2, <1>4, StepMoves DEF Making, Running

LEMMA MakerNextKeeps == ASSUME BuildInv, NEW p \in Makers, MakerNext(p) PROVE BuildInv'
<1> DEFINE r == proc[p]
<1>1. p \in Procs /\ p \notin Runners /\ Making(p, r) /\ r.runs \in Nat
  BY BuildAssumption, RunsCounted DEF BuildInv, Commands, Procs
<1>2. ASSUME NEW s, Step(p, s), Making(p, s), Moves(r, s) PROVE BuildInv'
  BY <1>1, <1>2, StepMoves
<1>3. r.pc # "idle" => Underway(r) /\ Ratchet(p, r)
  BY <1>1 DEF Making, AtRest
<1> USE DEF PastBuild, PastRehash, PastArtifact, PastValueX, PastQuote
<1>4. CASE BuildStart(p)
  <2>1. Step(p, Fresh(p))
    BY <1>4 DEF BuildStart
  <2>2. Making(p, Fresh(p)) /\ Moves(r, Fresh(p))
    BY <1>1 DEF Fresh, Making, Underway, RunFields, Ratchet, Moves
  <2> QED
    BY <1>2, <2>1, <2>2
<1>5. CASE HashFile(p, "copy")
  <2> DEFINE h == Append(r.hash, tree[Len(r.hash) + 1])
             s == [r EXCEPT !.hash = h, !.pc = IF Len(h) = NFiles THEN "copy" ELSE @]
  <2>1. Step(p, s) /\ r.pc = "hash"
    BY <1>5 DEF HashFile
  <2> HIDE DEF h
  <2>2. /\ Underway(s) /\ s.pc = (IF Len(h) = NFiles THEN "copy" ELSE r.pc)
        /\ s.runs = r.runs /\ s.hash = h /\ s.frozen = r.frozen
        /\ s.compiled = r.compiled /\ s.rewrote = r.rewrote /\ s.linger = r.linger
        /\ s.hashed = r.hashed /\ s.art = r.art /\ s.a = r.a /\ s.x = r.x /\ s.seq = r.seq /\ s.token = r.token
    BY <1>3, <2>1 DEF Underway, RunFields
  <2> HIDE DEF r, s
  <2>3. Ratchet(p, s)
    BY <1>3, <2>1, <2>2 DEF Ratchet
  <2>4. Making(p, s) /\ Moves(r, s)
    BY <1>3, <2>1, <2>2, <2>3 DEF Making, Ratchet, Moves
  <2> QED
    BY <1>2, <2>1, <2>4
<1>6. ASSUME NEW f \in Files, copy_dir_readonly(p, f) PROVE BuildInv'
  <2> DEFINE z == [g \in DOMAIN r.frozen \cup {f} |-> IF g = f THEN tree[f] ELSE r.frozen[g]]
             whole == DOMAIN z = Files
             s == [r EXCEPT !.frozen = z, !.pc = IF whole THEN "build" ELSE "copy"]
  <2>1. r.pc = "copy" /\ IF whole /\ ~SnapshotAccepted(p, z) THEN Abort(p) ELSE Step(p, s)
    BY <1>6 DEF copy_dir_readonly
  <2>2. SnapshotAccepted(p, z) /\ p \in Builders => z = r.hash
    BY DEF SnapshotAccepted
  <2> HIDE DEF z, whole
  <2>3. CASE Abort(p)
    BY <1>1, <2>3, AbortKeeps
  <2>4. CASE Step(p, s) /\ (whole => SnapshotAccepted(p, z))
    <3>1. /\ Underway(s) /\ s.pc = (IF whole THEN "build" ELSE "copy") /\ s.runs = r.runs
          /\ s.hash = r.hash /\ s.frozen = z /\ s.compiled = r.compiled
          /\ s.rewrote = r.rewrote /\ s.linger = r.linger /\ s.hashed = r.hashed /\ s.art = r.art /\ s.a = r.a
          /\ s.x = r.x /\ s.seq = r.seq /\ s.token = r.token
      BY <1>3, <2>1 DEF Underway, RunFields
    <3> HIDE DEF r, s
    <3>2. Ratchet(p, s)
      BY <1>3, <2>1, <3>1, <2>2, <2>4 DEF Ratchet
    <3>3. Making(p, s) /\ Moves(r, s)
      BY <1>3, <2>1, <3>1, <3>2 DEF Making, Ratchet, Moves
    <3> QED
      BY <1>2, <2>4, <3>3
  <2> QED
    BY <2>1, <2>3, <2>4
<1>7. ASSUME NEW t \in Trees, NEW linger \in BOOLEAN, Build(p, t, linger) PROVE BuildInv'
  <2> DEFINE s == [r EXCEPT !.pc = "post", !.compiled = r.frozen, !.art = r.frozen, !.frozen = t,
                            !.rewrote = (t # r.frozen), !.linger = linger]
  <2>1. Step(p, s) /\ r.pc = "build"
    BY <1>7 DEF Build
  <2>2. /\ Underway(s) /\ s.pc = "post" /\ s.runs = r.runs /\ s.hash = r.hash
        /\ s.frozen = t /\ s.compiled = r.frozen /\ s.rewrote = (t # r.frozen)
        /\ s.linger = linger /\ s.hashed = r.hashed /\ s.art = r.frozen /\ s.a = r.a /\ s.x = r.x
        /\ s.seq = r.seq /\ s.token = r.token
    BY <1>3, <2>1 DEF Underway, RunFields
  <2> HIDE DEF r, s
  <2>3. Ratchet(p, s)
    BY <1>3, <2>1, <2>2 DEF Ratchet
  <2>4. Making(p, s) /\ Moves(r, s)
    BY <1>3, <2>1, <2>2, <2>3 DEF Making, Ratchet, Moves
  <2> QED
    BY <1>2, <2>1, <2>4
<1>8. ASSUME NEW t \in Trees, NEW a \in Trees, Meddle(p, t, a) PROVE BuildInv'
  <2> DEFINE s == [r EXCEPT !.frozen = t, !.art = a]
  <2>1. Step(p, s) /\ r.pc \notin {"idle", "serving"} /\ r.linger
    BY <1>8 DEF Meddle
  <2>2. Receipt(p, s) = Receipt(p, r)
    BY <1>3, <2>1 DEF Receipt, Underway, RunFields
  <2>3. /\ Underway(s) /\ s.pc = r.pc /\ s.runs = r.runs /\ s.hash = r.hash
        /\ s.frozen = t /\ s.compiled = r.compiled /\ s.rewrote = r.rewrote
        /\ s.linger = r.linger /\ s.hashed = r.hashed /\ s.art = a /\ s.a = r.a /\ s.x = r.x /\ s.seq = r.seq
        /\ s.token = r.token
    BY <1>3, <2>1 DEF Underway, RunFields
  <2> HIDE DEF r, s
  <2>4. Ratchet(p, s)
    BY <1>3, <2>1, <2>3, <2>2 DEF Ratchet
  <2>5. Making(p, s) /\ Moves(r, s)
    BY <1>3, <2>1, <2>3, <2>4 DEF Making, Ratchet, Moves
  <2> QED
    BY <1>2, <2>1, <2>5
<1>9. CASE PostCheck(p)
  <2> DEFINE s == [r EXCEPT !.pc = "artifact"]
  <2>1. r.pc = "post" /\ IF r.frozen # r.hash THEN Abort(p) ELSE Step(p, s)
    BY <1>9 DEF PostCheck
  <2>2. CASE Abort(p)
    BY <1>1, <2>2, AbortKeeps
  <2>3. CASE r.frozen = r.hash /\ Step(p, s)
    <3>1. Making(p, s) /\ Moves(r, s)
      BY <1>3, <2>1, <2>3 DEF Making, Underway, RunFields, Ratchet, Moves
    <3> QED
      BY <1>2, <2>3, <3>1
  <2> QED
    BY <2>1, <2>2, <2>3
<1>10. ASSUME NEW hashed \in BOOLEAN, HashArtifact(p, hashed) PROVE BuildInv'
  <2> DEFINE s == [r EXCEPT !.pc = "valuex", !.hashed = hashed,
                            !.a = IF hashed THEN r.art ELSE Zeros]
  <2>1. Step(p, s) /\ r.pc = "artifact" /\ (p \in Builders => hashed)
    BY <1>10, BuildAssumption DEF HashArtifact
  <2>2. /\ Underway(s) /\ s.pc = "valuex" /\ s.runs = r.runs /\ s.hash = r.hash
        /\ s.frozen = r.frozen /\ s.compiled = r.compiled /\ s.rewrote = r.rewrote
        /\ s.linger = r.linger /\ s.hashed = hashed /\ s.art = r.art
        /\ s.a = (IF hashed THEN r.art ELSE Zeros) /\ s.x = r.x
        /\ s.seq = r.seq /\ s.token = r.token
    BY <1>3, <2>1 DEF Underway, RunFields
  <2> HIDE DEF r, s
  <2>3. Ratchet(p, s)
    BY <1>3, <2>1, <2>2 DEF Ratchet
  <2>4. Making(p, s) /\ Moves(r, s)
    BY <1>3, <2>1, <2>2, <2>3 DEF Making, Ratchet, Moves
  <2> QED
    BY <1>2, <2>1, <2>4
<1>11. CASE ComputeValueX(p)
  <2> DEFINE s == [r EXCEPT !.pc = "quote", !.x = r.frozen]
  <2>1. Step(p, s) /\ r.pc = "valuex"
    BY <1>11 DEF ComputeValueX
  <2>2. /\ Underway(s) /\ s.pc = "quote" /\ s.runs = r.runs /\ s.hash = r.hash
        /\ s.frozen = r.frozen /\ s.compiled = r.compiled /\ s.rewrote = r.rewrote
        /\ s.linger = r.linger /\ s.hashed = r.hashed /\ s.art = r.art /\ s.a = r.a /\ s.x = r.frozen
        /\ s.seq = r.seq /\ s.token = r.token
    BY <1>3, <2>1 DEF Underway, RunFields
  <2> HIDE DEF r, s
  <2>3. Ratchet(p, s)
    BY <1>3, <2>1, <2>2 DEF Ratchet
  <2>4. Making(p, s) /\ Moves(r, s)
    BY <1>3, <2>1, <2>2, <2>3 DEF Making, Ratchet, Moves
  <2> QED
    BY <1>2, <2>1, <2>4
<1> QED
  BY <1>4, <1>5, <1>6, <1>7, <1>8, <1>9, <1>10, <1>11 DEF MakerNext

\* Only the place of a maker that has its receipt changes, and its number.
LEMMA MovesOn ==
    ASSUME NEW p \in Makers, NEW r, Making(p, r), r.pc \in PastQuote \ {"serving"},
           NEW to \in PastQuote, NEW n
    PROVE  /\ Making(p, [r EXCEPT !.pc = to]) /\ Moves(r, [r EXCEPT !.pc = to])
           /\ Making(p, [r EXCEPT !.pc = to, !.seq = n]) /\ Moves(r, [r EXCEPT !.pc = to, !.seq = n])
           /\ Underway(r) /\ SignedToken(r.token)
           /\ r.token[1].claims.key = IF p \in Builders THEN Nothing ELSE <<p, r.runs>>
<1>1. Underway(r) /\ Ratchet(p, r) /\ r.token = Receipt(p, r)
  BY DEF Making, AtRest, PastQuote, Ratchet
<1>2. ASSUME NEW s, Underway(s), s.pc = to, s.runs = r.runs, s.hash = r.hash, s.frozen = r.frozen,
             s.compiled = r.compiled, s.rewrote = r.rewrote, s.linger = r.linger, s.hashed = r.hashed,
             s.art = r.art,
             s.a = r.a, s.x = r.x, s.token = r.token
      PROVE  Making(p, s) /\ Moves(r, s)
  <2>1. Receipt(p, s) = Receipt(p, r)
    BY <1>2 DEF Receipt
  <2>2. Ratchet(p, s)
    BY <1>1, <1>2, <2>1 DEF Ratchet, PastBuild, PastRehash, PastArtifact, PastValueX, PastQuote
  <2> QED
    BY <1>2, <2>2 DEF Making, Moves, PastQuote
<1>3. Making(p, [r EXCEPT !.pc = to]) /\ Moves(r, [r EXCEPT !.pc = to])
  BY <1>1, <1>2 DEF Underway, RunFields
<1>4. Making(p, [r EXCEPT !.pc = to, !.seq = n]) /\ Moves(r, [r EXCEPT !.pc = to, !.seq = n])
  <2> DEFINE s == [r EXCEPT !.pc = to, !.seq = n]
  <2>1. /\ Underway(s) /\ s.pc = to /\ s.runs = r.runs /\ s.hash = r.hash /\ s.frozen = r.frozen
        /\ s.compiled = r.compiled /\ s.rewrote = r.rewrote /\ s.linger = r.linger /\ s.hashed = r.hashed /\ s.art = r.art
        /\ s.a = r.a /\ s.x = r.x /\ s.token = r.token
    BY <1>1 DEF Underway, RunFields
  <2> HIDE DEF s
  <2>2. Making(p, s) /\ Moves(r, s)
    BY <1>2, <2>1
  <2> QED
    BY <2>2 DEF s
<1> QED
  BY <1>1, <1>3, <1>4, ReceiptSigned

\* A build writes a file of the output directory.
LEMMA BuilderWrites ==
    ASSUME BuildInv, NEW p \in Builders, NEW to \in PastQuote, NEW o, WriteOut(p, to, o),
           proc[p].pc \in PastQuote \ {"serving"}, Written', o.stage1 = out.stage1
    PROVE  BuildInv'
<1> DEFINE s == [proc[p] EXCEPT !.pc = to]
<1>1. p \in Makers /\ p \in Procs /\ p \notin Runners /\ Making(p, proc[p]) /\ DOMAIN proc = Procs
  BY BuildAssumption DEF BuildInv, Commands, Procs, Makers
<1>2. proc' = [proc EXCEPT ![p] = s] /\ out' = o /\ UNCHANGED <<certs, read, checked>>
  BY <1>1 DEF WriteOut, outputs
<1>3. Making(p, s) /\ Moves(proc[p], s)
  BY <1>1, MovesOn
<1> HIDE DEF s
<1> QED
  BY <1>1, <1>2, <1>3, CommandMoves

LEMMA BuilderKeeps == ASSUME BuildInv, NEW p \in Builders, cmd_build(p) PROVE BuildInv'
<1> DEFINE r == proc[p]
<1>1. p \in Makers /\ p \in Procs /\ p \notin Runners /\ Making(p, r) /\ DOMAIN proc = Procs
      /\ r.runs \in Nat
  BY BuildAssumption, RunsCounted DEF BuildInv, Commands, Procs, Makers
<1>2. Written
  BY DEF BuildInv
<1>3. r.pc # "idle" => Underway(r) /\ Ratchet(p, r)
  BY <1>1 DEF Making, AtRest
<1>4. CASE BuildQuote(p)
  <2> DEFINE s == [r EXCEPT !.token = Quote(p, Nothing), !.pc = "sequence"]
  <2>1. Step(p, s) /\ r.pc = "quote"
    BY <1>4 DEF BuildQuote
  <2>2. Quote(p, Nothing) = Receipt(p, r)
    BY DEF Quote, Receipt, from_build, binding_bytes
  <2>3. /\ Underway(s) /\ s.pc = "sequence" /\ s.runs = r.runs /\ s.hash = r.hash /\ s.frozen = r.frozen
        /\ s.compiled = r.compiled /\ s.rewrote = r.rewrote /\ s.linger = r.linger /\ s.hashed = r.hashed /\ s.art = r.art
        /\ s.a = r.a /\ s.x = r.x /\ s.token = Receipt(p, r)
    BY <1>3, <2>1, <2>2 DEF Underway, RunFields
  <2> HIDE DEF s, r
  <2>4. Receipt(p, s) = Receipt(p, r)
    BY <2>3 DEF Receipt
  <2>5. Ratchet(p, s)
    BY <1>3, <2>1, <2>3, <2>4 DEF Ratchet, PastBuild, PastRehash, PastArtifact, PastValueX, PastQuote
  <2>6. Making(p, s) /\ Moves(r, s)
    BY <2>1, <2>3, <2>5 DEF Making, Moves
  <2> QED
    BY <1>1, <2>1, <2>6, StepMoves DEF r
<1>5. CASE ReadSequence(p)
  <2>1. Step(p, [r EXCEPT !.pc = "number", !.seq = out.sequence + 1]) /\ r.pc = "sequence"
    BY <1>5 DEF ReadSequence
  <2> QED
    BY <1>1, <2>1, MovesOn, StepMoves DEF PastQuote
<1>6. ASSUME NEW w \in BOOLEAN, WriteSequence(p, w) PROVE BuildInv'
  <2>1. PICK o \in {out, [out EXCEPT !.sequence = r.seq]} : WriteOut(p, "json", o)
    BY <1>6 DEF WriteSequence
  <2>2. Written' /\ o.stage1 = out.stage1
    BY <1>2, <2>1 DEF Written, WriteOut
  <2> QED
    BY <1>6, <2>1, <2>2, BuilderWrites DEF WriteSequence, PastQuote
<1>7. CASE WriteJson(p)
  <2>1. Projects(View(p))
    BY DEF Projects, View, binding_bytes
  <2>2. CASE r.pc = "json" /\ WriteOut(p, "json2", [out EXCEPT !.json = Torn])
    <3>1. Written' /\ [out EXCEPT !.json = Torn].stage1 = out.stage1
      BY <1>2, <2>2 DEF Written, WriteOut
    <3> QED
      BY <2>2, <3>1, BuilderWrites DEF PastQuote
  <2>3. CASE r.pc = "json2" /\ WriteOut(p, "cbor", [out EXCEPT !.json = View(p)])
    <3>1. Written' /\ [out EXCEPT !.json = View(p)].stage1 = out.stage1
      BY <1>2, <2>1, <2>3 DEF Written, WriteOut
    <3> QED
      BY <2>3, <3>1, BuilderWrites DEF PastQuote
  <2> QED
    BY <1>7, <2>2, <2>3 DEF WriteJson
<1>8. CASE WriteCbor(p)
  <2>1. CASE r.pc = "cbor" /\ WriteOut(p, "cbor2", [out EXCEPT !.cbor = Torn])
    <3>1. Written' /\ [out EXCEPT !.cbor = Torn].stage1 = out.stage1
      BY <1>2, <2>1 DEF Written, WriteOut
    <3> QED
      BY <2>1, <3>1, BuilderWrites DEF PastQuote
  <2>2. CASE r.pc = "cbor2" /\ WriteOut(p, "copyout", [out EXCEPT !.cbor = r.token])
    <3>1. SignedToken(r.token) /\ r.token[1].claims.key = Nothing
      BY <1>1, <2>2, MovesOn DEF PastQuote
    <3>2. Written' /\ [out EXCEPT !.cbor = r.token].stage1 = out.stage1
      BY <1>2, <2>2, <3>1 DEF Written, WriteOut
    <3> QED
      BY <2>2, <3>2, BuilderWrites DEF PastQuote
  <2> QED
    BY <1>8, <2>1, <2>2 DEF WriteCbor
<1>9. ASSUME NEW file \in BOOLEAN, CopyArtifact(p, file) PROVE BuildInv'
  <2>1. PICK o \in {out, [out EXCEPT !.artifact = r.art]} : WriteOut(p, "log", o)
    BY <1>9 DEF CopyArtifact
  <2>2. Written' /\ o.stage1 = out.stage1
    BY <1>2, <2>1 DEF Written, WriteOut
  <2> QED
    BY <1>9, <2>1, <2>2, BuilderWrites DEF CopyArtifact, PastQuote
<1>10. ASSUME NEW g \in BOOLEAN, append_to_log(p, g) PROVE BuildInv'
  <2> DEFINE s == [pc |-> "idle", runs |-> r.runs]
  <2>0. [Idle EXCEPT !.runs = r.runs] = s
    BY DEF Idle
  <2>1. proc' = [proc EXCEPT ![p] = s] /\ UNCHANGED <<out, certs, read, checked>>
    BY <1>10, <2>0 DEF append_to_log
  <2>2. AtRest(s) /\ Moves(r, s)
    BY <1>1 DEF AtRest, Moves
  <2>3. Written'
    BY <1>2, <2>1 DEF Written
  <2> HIDE DEF s
  <2> QED
    BY <1>1, <2>1, <2>2, <2>3, CommandMoves DEF Making
<1> QED
  BY <1>1, <1>4, <1>5, <1>6, <1>7, <1>8, <1>9, <1>10, MakerNextKeeps DEF cmd_build

LEMMA EnclaveKeeps == ASSUME BuildInv, NEW p \in Enclaves, cmd_enclave(p) PROVE BuildInv'
<1> DEFINE r == proc[p]
           s == [r EXCEPT !.token = Receipt(p, r), !.pc = "serving"]
<1>1. p \in Makers /\ p \in Procs /\ p \notin Runners /\ p \notin Builders /\ Making(p, r)
      /\ DOMAIN proc = Procs /\ r.runs \in Nat /\ Written /\ Chained
  BY BuildAssumption, RunsCounted DEF BuildInv, Commands, Procs, Makers
<1>2. CASE EnclaveServe(p)
  <2>1. Quote(p, generate_keypair(p)) = Receipt(p, r)
    BY <1>1 DEF Quote, Receipt, from_build, binding_bytes, generate_keypair
  <2>2. /\ r.pc = "quote" /\ proc' = [proc EXCEPT ![p] = s]
        /\ certs' = certs \cup {[key |-> <<p, r.runs>>, token |-> Receipt(p, r)]} /\ UNCHANGED <<out, read, checked>>
    BY <1>1, <1>2, <2>1 DEF EnclaveServe, generate_keypair
  <2>3. Underway(r) /\ Ratchet(p, r)
    BY <1>1, <2>2 DEF Making, AtRest
  <2>4. /\ Underway(s) /\ s.pc = "serving" /\ s.runs = r.runs /\ s.hash = r.hash /\ s.frozen = r.frozen
        /\ s.compiled = r.compiled /\ s.rewrote = r.rewrote /\ s.linger = r.linger /\ s.hashed = r.hashed /\ s.art = r.art
        /\ s.a = r.a /\ s.x = r.x /\ s.token = Receipt(p, r)
    BY <2>3 DEF Underway, RunFields
  <2>5. Receipt(p, s) = Receipt(p, r)
    BY <2>4 DEF Receipt
  <2>6. proc'[p] = s
    BY <1>1, <2>2
  <2> HIDE DEF s, r
  <2>7. Ratchet(p, s)
    BY <1>1, <2>2, <2>3, <2>4, <2>5
    DEF Ratchet, PastBuild, PastRehash, PastArtifact, PastValueX, PastQuote
  <2>8. Making(p, s) /\ Moves(r, s)
    BY <2>2, <2>4, <2>7 DEF Making, Moves
  <2>9. ASSUME NEW c \in certs' \ certs
        PROVE  /\ Served(c)'
               /\ out.stage1 \notin {Nothing, Torn} => c.key # out.stage1[1].claims.key
    <3>1. c = [key |-> <<p, r.runs>>, token |-> Receipt(p, r)]
      BY <2>2
    <3>2. c.key = <<p, r.runs>> /\ c.token = Receipt(p, r) /\ c.key[1] = p /\ c.key[2] = r.runs
          /\ c = [key |-> c.key, token |-> c.token] /\ c.key = <<c.key[1], c.key[2]>>
      BY <3>1
    <3>3. SignedToken(c.token) /\ c.token[1].claims.key = c.key
      BY <1>1, <3>2, ReceiptSigned
    <3>4. Keyed(c.key)'
      BY <1>1, <2>3, <2>4, <2>6, <3>2 DEF Keyed, Underway
    <3>5. Served(c)'
      BY <1>1, <2>4, <2>6, <3>2, <3>3, <3>4 DEF Served
    <3> QED
      BY <1>1, <3>2, <3>5 DEF Chained
  <2>10. Written'
    BY <1>1, <2>2 DEF Written
  <2>11. Moves(proc[p], s)
    BY <2>8 DEF r
  <2> QED
    BY <1>1, <2>2, <2>8, <2>9, <2>10, <2>11, CommandMoves
<1> QED
  BY <1>1, <1>2, MakerNextKeeps DEF cmd_enclave

LEMMA RunnerKeeps == ASSUME BuildInv, NEW p \in Runners, cmd_run(p) PROVE BuildInv'
<1> DEFINE r == proc[p]
<1>1. p \in Procs /\ p \notin Makers /\ Running(p, r) /\ DOMAIN proc = Procs
      /\ r.runs \in Nat /\ Written /\ Chained /\ Certified
  BY BuildAssumption, RunsCounted DEF BuildInv, Commands, Procs
<1>2. ASSUME NEW s, Step(p, s), Running(p, s), Moves(r, s) PROVE BuildInv'
  BY <1>1, <1>2, StepMoves
<1>3. r.pc # "idle" =>
         /\ Underway(r) /\ r.pc \in {"hash", "drift", "stage1", "stage1b", "certify", "serving"}
         /\ SignedToken(r.token) /\ OneChain(r.token)
         /\ r.pc \notin {"hash", "drift"} =>
               Len(r.token) > 1 /\ r.token[1].claims.key = <<p, r.runs>>
  BY <1>1 DEF Running, AtRest
<1>4. ASSUME NEW file \in {"cbor", "stage1"}, RunStart(p, file) PROVE BuildInv'
  <2> DEFINE s == [Fresh(p) EXCEPT !.token = out[file]]
  <2>1. Step(p, s) /\ r.pc = "idle" /\ SignedToken(out[file]) /\ OneChain(out[file])
    BY <1>1, <1>4 DEF RunStart, Admitted, Written
  <2>2. Underway(s) /\ s.pc = "hash" /\ s.runs = r.runs + 1 /\ s.token = out[file]
    BY <1>1 DEF Fresh, Underway, RunFields
  <2> HIDE DEF s
  <2>3. Running(p, s) /\ Moves(r, s)
    BY <2>1, <2>2 DEF Running, Moves
  <2> QED
    BY <1>2, <2>1, <2>3
<1>5. CASE HashFile(p, "drift")
  <2> DEFINE h == Append(r.hash, tree[Len(r.hash) + 1])
             s == [r EXCEPT !.hash = h, !.pc = IF Len(h) = NFiles THEN "drift" ELSE @]
  <2>1. Step(p, s) /\ r.pc = "hash"
    BY <1>5 DEF HashFile
  <2> HIDE DEF h
  <2>2. Underway(s) /\ s.pc \in {"hash", "drift"} /\ s.runs = r.runs /\ s.token = r.token
    BY <1>3, <2>1 DEF Underway, RunFields
  <2> HIDE DEF s, r
  <2>3. Running(p, s) /\ Moves(r, s)
    BY <1>3, <2>1, <2>2 DEF Running, Moves
  <2> QED
    BY <1>2, <2>1, <2>3
<1>6. CASE RunQuote(p)
  <2> DEFINE prior == r.token[1].claims
             claims == from_build(p, r.hash, prior.source_hash, prior.artifact_hash,
                                  generate_keypair(p))
             stage == [claims |-> claims, quote |-> binding_bytes(claims, r.token)]
             t == <<stage>> \o r.token
             s == [r EXCEPT !.token = t, !.pc = "stage1"]
  <2>1. r.pc = "drift" /\ IF r.hash # prior.value_x THEN Abort(p) ELSE Step(p, s)
    BY <1>6 DEF RunQuote
  <2>2. CASE Abort(p)
    BY <1>1, <2>2, AbortKeeps
  <2>3. CASE r.hash = prior.value_x /\ Step(p, s)
    <3>1. Claims(claims) /\ claims.value_x = prior.value_x /\ claims.key = <<p, r.runs>>
      BY <2>3 DEF from_build, generate_keypair, Claims
    <3> HIDE DEF claims
    <3>2. SignedToken(t) /\ OneChain(t) /\ Len(t) > 1 /\ t[1].claims = claims
      BY <1>3, <2>1, <3>1, ChainGrows
    <3> HIDE DEF t
    <3>3. Underway(s) /\ s.pc = "stage1" /\ s.runs = r.runs /\ s.token = t
      BY <1>3, <2>1 DEF Underway, RunFields
    <3> HIDE DEF s, r
    <3>4. Running(p, s) /\ Moves(r, s)
      BY <2>1, <3>1, <3>2, <3>3 DEF Running, Moves
    <3> QED
      BY <1>2, <2>3, <3>4
  <2> QED
    BY <2>1, <2>2, <2>3
<1>7. ASSUME NEW to \in {"stage1b", "certify", "serving"}, r.pc \in {"stage1", "stage1b", "certify"},
             r.pc = "certify" => to = "serving"
      PROVE  LET s == [r EXCEPT !.pc = to] IN
             /\ Running(p, s) /\ Moves(r, s) /\ s.pc = to /\ s.token = r.token /\ s.runs = r.runs
             /\ [proc EXCEPT ![p].pc = to] = [proc EXCEPT ![p] = s]
  <2> DEFINE s == [r EXCEPT !.pc = to]
  <2>1. Underway(s) /\ s.pc = to /\ s.runs = r.runs /\ s.token = r.token
        /\ [proc EXCEPT ![p].pc = to] = [proc EXCEPT ![p] = s]
    BY <1>1, <1>3, <1>7 DEF Underway, RunFields
  <2> HIDE DEF s, r
  <2>2. Running(p, s) /\ Moves(r, s)
    BY <1>3, <1>7, <2>1 DEF Running, Moves
  <2> QED
    BY <2>1, <2>2 DEF s
<1>8. CASE r.pc = "stage1" /\ WriteOut(p, "stage1b", [out EXCEPT !.stage1 = Torn])
  <2> DEFINE s == [r EXCEPT !.pc = "stage1b"]
  <2>1. proc' = [proc EXCEPT ![p] = s] /\ Running(p, s) /\ Moves(r, s)
        /\ out' = [out EXCEPT !.stage1 = Torn] /\ UNCHANGED <<certs, read, checked>>
    BY <1>7, <1>8 DEF WriteOut, outputs
  <2>2. Written' /\ Chained'
    BY <1>1, <2>1 DEF Written, Chained
  <2> HIDE DEF s
  <2> QED
    BY <1>1, <2>1, <2>2, CommandMoves
<1>9. CASE r.pc = "stage1b" /\ WriteOut(p, "certify", [out EXCEPT !.stage1 = proc[p].token])
  <2> DEFINE s == [r EXCEPT !.pc = "certify"]
  <2>1. /\ proc' = [proc EXCEPT ![p] = s] /\ Running(p, s) /\ Moves(r, s)
        /\ s.pc = "certify" /\ s.token = r.token /\ s.runs = r.runs
        /\ out' = [out EXCEPT !.stage1 = r.token] /\ UNCHANGED <<certs, read, checked>>
    BY <1>7, <1>9 DEF WriteOut, outputs
  <2>2. Written' /\ out'.stage1 = r.token
    BY <1>1, <1>3, <1>9, <2>1 DEF Written
  <2>3. proc'[p] = s
    BY <1>1, <2>1
  <2>4. SignedToken(r.token) /\ r.token[1].claims.key = <<p, r.runs>> /\ r.runs \in Nat \ {0}
    BY <1>3, <1>9 DEF Underway
  <2>5. ASSUME NEW c \in certs PROVE c.key # <<p, r.runs>>
    <3>1. c.key[2] = proc[c.key[1]].runs => proc[c.key[1]].pc \in {"serving", "idle"}
      BY <1>1 DEF Certified, Served
    <3> QED
      BY <1>9, <3>1
  <2> HIDE DEF s
  <2>6. Chained'
    <3> DEFINE k == <<p, r.runs>>
    <3>1. k = <<k[1], k[2]>> /\ k[1] = p /\ k[2] = r.runs /\ out'.stage1[1].claims.key = k
      BY <2>2, <2>4
    <3> HIDE DEF k
    <3>2. /\ k[1] \in Procs /\ k[2] \in Nat \ {0} /\ k[2] <= proc'[k[1]].runs
          /\ proc'[k[1]].pc = "certify" /\ proc'[k[1]].token = out'.stage1
      BY <1>1, <2>1, <2>2, <2>3, <2>4, <3>1
    <3>3. \A c \in certs' : c.key # k
      BY <2>1, <2>5 DEF k
    <3> QED
      BY <3>1, <3>2, <3>3 DEF Chained, Keyed
  <2> QED
    BY <1>1, <2>1, <2>2, <2>6, CommandMoves
<1>10. CASE RunServe(p)
  <2> DEFINE s == [r EXCEPT !.pc = "serving"]
  <2>1. /\ r.pc = "certify" /\ proc' = [proc EXCEPT ![p] = s] /\ Running(p, s) /\ Moves(r, s)
        /\ s.pc = "serving" /\ s.token = r.token /\ s.runs = r.runs
        /\ certs' = certs \cup {[key |-> <<p, r.runs>>, token |-> r.token]}
        /\ UNCHANGED <<out, read, checked>>
    BY <1>7, <1>10 DEF RunServe, generate_keypair
  <2>2. Written' /\ proc'[p] = s
    BY <1>1, <2>1 DEF Written
  <2>3. /\ SignedToken(r.token) /\ OneChain(r.token) /\ Len(r.token) > 1
        /\ r.token[1].claims.key = <<p, r.runs>> /\ r.runs \in Nat \ {0}
    BY <1>3, <2>1 DEF Underway
  <2> HIDE DEF s
  <2>4. ASSUME NEW c \in certs' \ certs
        PROVE  /\ Served(c)'
               /\ out.stage1 \notin {Nothing, Torn} /\ c.key = out.stage1[1].claims.key =>
                     c.token = out.stage1
    <3>1. c = [key |-> <<p, r.runs>>, token |-> r.token]
      BY <2>1
    <3>2. c.key = <<p, r.runs>> /\ c.token = r.token /\ c.key[1] = p /\ c.key[2] = r.runs
          /\ c = [key |-> c.key, token |-> c.token] /\ c.key = <<c.key[1], c.key[2]>>
      BY <3>1
    <3>3. Keyed(c.key)'
      BY <1>1, <2>1, <2>2, <2>3, <3>2 DEF Keyed
    <3>4. Served(c)'
      BY <1>1, <2>1, <2>2, <2>3, <3>2, <3>3 DEF Served
    <3> QED
      BY <1>1, <2>1, <3>2, <3>4 DEF Chained
  <2> QED
    BY <1>1, <2>1, <2>2, <2>4, CommandMoves
<1> QED
  BY <1>4, <1>5, <1>6, <1>8, <1>9, <1>10 DEF cmd_run, RunWrite

-----------------------------------------------------------------------------
(* The readers, and the theorems.                                          *)

\* Of all a server can present, cmd_check accepts what its own key serves.
LEMMA OfferServed ==
    ASSUME BuildInv, NEW c \in Offers, cmd_check(c) PROVE c \in certs /\ OneChain(c.token)
<1> DEFINE tokens == {d.token : d \in certs} \cup ({out.cbor, out.stage1} \ {Nothing, Torn})
           keys == {d.key : d \in certs} \cup {<<Nothing, 0>>}
<1>1. Written /\ Certified /\ Chained
  BY DEF BuildInv
<1>2. PICK k \in keys, t \in tokens :
         \/ c = [key |-> k, token |-> t]
         \/ c = [key |-> k, token |-> [t EXCEPT ![1].claims.key = k]]
  BY DEF Offers
<1>3. SignedToken(t)
  BY <1>1 DEF Written, Certified, Served
<1>4. c.key = k /\ c.token[1].claims.key = k /\ OneChain(c.token)
  BY <1>2 DEF cmd_check
<1>5. c.token = t /\ t[1].claims.key = k /\ c = [key |-> k, token |-> t]
  <2>1. CASE c = [key |-> k, token |-> t]
    BY <1>4, <2>1
  <2>2. CASE c = [key |-> k, token |-> [t EXCEPT ![1].claims.key = k]]
    <3>1. OneChain([t EXCEPT ![1].claims.key = k])
      BY <1>4, <2>2
    <3> QED
      BY <1>3, <2>2, <3>1, KeyCovered
  <2> QED
    BY <1>2, <2>1, <2>2
<1>6. CASE \E d \in certs : d.token = t
  <2>1. PICK d \in certs : d.token = t
    BY <1>6
  <2>2. d = [key |-> d.key, token |-> d.token] /\ d.token[1].claims.key = d.key
    BY <1>1 DEF Certified, Served
  <2> QED
    BY <1>4, <1>5, <2>1, <2>2
<1>7. CASE t = out.cbor /\ out.cbor \notin {Nothing, Torn}
  <2>1. k = Nothing
    BY <1>1, <1>5, <1>7 DEF Written
  <2>2. k \in (Procs \cup {Nothing}) \X Nat
    <3>1. CASE k = <<Nothing, 0>>
      BY <3>1
    <3>2. CASE \E d \in certs : k = d.key
      <4>1. k = <<k[1], k[2]>> /\ k[1] \in Procs /\ k[2] \in Nat
        BY <1>1, <3>2 DEF Certified, Served, Keyed
      <4> QED
        BY <4>1
    <3> QED
      BY <3>1, <3>2
  <2> QED
    BY <2>1, <2>2, BuildAssumption
<1>8. CASE t = out.stage1 /\ out.stage1 \notin {Nothing, Torn}
  <2>1. Keyed(k) /\ \A d \in certs : d.key = k => d.token = t
    BY <1>1, <1>5, <1>8 DEF Chained
  <2>2. PICK d \in certs : d.key = k
    BY <2>1 DEF Keyed
  <2>3. d = [key |-> d.key, token |-> d.token]
    BY <1>1 DEF Certified, Served
  <2> QED
    BY <1>4, <1>5, <2>1, <2>2, <2>3
<1> QED
  BY <1>6, <1>7, <1>8

\* What cmd_verify passes shows the claims its quote covers.
LEMMA PassGenuine ==
    ASSUME NEW j, Projects(j), NEW b, NEW a, verify_attestation_json(j, b, a)
    PROVE  /\ j.value_x = j.quote[1].value_x /\ j.source_hash = j.quote[1].source_hash
           /\ j.artifact_hash = j.quote[1].artifact_hash /\ j.platform = j.quote[1].platform
           /\ b # Nothing => b[1].claims = j.quote[1]
           /\ a # Nothing => a = j.quote[1].artifact_hash
BY DEF verify_attestation_json, QuoteAndArtifact, binding_bytes, Projects

LEMMA ReadersKeep == ASSUME BuildInv, ReaderNext PROVE BuildInv'
<1>1. Commands /\ Written /\ Certified /\ Chained /\ ReadPair /\ CheckedServed
  BY DEF BuildInv
<1>2. UNCHANGED <<proc, out, certs>>
  BY DEF ReaderNext, VerifyReadJson, cmd_verify, Check, Merge, cmd_merge, Edit, outputs
<1>3. Commands' /\ Written' /\ Certified' /\ Chained'
  BY <1>1, <1>2 DEF Commands, Written, Certified, Served, Keyed, Chained
<1>4. CASE VerifyReadJson
  <2>1. read' = [json |-> out.json, cbor |-> Nothing, artifact |-> Nothing, pass |-> FALSE]
        /\ out.json \notin {Nothing, Torn} /\ checked' = checked
    BY <1>4 DEF VerifyReadJson, Unread
  <2>2. ReadPair' /\ CheckedServed'
    BY <1>1, <1>2, <2>1 DEF ReadPair, VerifiedPair, CheckedServed, Written
  <2> QED
    BY <1>3, <2>2 DEF BuildInv
<1>5. ASSUME NEW w \in BOOLEAN, cmd_verify(w) PROVE BuildInv'
  <2> DEFINE b == IF out.cbor = Torn THEN Nothing ELSE out.cbor
             a == IF w THEN out.artifact ELSE Nothing
  <2>1. /\ read.json # Nothing /\ checked' = checked
        /\ read' = [json |-> read.json, cbor |-> b, artifact |-> a,
                    pass |-> verify_attestation_json(read.json, b, a)]
    BY <1>5 DEF cmd_verify
  <2> HIDE DEF a, b
  <2>2. /\ DOMAIN read' = {"json", "cbor", "artifact", "pass"} /\ read'.json = read.json
        /\ read'.cbor = b /\ read'.artifact = a
        /\ read'.pass = verify_attestation_json(read.json, b, a)
    BY <2>1
  <2>3. Projects(read.json)
    BY <1>1, <2>1 DEF ReadPair
  <2>4. VerifiedPair'
    <3>1. verify_attestation_json(read.json, b, a) =>
             LET j == read.json
                 q == j.quote[1]
             IN  /\ j.value_x = q.value_x /\ j.source_hash = q.source_hash
                 /\ j.artifact_hash = q.artifact_hash /\ j.platform = q.platform
                 /\ b # Nothing => b[1].claims = q
                 /\ a # Nothing => a = q.artifact_hash
      BY <2>3, PassGenuine
    <3> QED
      BY <2>2, <3>1 DEF VerifiedPair
  <2>5. ReadPair' /\ CheckedServed'
    BY <1>1, <1>2, <2>1, <2>2, <2>3, <2>4 DEF ReadPair, CheckedServed
  <2> QED
    BY <1>3, <2>5 DEF BuildInv
<1>6. ASSUME NEW c \in Offers, NEW x \in Presentations, Check(c, x) PROVE BuildInv'
  <2>1. c \in certs /\ OneChain(c.token) /\ checked'.cert = c /\ read' = read
    BY <1>6, OfferServed DEF Check
  <2>2. ReadPair' /\ CheckedServed'
    BY <1>1, <1>2, <2>1 DEF ReadPair, VerifiedPair, CheckedServed
  <2> QED
    BY <1>3, <2>2 DEF BuildInv
<1>7. CASE Merge \/ \E f \in Files, v \in Contents : Edit(f, v)
  <2>1. UNCHANGED <<read, checked>>
    BY <1>7 DEF Merge, cmd_merge, Edit, outputs
  <2>2. ReadPair' /\ CheckedServed'
    BY <1>1, <1>2, <2>1 DEF ReadPair, VerifiedPair, CheckedServed
  <2> QED
    BY <1>3, <2>2 DEF BuildInv
<1> QED
  BY <1>4, <1>5, <1>6, <1>7 DEF ReaderNext

LEMMA BuildInitial == ASSUME BuildInit PROVE BuildInv
<1>1. /\ proc = [p \in Procs |-> [pc |-> "idle", runs |-> 0]]
      /\ out = [sequence |-> 0, json |-> Nothing, cbor |-> Nothing, artifact |-> Nothing,
                stage1 |-> Nothing]
      /\ certs = {} /\ checked = Nothing
      /\ read = [json |-> Nothing, cbor |-> Nothing, artifact |-> Nothing, pass |-> FALSE]
  BY DEF BuildInit, Idle, Unread
<1>2. DOMAIN proc = Procs /\ \A p \in Procs : AtRest(proc[p])
  BY <1>1 DEF AtRest
<1>3. Commands
  BY <1>2 DEF Commands, Procs, Making, Running
<1>4. Written /\ Chained
  BY <1>1 DEF Written, Chained
<1>5. Certified /\ ReadPair /\ CheckedServed
  BY <1>1 DEF Certified, ReadPair, VerifiedPair, CheckedServed
<1> QED
  BY <1>3, <1>4, <1>5 DEF BuildInv

LEMMA BuildKeeps == ASSUME BuildInv, [BuildNext]_buildVars PROVE BuildInv'
<1>1. CASE BuildNext
  BY <1>1, BuilderKeeps, EnclaveKeeps, RunnerKeeps, AbortKeeps, ReadersKeep DEF BuildNext
<1>2. CASE UNCHANGED buildVars
  BY <1>2, ZenonT(30) DEF buildVars, BuildInv, Commands, Written, Certified, Served, Keyed, Chained, ReadPair,
              VerifiedPair, CheckedServed
<1> QED
  BY <1>1, <1>2

\* Any number of builds, enclaves and runtimes, of editors' changes and of files:
\* the invariant holds along every behaviour of the commands of main.rs.
THEOREM BuildInvariance == BuildSpec => []BuildInv
<1>1. BuildInit => BuildInv
  BY BuildInitial
<1>2. BuildInv /\ [BuildNext]_buildVars => BuildInv'
  BY BuildKeeps
<1> QED
  BY <1>1, <1>2, PTL DEF BuildSpec

\* The source hash in a receipt is the tree that was compiled (cmd_build always,
\* cmd_enclave when the build was orderly), and the artifact hash is that of its
\* output; in an enclave it is zeros exactly when the output could not be hashed.
THEOREM BuildRatchet == BuildSpec => []RatchetHolds
<1>1. ASSUME BuildInv PROVE RatchetHolds
  <2> SUFFICES ASSUME NEW p \in Makers, Quoted(p)
               PROVE  LET c == proc[p].token[1].claims
                          orderly == ~proc[p].rewrote /\ ~proc[p].linger
                      IN  /\ p \in Builders \/ orderly => c.source_hash = proc[p].compiled
                          /\ ~proc[p].linger => c.value_x = c.source_hash
                          /\ ~proc[p].linger /\ (p \in Builders \/ orderly)
                                => c.artifact_hash = IF p \in Builders \/ proc[p].hashed
                                                     THEN proc[p].compiled ELSE Zeros
    BY DEF RatchetHolds
  <2> DEFINE r == proc[p]
  <2>1. Ratchet(p, r) /\ r.token # << >>
    BY <1>1 DEF Quoted, BuildInv, Commands, Making, AtRest
  <2>2. r.pc \in PastQuote /\ r.token = Receipt(p, r)
    BY <2>1 DEF Ratchet
  <2>3. /\ r.token[1].claims.source_hash = r.hash /\ r.token[1].claims.value_x = r.x
        /\ r.token[1].claims.artifact_hash = r.a
    BY <2>2 DEF Receipt
  <2> HIDE DEF r
  <2>4. /\ p \in Builders => r.compiled = r.hash
        /\ p \in Builders => r.hashed
        /\ ~r.linger => /\ r.frozen = r.hash /\ r.x = r.hash
                        /\ r.a = IF r.hashed THEN r.compiled ELSE Zeros
                        /\ ~r.rewrote => r.frozen = r.compiled
    BY <2>1, <2>2 DEF Ratchet, PastBuild, PastRehash, PastArtifact, PastValueX
  <2> QED
    BY <2>3, <2>4 DEF r
<1> QED
  BY <1>1, BuildInvariance, PTL

\* What cmd_verify passes is what the hardware signed, in the JSON and in the token.
THEOREM BuildVerifiedPair == BuildSpec => []VerifiedPair
<1>1. BuildInv => VerifiedPair
  BY DEF BuildInv, ReadPair
<1> QED
  BY <1>1, BuildInvariance, PTL

\* A runtime serves one tree, and a certificate cmd_check accepts is one that some
\* process made for its own key; who presented it is not said.
THEOREM BuildOneTree == BuildSpec => []ChainIsOneTree
<1>1. ASSUME BuildInv PROVE ChainIsOneTree
  <2>1. \A c \in certs : c.key[1] \in Runners =>
           Len(c.token) > 1 /\ OneChain(c.token) /\ c.token[1].claims.key = c.key
    BY <1>1 DEF BuildInv, Certified, Served
  <2>2. checked # Nothing => checked.cert \in certs /\ OneChain(checked.cert.token)
    BY <1>1 DEF BuildInv, CheckedServed
  <2> QED
    BY <2>1, <2>2 DEF ChainIsOneTree, OneChain
<1> QED
  BY <1>1, BuildInvariance, PTL

=============================================================================
