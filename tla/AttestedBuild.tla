---------------------------- MODULE AttestedBuild ----------------------------
(***************************************************************************)
(* The build and run commands of the second version (v2/src/main.rs): an   *)
(* attested build hashes a source tree, freezes a copy, compiles the copy, *)
(* binds what it saw into a hardware quote and leaves a receipt in an      *)
(* output directory; an enclave does the same and serves the result; a     *)
(* runtime admits a receipt, rehashes the tree and serves a token chained  *)
(* to it; verify, check and merge read what the others left.               *)
(*                                                                         *)
(* A hash is modelled as the value hashed and a tree as a function from    *)
(* file numbers (their sorted order) to contents.  Trees are read one file *)
(* at a time while a developer edits them.  A file is written by           *)
(* truncating it and then filling it, and a process may die in between.    *)
(***************************************************************************)
EXTENDS Integers, Sequences, FiniteSets, SequencesExt

CONSTANTS
    NFiles,      \* files of the source tree
    Contents,    \* what a file may contain
    Builders,    \* processes that run cmd_build
    Enclaves,    \* processes that run cmd_enclave
    Runners,     \* processes that run cmd_run
    PlatformOf,  \* the TEE each process runs in
    MaxStages,   \* 16 in cmd_check
    Casts,       \* who takes part: the processes started, the ones whose build
                 \* command misbehaves, whether somebody runs verify, and the
                 \* bounds: how often each builds and runs and the
                 \* tree is edited
    Zeros,       \* [0u8; 48]
    Nothing, Torn

Files == 1 .. NFiles
Trees == [Files -> Contents]
Makers == Builders \cup Enclaves
Procs == Makers \cup Runners

ASSUME BuildAssumption ==
    /\ NFiles \in Nat \ {0} /\ MaxStages \in Nat \ {0}
    /\ Zeros \notin Trees
    /\ \A c \in Casts : c.procs \subseteq Procs /\ c.rough \subseteq Makers
                          /\ c.verify \in BOOLEAN /\ c.builds \in Nat
                          /\ c.runs \in Nat /\ c.edits \in Nat
    /\ Builders \cap Enclaves = {} /\ Runners \cap Makers = {}
    /\ Nothing \notin (Procs \cup {Nothing}) \X Nat     \* no key

VARIABLES
    tree,     \* the developer's directory: built from, and run in
    cast,     \* the member of Casts this behaviour is about
    edits,    \* how often the tree was edited
    proc,     \* the local state of each command's process
    out,      \* the files of the output directory
    log,      \* the commits append_to_log made
    certs,    \* certificates with an attestation some process serves or served
    read,     \* what cmd_verify has read and concluded
    checked,  \* the last certificate cmd_check accepted, and whether whoever
              \* presented it signed the handshake with its key
    merged    \* the last document cmd_merge wrote

buildVars == <<tree, cast, edits, proc, out, log, certs, read, checked, merged>>
outputs == <<log, certs, read, checked, merged>>

\* EatToken::from_build: the claims that go into a token, with a fresh nonce, and
\* later those of its key.  A token is the sequence of its stages,
\* its own first, and the binding of a stage commits to the stages before it.
from_build(p, x, ct, a, key) ==
    [platform |-> PlatformOf[p], value_x |-> x, source_hash |-> ct,
     artifact_hash |-> a, key |-> key, nonce |-> <<p, proc[p].runs>>]
binding_bytes(claims, previous) == <<claims, previous>>
Previous(token, i) == SubSeq(token, i + 1, Len(token))

\* verify_platform_quote: the hardware signed this binding.
verify_platform_quote(stage, previous) ==
    stage.quote = binding_bytes(stage.claims, previous)

Idle == [pc |-> "idle", runs |-> 0]
Fresh(p) == [pc |-> "hash", runs |-> proc[p].runs + 1, hash |-> <<>>,
             frozen |-> [f \in {} |-> Nothing], compiled |-> Nothing,
             rewrote |-> FALSE, linger |-> FALSE, hashed |-> TRUE, art |-> Nothing, a |-> Nothing,
             x |-> Nothing, seq |-> 0, token |-> <<>>]

\* A key pair is fresh every time; its owner and run number identify it.
generate_keypair(p) == <<p, proc[p].runs>>

\* Every step may also fail (a device, a file, a child's exit status, a
\* killed process): the command ends and its files stay as they are.
Abort(p) ==
    /\ proc[p].pc # "idle"
    /\ proc' = [proc EXCEPT ![p] = [Idle EXCEPT !.runs = proc[p].runs]]
    /\ UNCHANGED <<tree, cast, edits, out, outputs>>

Step(p, new) ==
    /\ proc' = [proc EXCEPT ![p] = new]
    /\ UNCHANGED <<tree, cast, edits, out, outputs>>

-----------------------------------------------------------------------------
(* cmd_build and cmd_enclave.                                              *)

\* detect_tee succeeded; CT is about to be computed.
BuildStart(p) ==
    /\ p \in cast.procs /\ proc[p].pc = "idle" /\ proc[p].runs < cast.builds
    /\ Step(p, Fresh(p))

\* compute_tree_hash, collect_hashes: the next file in sorted order.  The names
\* in SKIP_NAMES, the default output directory among them, are not in the tree;
\* a symbolic link ends the command (Abort).
HashFile(p, done) ==
    /\ proc[p].pc = "hash"
    /\ LET h == Append(proc[p].hash, tree[Len(proc[p].hash) + 1])
       IN  Step(p, [proc[p] EXCEPT !.hash = h,
                                   !.pc = IF Len(h) = NFiles THEN done ELSE @])

\* Broken: the snapshot is not compared with CT before the build.
SnapshotUnchecked(p, z) == TRUE

\* ct_verify: cmd_build hashes the snapshot and compares, cmd_enclave does not.
SnapshotAccepted(p, z) == p \in Builders => z = proc[p].hash

\* copy_dir_readonly: files in directory order; the snapshot is complete when
\* every file is copied.  A symbolic link ends the command (Abort).
copy_dir_readonly(p, f) ==
    /\ proc[p].pc = "copy" /\ f \notin DOMAIN proc[p].frozen
    /\ LET z == [g \in DOMAIN proc[p].frozen \cup {f} |->
                    IF g = f THEN tree[f] ELSE proc[p].frozen[g]]
           whole == DOMAIN z = Files
       IN  IF whole /\ ~SnapshotAccepted(p, z)
           THEN Abort(p)                                     \* RATCHET BROKEN
           ELSE Step(p, [proc[p] EXCEPT !.frozen = z,
                             !.pc = IF whole THEN "build" ELSE "copy"])

\* The build command compiles the snapshot.  It can make files writable again
\* and leave another tree behind, and it can leave a process running.
Build(p, t, linger) ==
    /\ proc[p].pc = "build"
    /\ p \in cast.rough \/ (t = proc[p].frozen /\ ~linger)
    /\ Step(p, [proc[p] EXCEPT !.pc = "post", !.compiled = proc[p].frozen,
                    !.art = proc[p].frozen, !.frozen = t,
                    !.rewrote = (t # proc[p].frozen), !.linger = linger])

\* What a process the build left behind may do until the command ends.
Meddle(p, t, a) ==
    /\ proc[p].pc \notin {"idle", "serving"} /\ proc[p].linger
    /\ Step(p, [proc[p] EXCEPT !.frozen = t, !.art = a])

\* ct_post: the snapshot must still hash to CT.
PostCheck(p) ==
    /\ proc[p].pc = "post"
    /\ IF proc[p].frozen # proc[p].hash
       THEN Abort(p)                                       \* RATCHET VIOLATED
       ELSE Step(p, [proc[p] EXCEPT !.pc = "artifact"])

\* find_artifact and its hash, read once here and copied later from disk.
\* cmd_enclave hashes its build output after Value X; nothing tells the order.
\* An output that cannot be hashed, because of a symbolic link or an unreadable
\* file in it, ends cmd_build (Abort), but cmd_enclave goes on with zeros.
HashArtifact(p, hashed) ==
    /\ proc[p].pc = "artifact" /\ (hashed \/ p \in Enclaves)
    /\ Step(p, [proc[p] EXCEPT !.pc = "valuex", !.hashed = hashed,
                    !.a = IF hashed THEN proc[p].art ELSE Zeros])

ComputeValueX(p) ==
    /\ proc[p].pc = "valuex"
    /\ Step(p, [proc[p] EXCEPT !.pc = "quote",
                    !.x = proc[p].frozen])

\* A token is built without its quote, its binding is signed by the platform
\* (after the NitroTPM document on SNP, whose failure ends the build), and the
\* quote is filled in; neither it nor the measurement changes the binding.
Quote(p, key) ==
    LET claims == from_build(p, proc[p].x, proc[p].hash, proc[p].a, key)
    IN  <<[claims |-> claims, quote |-> binding_bytes(claims, <<>>)]>>

BuildQuote(p) ==
    /\ proc[p].pc = "quote" /\ p \in Builders
    /\ Step(p, [proc[p] EXCEPT !.token = Quote(p, Nothing), !.pc = "sequence"])

\* The enclave binds its key into the quote, puts the token into the certificate
\* of that key and serves it over vsock (module Endpoint).
EnclaveServe(p) ==
    /\ proc[p].pc = "quote" /\ p \in Enclaves
    /\ LET key == generate_keypair(p)
           token == Quote(p, key)
       IN  /\ proc' = [proc EXCEPT ![p].token = token, ![p].pc = "serving"]
           /\ certs' = certs \cup {[key |-> key, token |-> token]}
    /\ UNCHANGED <<tree, cast, edits, out, log, read, checked, merged>>

WriteOut(p, pc, o) ==
    /\ out' = o
    /\ proc' = [proc EXCEPT ![p].pc = pc]
    /\ UNCHANGED <<tree, cast, edits, outputs>>

\* The counter is read, incremented and written back; a failed write is ignored.
ReadSequence(p) ==
    /\ proc[p].pc = "sequence"
    /\ Step(p, [proc[p] EXCEPT !.pc = "number", !.seq = out.sequence + 1])
WriteSequence(p, written) ==
    /\ proc[p].pc = "number"
    /\ WriteOut(p, "json", IF written THEN [out EXCEPT !.sequence = proc[p].seq]
                           ELSE out)

\* extract_platform_measurement: where the platform keeps one in its quote.
extract_platform_measurement(quote, platform) ==
    IF platform \in {"Tdx", "SevSnp", "Nitro"} THEN quote[1].platform ELSE Nothing

\* attestation.json projects the token; attestation.cbor is the token.
View(p) ==
    LET t == proc[p].token
    IN  [platform |-> t[1].claims.platform, value_x |-> t[1].claims.value_x,
         source_hash |-> t[1].claims.source_hash,
         artifact_hash |-> t[1].claims.artifact_hash,
         platform_measurement |->
             extract_platform_measurement(t[1].quote, t[1].claims.platform),
         binding |-> binding_bytes(t[1].claims, Tail(t)), quote |-> t[1].quote,
         sequence_number |-> proc[p].seq]
WriteJson(p) ==
    \/ /\ proc[p].pc = "json"
       /\ WriteOut(p, "json2", [out EXCEPT !.json = Torn])
    \/ /\ proc[p].pc = "json2"
       /\ WriteOut(p, "cbor", [out EXCEPT !.json = View(p)])
WriteCbor(p) ==
    \/ /\ proc[p].pc = "cbor"
       /\ WriteOut(p, "cbor2", [out EXCEPT !.cbor = Torn])
    \/ /\ proc[p].pc = "cbor2"
       /\ WriteOut(p, "copyout", [out EXCEPT !.cbor = proc[p].token])

\* The artifact is copied from the build directory as it is now, if it is a file.
CopyArtifact(p, file) ==
    /\ proc[p].pc = "copyout"
    /\ WriteOut(p, "log", IF file THEN [out EXCEPT !.artifact = proc[p].art] ELSE out)

\* append_to_log: whatever attestation.json holds now is committed under the
\* name of this build's Value X, when there is a git repository.
append_to_log(p, git) ==
    /\ proc[p].pc = "log"
    /\ log' = IF git THEN Append(log, [name |-> proc[p].x, json |-> out.json])
              ELSE log
    /\ proc' = [proc EXCEPT ![p] = [Idle EXCEPT !.runs = proc[p].runs]]
    /\ UNCHANGED <<tree, cast, edits, out, certs, read, checked, merged>>

-----------------------------------------------------------------------------
(* cmd_run.                                                                *)

\* The receipt's exact bytes are read within the size limit and admitted by
\* the prior-stage policy (module Admission); here the policy admits every
\* token whose stages carry their quotes and one Value X.
OneChain(token) ==
    \A i \in 1 .. Len(token) :
       /\ verify_platform_quote(token[i], Previous(token, i))
       /\ token[i].claims.value_x = token[1].claims.value_x
Admitted(token) == token \notin {Nothing, Torn} /\ OneChain(token)

RunStart(p, file) ==
    /\ p \in cast.procs /\ proc[p].pc = "idle" /\ proc[p].runs < cast.runs
    /\ Admitted(out[file]) /\ Len(out[file]) <= MaxStages
    /\ Step(p, [Fresh(p) EXCEPT !.token = out[file]])

\* Broken: the tree on disk is not compared with the receipt.
RunQuote_any_tree(p) ==
    /\ proc[p].pc = "drift"
    /\ LET prior == proc[p].token[1].claims
           claims == from_build(p, proc[p].hash, prior.source_hash,
                            prior.artifact_hash, generate_keypair(p))
           stage == [claims |-> claims,
                     quote |-> binding_bytes(claims, proc[p].token)]
       IN  Step(p, [proc[p] EXCEPT !.token = <<stage>> \o proc[p].token,
                                   !.pc = "stage1"])

\* Value X is recomputed from disk, a key made, a token chained to the receipt
\* and quoted, and its file written next to the receipt.
RunQuote(p) ==
    /\ proc[p].pc = "drift"
    /\ LET prior == proc[p].token[1].claims
           claims == from_build(p, proc[p].hash, prior.source_hash,
                            prior.artifact_hash, generate_keypair(p))
           stage == [claims |-> claims,
                     quote |-> binding_bytes(claims, proc[p].token)]
       IN  IF proc[p].hash # prior.value_x
           THEN Abort(p)                                       \* Value X drift
           ELSE Step(p, [proc[p] EXCEPT !.token = <<stage>> \o proc[p].token,
                                        !.pc = "stage1"])
RunWrite(p) ==
    \/ /\ proc[p].pc = "stage1"
       /\ WriteOut(p, "stage1b", [out EXCEPT !.stage1 = Torn])
    \/ /\ proc[p].pc = "stage1b"
       /\ WriteOut(p, "certify", [out EXCEPT !.stage1 = proc[p].token])

\* make_attested_cert and the server; the workload starts.
RunServe(p) ==
    /\ proc[p].pc = "certify"
    /\ proc' = [proc EXCEPT ![p].pc = "serving"]
    /\ certs' = certs \cup {[key |-> generate_keypair(p), token |-> proc[p].token]}
    /\ UNCHANGED <<tree, cast, edits, out, log, read, checked, merged>>

-----------------------------------------------------------------------------
(* The readers, and the developer.                                         *)

Unread == [json |-> Nothing, cbor |-> Nothing, artifact |-> Nothing, pass |-> FALSE]

\* cmd_verify reads the JSON, then the token beside it, which may be missing
\* or undecodable: the canonical binding is then not compared.
VerifyReadJson ==
    /\ cast.verify /\ out.json \notin {Nothing, Torn}
    /\ read' = [Unread EXCEPT !.json = out.json]
    /\ UNCHANGED <<tree, cast, edits, proc, out, log, certs, checked, merged>>

\* verify_quote_binding compares report data, except on Nitro, where that is
\* left to verify_platform_quote.
verify_quote_binding(j) ==
    \/ j.platform \in {"Tdx", "SevSnp"} /\ j.quote = j.binding
    \/ j.platform = "Nitro"

\* The checks after the binding: report data, measurement, hardware platform and
\* signature chain, and the artifact when one is given.
QuoteAndArtifact(j, artifact) ==
    /\ verify_quote_binding(j)
    /\ j.platform_measurement # Nothing =>
          extract_platform_measurement(j.quote, j.platform) = j.platform_measurement
    /\ j.platform \in {"Tdx", "SevSnp", "Nitro"} /\ j.quote = j.binding
    /\ artifact # Nothing => artifact = j.artifact_hash

\* Broken: the binding is not recomputed from the token.
verify_json_alone(j, cbor, artifact) == QuoteAndArtifact(j, artifact)

verify_attestation_json(j, cbor, artifact) ==
    /\ cbor # Nothing => binding_bytes(cbor[1].claims, Tail(cbor)) = j.binding
    /\ QuoteAndArtifact(j, artifact)

cmd_verify(withArtifact) ==
    /\ read.json # Nothing
    /\ LET cbor == IF out.cbor = Torn THEN Nothing ELSE out.cbor
           art == IF withArtifact THEN out.artifact ELSE Nothing
       IN  /\ withArtifact => out.artifact # Nothing
           /\ read' = [json |-> read.json, cbor |-> cbor, artifact |-> art,
                       pass |-> verify_attestation_json(read.json, cbor, art)]
    /\ UNCHANGED <<tree, cast, edits, proc, out, log, certs, checked, merged>>

\* What a server may present: a certificate it saw, its own key with a token it
\* saw, or the token with the key it claims replaced.
Offers ==
    LET tokens == {c.token : c \in certs}
                  \cup ({out.cbor, out.stage1} \ {Nothing, Torn})
        keys == {c.key : c \in certs} \cup {<<Nothing, 0>>}
    IN  {[key |-> k, token |-> t] : k \in keys, t \in tokens}
        \cup {[key |-> k, token |-> [t EXCEPT ![1].claims.key = k]] :
                 k \in keys, t \in tokens}

\* The rest of the certificate: how often the attestation extension occurs, its
\* list of certificate timestamps (Nothing: malformed), and whether the issuer's
\* certificate was sent too; and whether the server signs the handshake with
\* the certificate's key, which only the key's holder can do.
Presentations ==
    [exts : 0 .. 2, issuer : BOOLEAN, signs : BOOLEAN,
     scts : {Nothing, {}} \cup {{[pinned |-> p, alg |-> a, tbs |-> t]} :
                                 p, a, t \in BOOLEAN}]

\* extract_eat_from_cert: absent, duplicated or empty extensions are refused.
extract_eat_from_cert(x) == x.exts = 1

\* verify_sct: a log that is not pinned is told apart from a failure; then the
\* algorithm, and the signature over the certificate without the list.
verify_sct(sct) ==
    IF ~sct.pinned THEN "unpinned"
    ELSE IF sct.alg /\ sct.tbs THEN "verified" ELSE "failed"
verify_scts_in_cert(x) == {verify_sct(sct) : sct \in x.scts}

\* A malformed list refuses; without the issuer nothing can be verified, and
\* unpinned logs are reported only.
CtAccepts(x) ==
    /\ x.scts # Nothing
    /\ x.scts # {} /\ x.issuer => "failed" \notin verify_scts_in_cert(x)

\* NoVerify accepts every certificate and every signature over the handshake.
verify_tls13_signature(x) == TRUE

\* cmd_check: channel binding, quote, then the walk over the previous stages.
cmd_check(cert) ==
    /\ cert.token[1].claims.key = cert.key
    /\ OneChain(cert.token)
    /\ Len(cert.token) <= MaxStages

Check(cert, x) ==
    /\ verify_tls13_signature(x)
    /\ extract_eat_from_cert(x) /\ CtAccepts(x)
    /\ cmd_check(cert)
    /\ checked' = [cert |-> cert, signs |-> x.signs]
    /\ UNCHANGED <<tree, cast, edits, proc, out, log, certs, read, merged>>

\* cmd_merge: the files must agree on Value X and source hash; measurements and
\* quotes are kept per platform, and every file counts as a vendor.
cmd_merge(a, b) ==
    /\ a.value_x = b.value_x /\ a.source_hash = b.source_hash
    /\ merged' = [value_x |-> a.value_x, source_hash |-> a.source_hash,
                  artifact_hash |-> a.artifact_hash,
                  quotes |-> [f \in {a.platform, b.platform} |->
                                 IF f = b.platform THEN b.quote ELSE a.quote],
                  vendors |-> 2]
    /\ UNCHANGED <<tree, cast, edits, proc, out, log, certs, read, checked>>
Merge ==
    \E i, j \in 1 .. Len(log) :
       /\ log[i].json \notin {Nothing, Torn} /\ log[j].json \notin {Nothing, Torn}
       /\ cmd_merge(log[i].json, log[j].json)

Edit(f, c) ==
    /\ edits < cast.edits /\ tree[f] # c
    /\ tree' = [tree EXCEPT ![f] = c]
    /\ edits' = edits + 1
    /\ UNCHANGED <<cast, proc, out, outputs>>

BuildInit ==
    /\ tree \in Trees /\ cast \in Casts /\ edits = 0
    /\ proc = [p \in Procs |-> Idle]
    /\ out = [sequence |-> 0, json |-> Nothing, cbor |-> Nothing, artifact |-> Nothing,
              stage1 |-> Nothing]
    /\ log = <<>> /\ certs = {} /\ read = Unread
    /\ checked = Nothing /\ merged = Nothing

\* The steps cmd_build and cmd_enclave share, in the order of their locations.
MakerNext(p) ==
    \/ BuildStart(p) \/ HashFile(p, "copy")
    \/ \E f \in Files : copy_dir_readonly(p, f)
    \/ \E t \in Trees, l \in BOOLEAN : Build(p, t, l)
    \/ \E t, a \in Trees : Meddle(p, t, a)
    \/ PostCheck(p) \/ (\E h \in BOOLEAN : HashArtifact(p, h)) \/ ComputeValueX(p)
cmd_build(p) ==
    \/ MakerNext(p) \/ BuildQuote(p)
    \/ ReadSequence(p) \/ \E w \in BOOLEAN : WriteSequence(p, w)
    \/ WriteJson(p) \/ WriteCbor(p) \/ \E f \in BOOLEAN : CopyArtifact(p, f)
    \/ \E g \in BOOLEAN : append_to_log(p, g)
cmd_enclave(p) == MakerNext(p) \/ EnclaveServe(p)
cmd_run(p) ==
    \/ \E file \in {"cbor", "stage1"} : RunStart(p, file)
    \/ HashFile(p, "drift") \/ RunQuote(p) \/ RunWrite(p) \/ RunServe(p)
ReaderNext ==
    \/ VerifyReadJson
    \/ \E w \in BOOLEAN : cmd_verify(w)
    \/ \E c \in Offers, x \in Presentations : Check(c, x)
    \/ Merge
    \/ \E f \in Files, c \in Contents : Edit(f, c)
BuildNext ==
    \/ \E p \in Builders : cmd_build(p)
    \/ \E p \in Enclaves : cmd_enclave(p)
    \/ \E p \in Runners : cmd_run(p)
    \/ \E p \in Procs : Abort(p)
    \/ ReaderNext
BuildSpec == BuildInit /\ [][BuildNext]_buildVars

-----------------------------------------------------------------------------
(* What the commands promise.                                              *)

\* A process past its quote, still holding the token it made.
Quoted(p) == proc[p].pc # "idle" /\ proc[p].token # <<>>

\* Ratchet: whatever the developer edits while the tree is hashed and copied,
\* the source hash in a receipt of cmd_build is the tree the compiler started
\* from, even when the build rewrote it; Value X and the artifact hash are that
\* tree's too unless the build left a process behind.  cmd_enclave, which does
\* not rehash its copy before the build, promises as much only for a build that
\* left neither a changed tree nor a process, and its artifact hash is zeros
\* exactly when the output could not be hashed.
RatchetHolds ==
    \A p \in Makers : Quoted(p) =>
       LET c == proc[p].token[1].claims
           orderly == ~proc[p].rewrote /\ ~proc[p].linger
       IN  /\ p \in Builders \/ orderly => c.source_hash = proc[p].compiled
           /\ ~proc[p].linger => c.value_x = c.source_hash
           /\ ~proc[p].linger /\ (p \in Builders \/ orderly) =>
                 c.artifact_hash = IF p \in Builders \/ proc[p].hashed
                                   THEN proc[p].compiled ELSE Zeros

\* Two builds share an output directory and either may die between two files:
\* when cmd_verify passes, the claims the JSON shows are the ones the hardware
\* signed, and so are the claims of the token beside it if one was readable.
VerifiedPair ==
    read.pass =>
       LET j == read.json
           c == j.quote[1]
       IN  /\ j.value_x = c.value_x /\ j.source_hash = c.source_hash
           /\ j.artifact_hash = c.artifact_hash /\ j.platform = c.platform
           /\ read.cbor # Nothing => read.cbor[1].claims = c
           /\ read.artifact # Nothing => read.artifact = c.artifact_hash

\* A served runtime runs the tree its build receipt names: its own quote and
\* the receipt it chains to carry one Value X, whatever was edited or built
\* between reading the receipt, hashing the tree and writing the token.  And
\* cmd_check accepts only such chains in a certificate some process made for
\* itself: nobody can put a token, or an ancestor of one, behind another key.
\* It says nothing of who presents that certificate (CheckedHoldsKey).
ChainIsOneTree ==
    /\ \A c \in certs : c.key[1] \in Runners =>
          /\ Len(c.token) > 1
          /\ OneChain(c.token)
          /\ c.token[1].claims.key = c.key
    /\ checked # Nothing =>
          LET cert == checked.cert
          IN  /\ cert \in certs
              /\ \A i \in 1 .. Len(cert.token) :
                    cert.token[i].claims.value_x = cert.token[1].claims.value_x

\* What the comment on the enclave's key says of the channel binding: a verifier
\* that completes the handshake and finds the key's hash in the token talks to
\* the holder of that key, so a copied certificate is not accepted (main.rs,
\* cmd_check and cmd_enclave).
CheckedHoldsKey == checked # Nothing => checked.signs

=============================================================================
