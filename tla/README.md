# unified-quote: TLA+ specifications

unified-quote produces and checks *attestation tokens*: statements by a trusted
execution environment (AMD SEV-SNP, Intel TDX, AWS Nitro, a TPM) about the code
it runs, the keys it holds and, where present, the GPUs attached to it. A relying
party admits such a token under a policy. Around that core sit attested builds, a
relay that lets ordinary devices inherit a TEE's standing, contracts on a public
ledger, a registry of approved code identities, servers and bridges that hand the
evidence out, and clients that fetch vendor material.

This directory models the parts of the system in which time, concurrency,
failure or an untrusted carrier decide whether the result is right. TLC checks
every model on small instances; TLAPS proves every safety property the passing runs check,
for every value of the constants.

## Inventory

| Part | Source | State | Operations | Hard part |
|---|---|---|---|---|
| Token and binding | `v2/src/eat.rs` | none | shape check, decoding, three commitment layouts | distinct claims must have distinct commitments |
| Admission verifier | `v2/src/attestation.rs` | one verification under way | `build`, `verify` | a clock that runs during the work; several appraisals of which one may fail |
| Prior-stage ancestry | `v2/src/attestation_chain.rs` | verified stages, deadline | `validate`, `prepare`, `verify`, `check_child` | order, links, freshness of all stages at once |
| Token collector | `v2/src/attestation.rs`, `gpu/nvml.rs`, `gpu/nscq.rs` | reports gathered so far | `collect` and the driver calls under it | devices exchanged, reset and renumbered between two calls |
| CPU quote verification | `v2/src/quote/` | one verification under way | framing, chains, revocation lists, AMD and Intel appraisal | windows of many documents, a signer found twice, TCB levels |
| GPU report appraisal | `v2/src/gpu/verify.rs`, `rim.rs`, `spdm.rs`, `opaque.rs`, `identity.rs` | devices and links accepted so far | `GpuVerifier::verify` | exact inventory from counting and look-ups; links signed by both ends; two manifests |
| GPU collateral | `v2/src/gpu/collateral.rs`, `revocation.rs` | two caches, merged status objects | `acquire_for_bundle`, `check_chain`, `fetch_chain` | status judged at two moments, revocation while cached, evidence changed on its way |
| Attested build and run | `v2/src/main.rs`, `value_x.rs`, `net/attested_tls.rs`, `net/ct.rs` | source tree, snapshot, output directory, log, certificates served | `build`, `enclave`, `run`, `verify`, `check`, `merge` | a tree edited while it is read, two builds in one directory, a process that dies between two files |
| Relay | `v2/src/relay.rs` | two replay stores, issued credentials | challenge, `bootstrap`, `issue`, `present`, `verify_presentation` | two clocks, replay, restart, caller-chosen nonces |
| Endpoints | `v2/src/net/` | sockets, pump threads, enclave thread | bridge, route, answer, certificate provisioning | half-closed connections, joins, full sockets |
| Local evidence service | `v2/src/attestation_cli.rs` | waiting connections, the one thread and its deadlines | `serve`, `read_request`, `respond` | one slow peer before everybody else |
| Version 1 server | `src/` | quote cache, limiters, integrity monitor | HTTP handlers, heartbeat, monitor | state read before an await and stored after it |
| UpdateChallenge | `contracts/UpdateChallenge.vy` | proposals, votes, pooled ether | propose, commit, reveal, resolve, claim | phases, integer division, one shared balance |
| TeeGated | `contracts/TeeGated.vy` | key, nonces, action counter, identity | register, execute, update | relayed and repeated messages, both ends of a time window |
| AttestRegistry | `contracts/AttestRegistry.vy` | insert-only map | publish | none |
| Google helper call | `v2/src/google_backend.rs` | child process, three pipes, two reader threads, deadline | `invoke` | deadlock on full pipes, deadline against exit, descendants |
| Google helper | `v2/google-attestation/` | none | one request, one answer | none (sequential) |
| AMD KDS client | `v2/src/tee/kds.rs` | cache files shared between processes | `kds_get` | overlapping writes, crash in between, clock changes, retries |
| Registry of approved values | `v2/src/registry.rs` | loaded snapshot and entries | `load`, `fresh_status`, `lookup` | files read while a mirror is replaced, expiry of what was loaded |
| Boot replay | `v2/src/boot*` | none | event-log replay, UKI, verity, closure | long folds over logs |
| Platform back ends | `v2/src/tee/` | devices | evidence collection, composite and TPM binding | byte formats |

How they interact: the collector asks the back ends for evidence, the GPU client
for collateral and the KDS client for certificates, and binds everything with the
commitment of `eat.rs`. The admission verifier takes the token apart again, calls
the quote verifier and (for Google collateral and boot replay) the helper process,
and hands prior stages to `attestation_chain.rs`, which calls a verifier for each
stage. Builds leave receipts that a runtime admits and chains its own token to;
endpoints serve the result. The relay uses an admission verdict as its bootstrap
condition. Contracts and the registry publish which code identity (*Value X*) is
current.

What makes each part correct:

- *Admission.* A token is admitted only if each level of its chain is covered by
  its own hardware quote, the chain is exactly the enrolled one, and token and
  stages are all fresh at one instant after all appraisal work.
- *Collector.* What is signed as an inventory was the machine's inventory at one
  moment, and a report is paired with the chain of the key that signed it.
- *Quotes.* Everything an admission rests on was current at one moment of it; the
  key that signed is the key that was appraised; no TCB level outranks the one
  the verdict used.
- *GPU appraisal.* The verdict covers the enrolled devices exactly, each link was
  signed by both ends, every active reference measurement was met.
- *GPU collateral.* A revocation takes effect within the life of one status; what is
  gathered for a bundle verifies as a whole, and what an imported cache adds can make
  it fail but never pass.
- *Build and run.* A receipt names the tree that was compiled; a verified receipt
  is of one build; a served chain names one tree.
- *Relay.* Accepted claims go back to a bootstrap of a verified device; nonces are
  spent once; inherited trust ends; failed attempts cost nothing.
- *Endpoint.* A whole request is answered in full, and no thread outlives its
  connection.
- *Evidence service.* However slow the peers before it, a connection has its turn in
  bounded time.
- *Version 1 server.* A nonce is answered by the quote made for it; the rate of
  fresh quotes holds; a lasting change of the directory is noticed.
- *UpdateChallenge.* Tallies are the votes, outcomes are final, every payment fits
  the stake it comes from.
- *TeeGated.* Action ids and nonces are used once, by the registered key only.
- *Helper call.* A result is believed only when it is whole, in time and about
  this request; the caller is not left waiting.
- *KDS client.* Whatever happened to the cache files, the bytes returned are bytes
  the vendor sent, within their lifetime.
- *Registry.* A revocation is visible within one validity period.

## Modules

`Eat` holds the operators of the token. `Admission` (extending it) is the verifier
as a step-by-step machine, one step per check between two clock readings;
`AdmissionPromise` is what a caller may rely on (a verdict is reached, and an
admission is fresh, vouched and enrolled), and `Admission` is shown to implement
it (`ImplementsPromise`, `INSTANCE ... WITH`). `CpuPki` holds the certificate rules
as operators and `CpuQuote` (extending it) is the verification of one quote, which
`Admission` sees as one verdict; likewise `GpuAppraise` for GPU bundles, whose
chain status is what `GpuCollateral` is about. The other components share no state
with these and have a module each. An `MC` module gives values to the constants, a
`.cfg` file chooses the properties, and a `...Proofs` module holds the theorems about
one component or about a few that belong together.

| Module | State, and what it stands for | Actions |
|---|---|---|
| `Eat` | none | commitments `binding_bytes`, `report_data_64`; `validate_shape`, `from_cbor` |
| `Admission` | `pc`, level of the chain, the `now` read at each level, deadline, verified stages, verdict | `Begin`, one action per block of `verify_inner`, stage return of `PriorStagePolicy::verify`, `Tick` |
| `AdmissionPromise` | request, verdict | accept a request, decide it |
| `GpuCollect` | the machine (devices, their enumeration, modes and keys), what the collection has read | one per driver call or group of calls that read the same thing, choice of topology, CPU quote; plug, replace, reset, renumber |
| `CpuPki` | none | `check_certificate`, path building, `verify_crl` and their parts |
| `CpuQuote` | the quote, collateral and policy under verification, the clock, the position and what each stage found | one per stage of the Nitro, SEV-SNP and TDX paths, fetching from AMD, time |
| `GpuAppraise` | policy and bundle, the verifier's position and what it has gathered | `validate`, one action per device, manifest and measurement block, topology, acceptance |
| `GpuCollateral` | the CA's revocations, both caches, the acquisition under way, evidence shown and the verdict | `acquire_for_bundle`, reading a cache somebody changed (`from_json`), use of a cached entry, fetch, store, merge, tamper, verify |
| `AttestedBuild` | tree, each process with its snapshot and position, the output directory's files, log, certificates, what verify, check and merge read | edit, hash and copy one file at a time, compile, quote, truncate and write each output, serve, verify, check, merge, die |
| `Relay` | two clocks, challenges, credentials, both replay stores, what was earned and accepted | challenge, `bootstrap`, `issue`, `present`, verify, restart, drift |
| `Endpoint` | the client's halves, four socket buffers, two pump threads, the handler, the enclave's thread, the provisioning | send, receive, shut down, close; pump, join, read, route, write; the ACME steps |
| `EvidenceService` | each peer's connection, the accept queue, the thread with its phase and the time spent in it | connect, send, shut down, leave, take; accept (or fail to), read and judge, collect, write; a second passes |
| `QuoteServer` | cached quote, requests under way, heartbeat, two limiters, directory and monitor | admit, refresh, store; heartbeat; read; hash, record; write to the directory |
| `UpdateChallenge` | the contract's storage, the balance, a block number | the contract's external functions, one action each, and the next block |
| `TeeGated` | the contract's storage, signed messages in circulation | register, execute, update, sign, time |
| `HelperCall` | pipes, both reader threads, writer thread, polling loop, child and descendant, deadline | one per thread step, the helper's own freedom, the clock |
| `KdsFetch` | blob and manifest file as they are on disk, the calls under way in several processes, the clock | cache lookup, attempt, retry, truncate and write of either file, crash, clock change |
| `Registry` | files of the mirror, the loader's position, the loaded snapshot and entry | publish, replace a file, the loader's reads, lookups |

Every definition that translates code is listed with its lines under `map` in
`PROJECT.json`. Four abstractions recur. A digest or signature is a record of what
was digested or signed, and by whom: equal records are equal bytes, and nobody makes
another key's signature. Parsers are reduced to "parses or not", or to a set of
defects each of which is fatal. Values that the code only compares (names, keys,
payloads, certificates) are members of a small set. A sleep is a step after which
the clock may be anything.

Untrusted parties are part of the models: the relay's network, whoever relays
messages to the contracts, the registry's mirror, the vendor's servers, the carrier
of GPU evidence, the attested host that assembles bundles and quotes, the clients of
an endpoint or a service, a build command that rewrites its tree or leaves a process behind, and
the helper process and its descendants may do anything that needs no key they do not
have.

## Runs

| Run | Instance | Distinct states | Shows |
|---|---|---|---|
| `admission` | tokens of every kind (root, chained, GPU, boot, TPM with a document that ages, other versions and profiles, too large, damaged), 14 policies, 5 receipts, chains up to 2, time up to 4 | 21 000 | `AdmittedChainIsCredible`: every level vouched for by its own quote and exactly enrolled; `AdmittedInTime`: all levels fresh at one instant; `AdmissionPromise` is implemented, its liveness included |
| `relay` | 2 devices, 1 nonce used with several expiries, lifetimes 0 and 3 with u64 ending at 3, skew and drift 1, 1 restart | 923 000 | acceptance traces to a bootstrap; `ChallengeSpentOnce`: nonces are spent once, and by success only, though calls that fail come in between; trust expires; a credential works until then |
| `challenge` | 2 accounts, 2 overlapping proposals of 2 values in either order of resolution, stakes 1 and 5 so that shares do not divide evenly | 1 131 000 | `VotesDecide`: tallies are the votes and only approved values become current; one proposal is never paid from another's stake; only dust is left; outcomes are final |
| `helper` | pipes of 1 unit, requests of 2 and 3, output limits 2, 2 and 1, deadline 1 | 577 000 | results are genuine, the deadline leaves no process, the call returns unless a descendant outlives the helper |
| `helper_bounded_doc` | as above | violated | see *Divergences* |
| `gate` | 2 keys, 2 values, 4 nonces (the empty one too), window [-1, 0], 3 signed messages | 162 000 | `MessagesCountOnce`: ids and nonces are used once; identity comes from the registered key |
| `kds` | 2 processes, 2 bodies, TTL 2 with ceiling 1, 2 attempts, any cache an earlier call can leave | 838 000 | no torn, mixed or over-age bytes; every call returns |
| `gpu_collateral` | GPU and switch under one authority, one expiring device, 2 manifests with room for one, status life 2, responders without lag (what is older comes from the cache), one change to a cache that is read back and one to the evidence on its way | 461 000 | `RevokedIsRefused`: a revocation takes effect in time and wins over other status; acquired evidence is usable as a whole unless an imported object spoils it, or was refused for a cause |
| `release` | a tree of 2 files; a build or an enclave whose command misbehaves or leaves an output that cannot be hashed, 2 builds in one directory, a build and 2 runs, a build, a rebuild and a run; one edit. Registry: 2 keys, validity 1, time up to 2, any mixture of files | 738 000 | `RatchetHolds`: a receipt names the tree compiled; `VerifiedPair`: a verified receipt is of one build; `ChainIsOneTree`: a served or checked chain names one tree and is in a certificate some process made for its own key; `RevocationBound`: a load never hides an old revocation; `ReportedIsSigned`: only signed answers are called verified |
| `build_key_doc` | as above | violated | see *Divergences* |
| `serving` | requests of 2 chunks, and of 3 where the header buffer holds 2, and responses of 3 chunks through sockets of 1; 3 requests for fresh quotes, limits 1 per window of 2, time 2; a directory with 2 contents and unreadable | 26 000 | `RequestAnswered` and `ThreadsEnd` of the bridge, `ChallengeAnswered`, `FullRate` and `ChangeDetected` of the server |
| `evidence` | 2 peers of the service with headers of 2 and 3 chunks, deadlines 2 and 1; 3 GPUs in 2 slots and 2 switches with 2 changes; bundles with repeated, exchanged, replayed or inconsistent reports; quotes of 3 platforms, 2 chips and 2 TCB levels with one thing wrong at a time, time up to 3 | 485 000 | `InventorySnapshot` and `SwitchReportMatches` of the collector; `ServedInTime` of the service; `InventoryExact`, `FabricReciprocal`, `MeasurementsDisposed` of the appraisal; `CurrentTogether`, `SignerIsAppraised`, `NotOutranked` of quotes |

`release`, `serving` and `evidence` instantiate several components that share no state. Each of
their behaviours is about one component, chosen in `Init`, and the others stand
still, so that the product of independent state spaces is not explored.

Why the bounds are enough. Each limit of the code is scaled so that the instance
reaches it and goes one past it: the u64 range ends inside the reachable lifetimes,
pipes, sockets and output limits are smaller than messages, the cached TTL exceeds its
ceiling, one cache is full, a limiter's window opens and closes, windows are one unit
wide with time running two past them. Two devices, keys, processes or proposals are
what the interesting pairs need (mixing, replay to another, overlap); a third adds no
new pair, and the proofs hold for any number. For pure appraisals the inputs are the
genuine ones and everything one change away from them, as each rule of the code is
about one field or one pair of fields. Deadlock checking is off where the system may
rest (a contract nobody calls, a bounded clock that has run out, a finished
verification).

Fairness is assumed only where the code's own scheduling gives it. `Admission`: the
verifying thread keeps running (`WF` of its steps), and so the calls it makes return;
for the Google helper that is `CallReturns` with its premise, and `helper_bounded_doc`
shows how it fails without. Nothing is assumed of time.
`HelperCall`: the caller's writer, readers, polling loop and joins keep running and
time passes; nothing is assumed of the helper or its descendants. `KdsFetch`: a call
keeps making steps, since each request carries a 15 s timeout. `Endpoint`: the proxy's
and the enclave's threads run when they can; a client that keeps its connection reads
what arrives and closes once it has the whole response, and need not send. A request
that is never finished leaves the enclave's thread reading, even after its client has
closed: no read timeout is set and nothing shuts down the vsock connection's write
half when the first pump ends (`v2/src/net/vsock.rs:517`). `ThreadsEnd` is therefore
about clients that sent a whole request. `QuoteServer`: the monitor's interval task
ticks for ever; `ChangeDetected` assumes nothing else. The other modules state safety
only and have no fairness.

## Proofs

| Module | Theorems | Argument |
|---|---|---|
| `AdmissionProofs` | `TypeCorrect`, `AdmissionChainIsCredible` (from `AdmissionIsVouched`, `AdmissionAncestry`), `AdmissionInTime` (from `AdmissionIsFresh` and `AdmissionCollateral`), `Refinement`, `CommitmentBindsClaims` | The invariant says for every level below the current one that its stage is verified and fresh until the chain's deadline, and for the current one which checks have passed at its position. The last clock reading then makes all of them fresh at once. `Refinement` maps every verdict step to a step of the promise. |
| | `QuoteCurrentTogether`, `QuoteSignerAppraised`, `QuoteNotOutranked` | `Established`: what each stage of a quote's verification has checked, on each platform's path, as of the one moment read when it began. `Established` holds whole at acceptance, where the three properties follow from the checks: certificates and documents against that moment, the signer against the chain that was appraised, the verdict's level as the first one the platform meets. |
| `RelayProofs` | `RelayTypeCorrect`, `RelayInheritsAttestation`, `RelayChallengeSpentOnce` (from `RelayNonceOnce`, `RelaySuccessConsumes`), `RelayTrustExpires`, `RelayCredentialUsable` | Every circulating credential was earned (bootstrap record), every nonce earned or accepted in this lifetime is in the store, and expiries are bounded by the challenge they came from. |
| `UpdateChallengeProofs` | `ChallengeTypeCorrect`, `ChallengeVotesDecide` (from `ChallengeTally`, `ChallengeVotesHidden`, `ChallengeCurrentIsApproved`), `ChallengeEscrowHeld`, `ChallengeClaimsCovered`, `ChallengeOutcomeFinal` | Counts are cardinalities of sets of revealed voters, phases are ordered by block number, payees are a subset of the entitled accounts; the division lemma bounds shares times payees by the stake. |
| | `ChallengeSolvent`, `ChallengeNothingStranded` | `Funds`: the balance is the sum of what each proposal has left. A sum of naturals is the number of its units (pairs of an index and a number up to its value), shown for the smallest set on which it would fail; what a step adds to or takes from one summand it adds to or takes from the sum. |
| `TeeGatedProofs` | `GateTypeCorrect`, `GateMessagesCountOnce` (from `GateActionLog`, `GateNonceOnce`), `GateIdentityVouched` | Each accepted message is recorded with its nonce and id; used nonces and ids below the counter are exactly the recorded ones. |
| `KdsFetchProofs` | `KdsTypeCorrect`, `KdsGenuineBytes`, `KdsManifestHonest` | Every manifest on disk or about to be written pins delivered bytes, so a blob that matches its manifest was delivered, whichever process wrote either. |
| `ReleaseProofs` | `RegistryTypeCorrect`, `RegistryRevocationBound`, `RegistryReportedIsSigned` | What a signature of the authority means: a snapshot that does not say Revoked was generated no later than the revocation. |
| | `BuildRatchet`, `BuildVerifiedPair`, `BuildOneTree` | `Ratchet` and `Running`: what the steps a command has made so far tie together (the files hashed, the files copied, the artifact), whatever edits, other commands and crashes came in between. `Served`: a certificate is of a run that serves or is over. `Chained`: the runtime token on disk is of one key, so that no server can offer it under another. |
| `GpuProofs` | `CollateralTypeCorrect`, `CollateralRevokedIsRefused` (from `CollateralRevocation`, `CollateralRevokedWins`), `CollateralUsable`, `CollateralRefusedForCause` | `Sourced`: whatever is cached, imported, gathered or shown was stated by the CA before any revocation it does not mention, or is visibly not the CA's. `Gathered`: the subjects already dealt with are covered by responses, of which those not imported pass at the moment of the call, and a response that passes then passes until it expires. `ForCause`: while the clock stands still, what was fetched was judged at the moment of the call. |
| | `CollectOneInventory`, `CollectSwitchesMatch` | `Recounted`: a GPU taken that was not there at the recount has left, and cannot be found at its index again. `KeysOrdered`: a device's keys only get newer, so a report and a chain read around it that agree are of one key. |
| | `AppraiseExactInventory`, `AppraiseReciprocal`, `AppraiseMeasured` | `Walked` and `Apart`: as many reports are accepted as are enrolled and no identity twice, so by counting all of them. `Vouched`, `Halfway`: each accepted report met its policy entry, its links and its manifests; of the report at hand, the measurements seen are disposed of and only they are no longer awaited. |
| `ServingProofs` | `ServiceServesInTime` | `WaitOK`: what a connection has waited is paid for by the turns that ended since it came and the time spent in the one under way; those still to end before its own are left to pay. |
| | `HelperTyped`, `HelperResultGenuine`, `HelperDeadline` | `PipesOK`: no pipe holds more than its capacity and nobody reads what was not written. `ReadersOK`: a reader that ended well has all that was written, and a digest was made from the whole request. `PolledOK`, `VerdictOK`: what the poll loop saw still describes the process group when the readers have been joined and the verdict is given. |
| | `ServerAnswersChallenge`, `ServerKeepsRate`, `ServerCountsAdmissions` | An answer under way was made for its own nonce after the request, whatever the cache holds by then. `LimiterOK`: the limiter keeps every stamp that still counts, so those it forgot are in no window that a later admission can fill. |

None of the properties is inductive by itself: each speaks of verdicts, payments or
returned bytes, while the reason it holds is in messages, files, pipes and caches made
earlier. The inductive invariant of each component (`IInv`, with `Funds` for the
contract's balance; `QuoteInv`, `BuildInv`, `CollateralIInv`, `CollectInv`,
`AppraiseInv`, `ServiceInv`, `HelperInv`, `ServerInv`) adds that reason and is proved
once per action.

The proofs assume only the named assumptions on constants (`ASSUME` in each
component's module), which the runs also evaluate: numbers are natural, limits that
the code makes positive are, sets of different kinds are disjoint, a `None` is
outside the values it stands beside, what the code reads from a list is a finite
sequence, and the GPUs plugged in at the start are different ones. Type invariants
are proved and not run. `NotOutranked` keeps its premise about Intel's order of
levels, and `ServedInTime` its bound on a collection (see *Assumptions about the
outside*).

Checked by TLC only: liveness (`CallReturns`, `CallsReturn`, `RequestAnswered`,
`ThreadsEnd`, `ChangeDetected` and the fairness part of `ImplementsPromise`), which
the prover does not cover. All that is stated of `Endpoint` is liveness, so it has no
theorem.

## Divergences between code and documents

With a run that exhibits it:

- A helper that exits in time but leaves a descendant holding its output keeps the
  caller waiting for ever, though `v2/google-attestation/README.md:38` says that
  execution time is bounded (`helper_bounded_doc`).
- `cmd_check` takes every handshake signature as valid without looking at it (`NoVerify`,
  `v2/src/main.rs:1008`-`1025`) and compares only the certificate's key with the token.
  A server that has a copy of a served certificate and not its key is accepted
  (`build_key_doc`), though `v2/src/main.rs:1616`-`1619` says that a verifier who
  completes the handshake and compares the key's hash faces "no MITM, no relay", and
  line 911 that "channel binding closes the impersonation case". What does hold is
  `ChainIsOneTree`: the certificate itself was made by a process for its own key.

Noted while modelling, without a run:

- `cmd_enclave` serves an artifact hash of zeros, signed like any other, when its output
  cannot be hashed (`v2/src/main.rs:1633`; any symbolic link in it is enough,
  `v2/src/value_x.rs:57`), though the comment above speaks of the "hash of the build output
  tree". `cmd_build` fails instead. `RatchetHolds` says exactly that.
- `CollateralCache::from_json` (`v2/src/gpu/collateral.rs:48`) does not look at the
  status objects it imports. One about another subject than the entry it is kept with
  passes `check_chain` unseen and is merged into the output, where it can make the
  relying party refuse the bundle. `AcquiredIsUsable` states what is left: every
  certificate has a status, and none that the client fetched itself fails. The program
  itself starts from an empty cache (`v2/src/attestation.rs:139`).
- `claim_reward` pays nothing to voters who approved an approved update
  (`contracts/UpdateChallenge.vy:263`), though line 250 promises a reward to "ALL
  correct voters".
- A registry loaded before a snapshot's `expires_at` keeps answering from it afterwards
  (`v2/src/registry.rs:390`), though line 111 says it must not be trusted then.
- The enclave's endpoint answers 403 to `/acme-challenge` and `/tls-cert`
  (`v2/src/net/vsock.rs:381`), so the provisioning of `v2/src/net/acme.rs`, which
  installs its certificates there (lines 94 and 30), always ends in a refusal.
- `cmd_merge` reports as many "independent TEE vendors" (`v2/src/main.rs:1949`) as it
  was given files, also when all of them come from one platform.
- An accept that fails, which one aborted connection can cause, ends `serve`
  (`v2/src/attestation_cli.rs:829`, `862`); nothing documents that it should.
- Two updates of a TeeGated identity within the staleness window may be applied in
  the opposite order of their timestamps (`contracts/TeeGated.vy:241`); the contract
  promises no order, and `IdentityVouched` only bounds the age of what was accepted.
- `v2/src/eat.rs:205` says the composite verifier rejects every nonempty chain; with
  a prior-stage policy it verifies and admits one.
- `contracts/TeeGated.vy:47` calls the identity immutable; `update_value_x` changes it.
- `v2/src/tee/kds.rs:17` says Retry-After is honoured; it is capped at 30 s (line 91).
- `v2/src/registry.rs:178` gives `Missing` for an empty trust root; `check_sidecar`
  answers `Untrusted` (line 426). Lines 326-327 prefer a fresh snapshot; the first
  snapshot that is not missing is adopted.
- `device_status` (`v2/src/gpu/collateral.rs:204`) fetches with the clock and stores
  with the moment of the call, so a response produced in a later second is refused
  and the acquisition fails; `RefusedForCause` allows exactly that.

## Assumptions about the outside

- A GPU or switch that left a machine does not come back during one collection, and a
  reset gives a device an attestation key it never had. Without the first,
  `InventorySnapshot` fails: the counts agree before and after.
- NSCQ enumerates every switch it is asked about; a switch it never reports is not
  missed by the collector but by the enrolled inventory (`InventoryExact`).
- A driver answers: a collection takes at most `MaxCollect` (`ServedInTime`). The
  documentation leaves a driver that hangs to the process supervisor.
- Intel lists the stronger of two TCB levels first. The code takes the first level a
  platform meets; `NotOutranked` has this as its premise.
- Roots and policies are the verifier's own and are not changed during a verification.

## Not modelled

- Signature arithmetic, DER, CBOR, XML and JSON parsing, and device I/O: out of a model
  checker's reach, without state of their own, and reduced to their outcome where a
  model needs them.
- Boot measurement replay (`v2/src/boot*`) and the CoRIM parser (`gpu/corim.rs`, which
  no verification path calls yet): pure functions from bytes to a verdict, in which what
  can go wrong is in the byte formats.
- Platform back ends (`v2/src/tee/` apart from `kds.rs`): device I/O and report formats;
  their evidence enters `CpuQuote` and `Admission` as what it says.
- The version 1 quote library: the older generation of the formats and checks whose
  successors `CpuPki` and `CpuQuote` model.
- `AttestRegistry.vy`: one insert-only function, of which any property would restate
  its assignment.
- The Google helper program: one sequential request; `HelperCall` treats it as the
  environment.
- The flags of the collection and verification commands, which fill in the collector's
  and the verifier's configuration.
- The JSON receipt as somebody else may have written it, and the `--source-dir` check of
  `cmd_verify` (`v2/src/main.rs:1241`-`1253`): in `AttestedBuild` a JSON file is what some
  build wrote.
- Build and deployment scripts, which run once.

## Plan

The components are modelled in the order the first plan gave and their safety
properties are proved. What could be added:

1. Safety of `Endpoint`: the client never has more of a response than the enclave
   wrote, and what the pumps carry stays in order.
2. `CpuQuote` as the verdict `Admission` asks for and `GpuCollateral` as the status
   `GpuAppraise` relies on, composed by refinement instead of by assumption.
3. The version 1 quote library, where it differs from the one `CpuQuote` models.
