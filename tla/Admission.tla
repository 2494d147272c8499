----------------------------- MODULE Admission -----------------------------
(***************************************************************************)
(* Admission of a received EAT (v2/src/attestation.rs, verify and           *)
(* verify_inner) together with the admission of the build stages it chains  *)
(* to (v2/src/attestation_chain.rs, PriorStagePolicy::verify).              *)
(*                                                                          *)
(* A verification appraises the prior stages oldest first, each with the    *)
(* same procedure as the token itself, and every procedure reads the clock  *)
(* several times while helper processes, certificate checks and event-log   *)
(* replays take time.  One action is the work between two clock reads, so   *)
(* the clock may advance anywhere the code can be overtaken by it.          *)
(* Level k <= Len(cfg.stages) is a prior stage, the last level is the token.*)
(***************************************************************************)
EXTENDS Eat, FiniteSets, Functions

CONSTANTS
    Tokens,          \* tokens a relying party can be handed
    Configs,         \* builder configurations a relying party can ask for
    MaxPriorStages,  \* MAX_PRIOR_STAGES
    MaxReceiptBytes, \* MAX_STAGE_RECEIPT_BYTES
    MaxChainBytes,   \* MAX_DECODED_CHAIN_BYTES
    MaxAgeLimit,     \* the largest max_age a policy may ask for (86400)
    MaxTime          \* bound on the clock

ASSUME AdmissionAssumption ==
    /\ MaxPriorStages \in Nat /\ MaxReceiptBytes \in Nat /\ MaxChainBytes \in Nat
    /\ MaxAgeLimit \in Nat /\ MaxTime \in Nat
    /\ None \notin Configs /\ None \notin Tokens

\* Times are u64 seconds, a prior-stage policy is a sequence.
TokenTimes(t) == /\ t.iat \in Nat
                 /\ t.gpu # None => t.gpu.expires \in Nat
                 /\ t.platform = "AwsSnpNitroTpm" => t.quote.timestamp \in Nat
PolicyTimes(p) == /\ p.max_age \in Nat
                  /\ p.cpu # None => p.cpu.expires \in Nat
                  /\ p.tpm = "nitrotpm" => p.tpm_age \in Nat /\ p.tpm_skew \in Nat

ASSUME TimeAssumption ==
    /\ \A t \in Tokens : TokenTimes(t)
    /\ \A r \in Receipts : Decode[r] # None => TokenTimes(Decode[r])
    /\ \A c \in Configs :
          /\ c.stages \in Seq(Range(c.stages))
          /\ PolicyTimes(c)
          /\ \A k \in DOMAIN c.stages : PolicyTimes(c.stages[k])

VARIABLES
    now,       \* SystemTime::now in seconds
    pc,        \* where the verification is; "valid"/"rejected" is its verdict
    cfg,       \* the verifier's configuration
    token,     \* the token under verification
    pending,   \* receipts of the prior stages, oldest first
    level,     \* the stage being appraised
    chain,     \* VerifiedPriorStages built so far (count 0: none yet)
    at,        \* verify_inner's local `now`
    startedAt, \* history: the clock when verify was called
    workedAt   \* history: the clock when the last appraisal work of the level ended

vars == <<now, pc, cfg, token, pending, level, chain, at, startedAt, workedAt>>

Depth(c) == Len(c.stages)
LastLevel == Depth(cfg) + 1

\* The policy and the token of a level: PriorStagePolicyEntry::verifier builds
\* the same verifier for a stage that the relying party builds for the token.
PolicyAt(k) == IF k <= Depth(cfg) THEN cfg.stages[k] ELSE cfg
TokenAt(k) == IF k <= Depth(cfg) THEN from_cbor(pending[k]) ELSE token
DeadlineAt(k) == TokenAt(k).iat + PolicyAt(k).max_age

-----------------------------------------------------------------------------
(* Configuration: AttestationVerifierBuilder::build and                     *)
(* PriorStagePolicy::validate.                                              *)

\* build(): what a verifier needs, for the token and for every stage.
build(p) ==
    /\ p.max_age > 0 /\ p.max_age <= MaxAgeLimit
    /\ p.tpm = "azure" => p.platform = "AzureSnpVtpm"
    /\ p.tpm = "nitrotpm" => p.platform = "AwsSnpNitroTpm"
    /\ p.platform \in TpmPlatforms => p.cpu # None /\ p.tpm # None
    /\ p.boot # None => p.boot # {}
    /\ p.google_boot => p.boot # None

\* PriorStagePolicyEntry::validate: a stage names its platform, and only
\* Nitro does without CPU collateral and TCB floor.
validate_entry(e) ==
    /\ e.platform \in Platforms
    /\ (e.platform = "AzureSnpVtpm") <=> (e.tpm = "azure")
    /\ (e.platform = "AwsSnpNitroTpm") <=> (e.tpm = "nitrotpm")
    /\ (e.platform = "Nitro") <=> (e.cpu = None)

\* PriorStagePolicy::validate: distinct names and receipts, one Value X.
validate(stages) ==
    /\ Len(stages) <= MaxPriorStages
    /\ \A k \in DOMAIN stages : validate_entry(stages[k]) /\ build(stages[k])
    /\ \A j, k \in DOMAIN stages :
          /\ j # k => stages[j].name # stages[k].name
          /\ j # k => stages[j].receipt # stages[k].receipt
          /\ stages[j].value_x = stages[k].value_x

\* No stages stands for a builder without with_prior_stage_policy.
ValidConfig(c) == build(c) /\ (c.stages # <<>> => validate(c.stages))

-----------------------------------------------------------------------------
(* Preparing the chain: exact pins, newest first, before anything is        *)
(* believed.                                                                *)

check_token(e, t) ==
    /\ t.binding_suite \in {SuiteDual, SuiteComposite}
    /\ e.platform \in TpmPlatforms => t.binding_suite = SuiteComposite
    /\ t.build = e.build
    /\ t.value_x = e.value_x
    /\ t.nonce = e.nonce
    /\ t.platform = e.platform
    /\ t.tls_spki = e.tls_spki

\* p is the chain of receipts that starts at the token's predecessor and ends
\* at a stage without one, every receipt matching its pin.
Prepared(c, t, p) ==
    /\ \A k \in DOMAIN p :
          /\ Size[p[k]] <= MaxReceiptBytes
          /\ Sha256(p[k]) = c.stages[k].receipt
          /\ from_cbor(p[k]) # None
          /\ check_token(c.stages[k], from_cbor(p[k]))
          /\ from_cbor(p[k]).previous = IF k = 1 THEN None ELSE p[k - 1]
    /\ p[Len(c.stages)] = t.previous
    /\ SumFunction([k \in DOMAIN p |-> Size[p[k]]]) <= MaxChainBytes

Chains(c) == [1 .. Len(c.stages) -> Receipts]

NoChain == [count |-> 0, predecessor |-> ZeroHash, value_x |-> None, deadline |-> 0]

\* verify_internal: without a prior-stage policy the token is appraised alone.
Begin(c, t) ==
    /\ pc = "idle"
    /\ ValidConfig(c)
    /\ cfg' = c /\ token' = t
    /\ startedAt' = now /\ workedAt' = now /\ at' = now
    /\ level' = 1 /\ chain' = NoChain
    /\ \/ /\ c.stages = <<>>
          /\ pending' = <<>> /\ pc' = "ancestry"
       \/ /\ c.stages # <<>>
          /\ \E p \in Chains(c) : Prepared(c, t, p) /\ pending' = p
          /\ pc' = "ancestry"
       \/ /\ c.stages # <<>>
          /\ ~ \E p \in Chains(c) : Prepared(c, t, p)
          /\ pending' = <<>> /\ pc' = "rejected"
    /\ UNCHANGED now

-----------------------------------------------------------------------------
(* verify_inner, once per level.  HasPrior is `prior.is_some()`.            *)

HasPrior == level > 1
Tok == TokenAt(level)
Pol == PolicyAt(level)

Go(next) == /\ pc' = next
            /\ UNCHANGED <<now, cfg, token, pending, level, chain, startedAt>>

\* A step of verify_inner goes on when its check holds and rejects otherwise.
Check(here, ok, next) ==
    /\ pc = here
    /\ Go(IF ok THEN next ELSE "rejected")

\* Mutation of check_child: the chain's deadline is not looked at.
check_child_no_deadline(t) ==
    /\ chain.count > 0 /\ t.previous # None
    /\ t.binding_suite \in {SuiteDual, SuiteComposite}
    /\ previous_hash(t) = chain.predecessor
    /\ t.value_x = chain.value_x

check_child(t) ==
    /\ chain.count > 0 /\ t.previous # None
    /\ t.binding_suite \in {SuiteDual, SuiteComposite}
    /\ previous_hash(t) = chain.predecessor
    /\ t.value_x = chain.value_x
    /\ now <= chain.deadline

CheckAncestry ==
    /\ Check("ancestry",
             validate_shape(Tok) /\ (IF HasPrior THEN check_child(Tok)
                                                 ELSE Tok.previous = None),
             "claims")
    /\ UNCHANGED <<at, workedAt>>

Fresh(t, p, time) == t.iat <= time /\ time - t.iat <= p.max_age

ClaimsMatch(t, p) ==
    /\ t.nonce = p.nonce
    /\ t.tls_spki = p.tls_spki
    /\ t.value_x = p.value_x
    /\ p.platform # None => t.platform = p.platform
    /\ (p.tpm = "azure") <=> (t.platform = "AzureSnpVtpm")
    /\ (p.tpm = "nitrotpm") <=> (t.platform = "AwsSnpNitroTpm")

CheckClaims ==
    /\ Check("claims", Fresh(Tok, Pol, now) /\ ClaimsMatch(Tok, Pol), "cpu")
    /\ at' = now
    /\ UNCHANGED workedAt

\* Mutation of QuoteAppraised: the commitment to the token is not compared.
QuoteAppraisedUnbound(t, p) ==
    LET q == t.quote IN
    /\ q \in Signed
    /\ q.platform = t.platform
    /\ q.measurement # None /\ ~q.debug
    /\ p.measurement = q.measurement

\* The CPU quote: signed by pinned vendor hardware for this platform, bound
\* to this token, not a debug launch, and at the approved measurement.
QuoteAppraised(t, p) ==
    LET q == t.quote IN
    /\ q \in Signed
    /\ q.platform = t.platform
    /\ q.report_data[1] = binding_bytes(t)
    /\ t.binding_suite # SuiteV2 => q.report_data = report_data_64(t)
    /\ q.measurement # None /\ ~q.debug
    /\ t.measurement # None => t.measurement = q.measurement
    /\ p.measurement = q.measurement
    /\ p.platform \in TpmPlatforms => q.tpm = p.pcrs

\* Vendor collateral: only Nitro has none; it is current at `time` and the
\* quote's TCB is not below the relying party's floor.
CollateralAppraised(t, p, time) ==
    /\ (t.platform = "Nitro") <=> (p.cpu = None)
    /\ p.cpu # None => time <= p.cpu.expires /\ t.quote.tcb >= p.cpu.floor

\* A NitroTPM document is neither stale nor from the future at verify_inner's
\* `now`, which is older than the clock CPU collateral is judged by.
DocumentAppraised(t, p, time) ==
    t.platform = "AwsSnpNitroTpm" =>
       t.quote.timestamp <= time + p.tpm_skew /\ time - t.quote.timestamp <= p.tpm_age

AppraiseCpu ==
    /\ Check("cpu", /\ QuoteAppraised(Tok, Pol) /\ CollateralAppraised(Tok, Pol, now)
                    /\ DocumentAppraised(Tok, Pol, at), "gpu")
    /\ workedAt' = now
    /\ UNCHANGED at

\* GPU evidence is appraised against the `now` read before the CPU quote; a
\* configured inventory policy makes the evidence mandatory.
GpuAppraised(t, p, time) ==
    IF t.gpu = None
    THEN p.gpu = None
    ELSE /\ t.binding_suite = SuiteComposite
         /\ p.gpu # None
         /\ t.gpu.nonce = t.nonce
         /\ t.gpu.devices = p.gpu
         /\ time <= t.gpu.expires

AppraiseGpu ==
    /\ Check("gpu", GpuAppraised(Tok, Pol, at), "boot")
    /\ workedAt' = now
    /\ UNCHANGED at

\* The registers a boot log replays to, as the CPU or TPM signs them.
Replay(log) == <<"registers", log>>

BootAppraised(t, p) ==
    IF p.boot = None
    THEN t.boot = None
    ELSE /\ t.binding_suite = SuiteComposite /\ t.boot # None
         /\ t.platform \in TpmPlatforms \cup {"Tdx"}
         /\ p.google_boot => t.platform = "Tdx"
         /\ t.quote.registers = Replay(t.boot)
         /\ p.boot \subseteq t.boot

AppraiseBoot ==
    /\ \/ Check("boot", BootAppraised(Tok, Pol), "completion")
       \/ pc = "boot" /\ Pol.google_boot /\ Go("rejected")
    /\ workedAt' = now
    /\ UNCHANGED at

\* A level's verdict is valid: the chain grows by the stage, or the token is
\* admitted.
StageVerified ==
    /\ chain' = [count |-> chain.count + 1,
                 predecessor |-> Sha256(pending[level]),
                 value_x |-> IF chain.count = 0 THEN Tok.value_x ELSE chain.value_x,
                 deadline |-> IF chain.count = 0 \/ DeadlineAt(level) < chain.deadline
                              THEN DeadlineAt(level) ELSE chain.deadline]
    /\ level' = level + 1
    /\ pc' = IF level = Depth(cfg) THEN "deadline" ELSE "ancestry"

LevelVerified ==
    /\ IF level < LastLevel
       THEN StageVerified
       ELSE pc' = "valid" /\ UNCHANGED <<chain, level>>
    /\ UNCHANGED <<now, cfg, token, pending, startedAt>>

\* Mutation of CheckCompletion: fresh when verification began is enough.
CheckCompletionOnce ==
    /\ pc = "completion"
    /\ \/ ~HasPrior /\ LevelVerified
       \/ HasPrior /\ Go("recheck")
    /\ UNCHANGED <<at, workedAt>>

\* The freshness check after the work: a receipt that expired meanwhile is
\* rejected.
CheckCompletion ==
    /\ pc = "completion"
    /\ \/ Fresh(Tok, Pol, now) /\ ~HasPrior /\ LevelVerified
       \/ Fresh(Tok, Pol, now) /\ HasPrior /\ Go("recheck")
       \/ ~Fresh(Tok, Pol, now) /\ Go("rejected")
    /\ UNCHANGED <<at, workedAt>>

RecheckAncestry ==
    /\ pc = "recheck"
    /\ \/ check_child(Tok) /\ LevelVerified
       \/ ~check_child(Tok) /\ Go("rejected")
    /\ UNCHANGED <<at, workedAt>>

\* PriorStagePolicy::verify's last clock read, before the token's own turn.
CheckDeadline ==
    /\ Check("deadline", now <= chain.deadline, "ancestry")
    /\ UNCHANGED <<at, workedAt>>

\* The caller takes the verdict; the call's locals are gone.
Return ==
    /\ pc \in {"valid", "rejected"}
    /\ pc' = "idle"
    /\ cfg' = None /\ token' = None /\ pending' = <<>> /\ level' = 1 /\ chain' = NoChain
    /\ at' = 0 /\ startedAt' = 0 /\ workedAt' = 0
    /\ UNCHANGED now

Tick ==
    /\ now < MaxTime
    /\ now' = now + 1
    /\ UNCHANGED <<pc, cfg, token, pending, level, chain, at, startedAt, workedAt>>

-----------------------------------------------------------------------------
Init ==
    /\ now = 0
    /\ pc = "idle"
    /\ cfg = None /\ token = None
    /\ pending = <<>> /\ level = 1 /\ chain = NoChain
    /\ at = 0 /\ startedAt = 0 /\ workedAt = 0

Step ==
    \/ CheckAncestry \/ CheckClaims
    \/ AppraiseCpu \/ AppraiseGpu \/ AppraiseBoot
    \/ CheckCompletion \/ RecheckAncestry \/ CheckDeadline

Next ==
    \/ \E c \in Configs, t \in Tokens : Begin(c, t)
    \/ Step
    \/ Return
    \/ Tick

\* A started verification is a running thread: it keeps taking its steps.
Spec == Init /\ [][Next]_vars /\ WF_vars(Step)

-----------------------------------------------------------------------------
(* Correctness.                                                             *)

Working == {"ancestry", "claims", "cpu", "gpu", "boot", "completion", "recheck",
            "deadline"}

\* Every variable holds a value of the code's type; a running verification has
\* a built configuration, one receipt per configured stage and a chain that is
\* as long as the stages passed.
TypeOK ==
    /\ now \in 0 .. MaxTime
    /\ at \in 0 .. now /\ startedAt \in 0 .. now /\ workedAt \in startedAt .. now
    /\ pc \in {"idle", "valid", "rejected"} \cup Working
    /\ level \in Nat \ {0}
    /\ chain.count \in Nat /\ chain.deadline \in Int
    /\ pc \in Working \cup {"valid"} =>
          /\ cfg \in Configs /\ token \in Tokens
          /\ pending \in Chains(cfg)
          /\ level \in 1 .. LastLevel
          /\ chain.count = level - 1

Admitted == pc = "valid"

\* What it takes to believe a token under a policy: hardware signed a quote
\* over exactly this token's claims, links and evidence, at the measurement
\* the relying party approved.
Vouched(t, p) ==
    /\ t.quote \in Signed
    /\ t.quote.report_data[1] = binding_bytes(t)
    /\ t.quote.platform = t.platform
    /\ t.quote.measurement = p.measurement /\ ~t.quote.debug
    /\ t.nonce = p.nonce /\ t.tls_spki = p.tls_spki /\ t.value_x = p.value_x
    /\ t.gpu # None => t.binding_suite = SuiteComposite /\ t.gpu.devices = p.gpu
    /\ t.boot # None => p.boot # None /\ p.boot \subseteq t.boot
    /\ p.gpu # None => t.gpu # None
    /\ p.boot # None => t.boot # None

\* An admitted token and every stage it chains to is vouched for by its own
\* quote: no level of the chain is believed on the strength of a pin, of
\* another level's quote, or of evidence its own quote does not commit to.
AdmittedIsVouched ==
    Admitted => \A k \in 1 .. LastLevel : Vouched(TokenAt(k), PolicyAt(k))

\* The ancestry of an admitted token is exactly the enrolled sequence of
\* receipts: no stage missing, reordered, substituted or added in front, and
\* Value X is the same from the first build stage to the token.
AdmittedAncestryIsEnrolled ==
    Admitted =>
        /\ TokenAt(1).previous = None
        /\ \A k \in 2 .. LastLevel :
              /\ TokenAt(k).previous = pending[k - 1]
              /\ previous_hash(TokenAt(k)) = cfg.stages[k - 1].receipt
              /\ TokenAt(k - 1).build = cfg.stages[k - 1].build
        /\ \A k \in 1 .. LastLevel : TokenAt(k).value_x = cfg.value_x

\* A verification can take longer than a receipt lives.  When a token is
\* admitted there was one instant, after all of its appraisal work, at which
\* the token and every stage of its ancestry were fresh.
AdmittedIsFresh ==
    Admitted => \A k \in 1 .. LastLevel :
                    /\ TokenAt(k).iat <= workedAt
                    /\ workedAt <= DeadlineAt(k)

DocumentCurrent(t, p, time) == time <= t.quote.timestamp + p.tpm_age

\* The collateral and the documents that vouch for a level were current at a clock reading of
\* this very verification, never only at an earlier one.
AdmittedCollateralWasCurrent ==
    Admitted => \A k \in 1 .. LastLevel :
        /\ PolicyAt(k).cpu # None => startedAt <= PolicyAt(k).cpu.expires
        /\ TokenAt(k).gpu # None => startedAt <= TokenAt(k).gpu.expires
        /\ TokenAt(k).platform = "AwsSnpNitroTpm" => DocumentCurrent(TokenAt(k), PolicyAt(k), startedAt)

\* An admitted chain is credible at every level and the one that was enrolled.
AdmittedChainIsCredible == AdmittedIsVouched /\ AdmittedAncestryIsEnrolled

\* Nothing an admission rests on was out of date: the tokens were fresh together
\* and the collateral current, although time passes during the verification.
AdmittedInTime == AdmittedIsFresh /\ AdmittedCollateralWasCurrent

\* The procedure implements the promise: its inner steps are all "pending".
verdict == IF pc \in Working THEN "pending" ELSE pc
Promise == INSTANCE AdmissionPromise
              WITH now <- now, verdict <- verdict, cfg <- cfg, token <- token,
                   startedAt <- startedAt

\* Every behaviour of the verifier is one the promise allows, and every
\* verification that was started is decided.
ImplementsPromise == Promise!Spec
=============================================================================
