-------------------------- MODULE AdmissionProofs --------------------------
(***************************************************************************)
(* Proofs about admission and the CPU quotes it rests on.                   *)
(*                                                                          *)
(* Admission, for every chain length, every set of tokens, receipts and     *)
(* configurations, and every schedule of clock ticks.                       *)
(*                                                                          *)
(* The safety properties speak of the moment of admission; the invariant    *)
(* IInv says what has been established on the way there: for every level    *)
(* already passed all of it (LevelPassed), for the current level what the   *)
(* position in verify_inner has checked so far (LevelInv), and for the      *)
(* chain under construction that its deadline bounds every stage's.         *)
(*                                                                          *)
(* CpuQuote, for any quote, collateral, policy and pinned roots: what each  *)
(* stage has established (Established) holds as of the one moment read when *)
(* verification began, so it holds together.                                *)
(***************************************************************************)
EXTENDS Admission, CpuQuote, SequenceTheorems, WellFoundedInduction, TLAPS

AncestryDone == {"claims", "cpu", "gpu", "boot", "completion", "recheck"}
ClaimsDone == {"cpu", "gpu", "boot", "completion", "recheck"}
CpuDone == {"gpu", "boot", "completion", "recheck"}
GpuDone == {"boot", "completion", "recheck"}
BootDone == {"completion", "recheck"}

Linked(k) == IF k = 1 THEN TokenAt(k).previous = None
                      ELSE previous_hash(TokenAt(k)) = Sha256(pending[k - 1])

LevelPassed(k) ==
    /\ validate_shape(TokenAt(k))
    /\ Linked(k)
    /\ TokenAt(k).value_x = TokenAt(1).value_x
    /\ ClaimsMatch(TokenAt(k), PolicyAt(k))
    /\ QuoteAppraised(TokenAt(k), PolicyAt(k))
    /\ CollateralAppraised(TokenAt(k), PolicyAt(k), startedAt)
    /\ TokenAt(k).platform = "AwsSnpNitroTpm" => DocumentCurrent(TokenAt(k), PolicyAt(k), startedAt)
    /\ GpuAppraised(TokenAt(k), PolicyAt(k), startedAt)
    /\ BootAppraised(TokenAt(k), PolicyAt(k))
    /\ TokenAt(k).iat <= workedAt

ChainInv ==
    /\ Depth(cfg) > 0 => Prepared(cfg, token, pending)
    /\ \A k \in 1 .. (level - 1) : LevelPassed(k) /\ chain.deadline <= DeadlineAt(k)
    /\ level > 1 => /\ chain.predecessor = Sha256(pending[level - 1])
                    /\ chain.value_x = TokenAt(1).value_x

LevelInv ==
    /\ pc \in AncestryDone => /\ validate_shape(Tok) /\ Linked(level)
                              /\ Tok.value_x = TokenAt(1).value_x
    /\ pc \in ClaimsDone => ClaimsMatch(Tok, Pol) /\ Tok.iat <= at /\ startedAt <= at
    /\ pc \in CpuDone => /\ QuoteAppraised(Tok, Pol)
                         /\ CollateralAppraised(Tok, Pol, startedAt)
                         /\ Tok.platform = "AwsSnpNitroTpm" => DocumentCurrent(Tok, Pol, startedAt)
                         /\ at <= workedAt
    /\ pc \in GpuDone => GpuAppraised(Tok, Pol, startedAt)
    /\ pc \in BootDone => BootAppraised(Tok, Pol)
    /\ pc \in {"recheck", "valid"} => workedAt <= DeadlineAt(level)
    /\ pc = "deadline" => level > 1
    /\ pc = "valid" => /\ level = LastLevel /\ LevelPassed(level)
                       /\ level > 1 => workedAt <= chain.deadline

IInv == TypeOK /\ (pc \in Working \cup {"valid"} => ChainInv /\ LevelInv)

-----------------------------------------------------------------------------
(* What the assumptions say about a configuration and a chain.              *)

LEMMA DepthNat ==
  \A c \in Configs : Depth(c) \in Nat /\ DOMAIN c.stages = 1 .. Depth(c)
  BY TimeAssumption DEF Depth

\* Every level of a prepared chain has a token and a policy with times.
LEMMA LevelTimes ==
  ASSUME cfg \in Configs, token \in Tokens, pending \in Chains(cfg),
         Depth(cfg) > 0 => Prepared(cfg, token, pending),
         NEW k \in 1 .. LastLevel
  PROVE  /\ TokenTimes(TokenAt(k)) /\ PolicyTimes(PolicyAt(k))
         /\ TokenAt(k).iat \in Nat /\ PolicyAt(k).max_age \in Nat
         /\ DeadlineAt(k) \in Int
<1>1. Depth(cfg) \in Nat /\ DOMAIN cfg.stages = 1 .. Depth(cfg)
  BY DepthNat
<1>2. TokenTimes(TokenAt(k)) /\ PolicyTimes(PolicyAt(k))
  <2>1. CASE k <= Depth(cfg)
    <3>1. k \in 1 .. Depth(cfg) /\ DOMAIN pending = 1 .. Depth(cfg) /\ pending[k] \in Receipts
      BY <2>1, <1>1 DEF Chains, Depth
    <3>2. from_cbor(pending[k]) # None
      BY <3>1, <1>1, <2>1 DEF Prepared
    <3>3. from_cbor(pending[k]) = Decode[pending[k]]
      BY <3>2 DEF from_cbor
    <3>4. TokenTimes(from_cbor(pending[k]))
      BY <3>1, <3>2, <3>3, TimeAssumption
    <3>5. PolicyTimes(cfg.stages[k])
      BY <3>1, <1>1, TimeAssumption
    <3> QED BY <3>4, <3>5, <2>1 DEF TokenAt, PolicyAt
  <2>2. CASE ~(k <= Depth(cfg))
    BY <2>2, TimeAssumption DEF TokenAt, PolicyAt
  <2> QED BY <2>1, <2>2
<1>3. TokenAt(k).iat \in Nat /\ PolicyAt(k).max_age \in Nat
  BY <1>2 DEF TokenTimes, PolicyTimes
<1> QED BY <1>2, <1>3 DEF DeadlineAt

-----------------------------------------------------------------------------
(* A step that keeps the call's inputs keeps what is known about levels.    *)

LEMMA LevelFrame ==
  ASSUME UNCHANGED <<cfg, token, pending>>, NEW k
  PROVE  /\ TokenAt(k)' = TokenAt(k) /\ PolicyAt(k)' = PolicyAt(k)
         /\ DeadlineAt(k)' = DeadlineAt(k) /\ Linked(k)' = Linked(k)
  BY DEF TokenAt, PolicyAt, DeadlineAt, Linked, Depth, from_cbor, validate_shape, previous_hash, Sha256

LEMMA PassedFrame ==
  ASSUME UNCHANGED <<cfg, token, pending, startedAt>>, NEW k,
         LevelPassed(k), TokenAt(k).iat \in Int, workedAt \in Int, workedAt' \in Int,
         workedAt <= workedAt'
  PROVE  LevelPassed(k)'
<1>1. /\ TokenAt(k)' = TokenAt(k) /\ PolicyAt(k)' = PolicyAt(k)
      /\ Linked(k)' = Linked(k) /\ TokenAt(1)' = TokenAt(1)
  BY LevelFrame
<1>2. TokenAt(k).iat <= workedAt'
  BY DEF LevelPassed
<1> QED BY <1>1, <1>2 DEF LevelPassed

LEMMA ChainFrame ==
  ASSUME ChainInv, cfg \in Configs, token \in Tokens, pending \in Chains(cfg),
         level \in 1 .. LastLevel,
         UNCHANGED <<cfg, token, pending, startedAt, level, chain>>,
         workedAt \in Int, workedAt' \in Int, workedAt <= workedAt'
  PROVE  ChainInv'
<1>1. ASSUME NEW k \in 1 .. (level - 1)
      PROVE  LevelPassed(k)' /\ chain'.deadline <= DeadlineAt(k)'
  <2>1. LevelPassed(k) /\ chain.deadline <= DeadlineAt(k)
    BY DEF ChainInv
  <2>2. TokenAt(k).iat \in Int
    <3>1. k \in 1 .. LastLevel
      BY DepthNat DEF LastLevel
    <3> QED BY <3>1, LevelTimes DEF ChainInv
  <2> QED BY <2>1, <2>2, PassedFrame, LevelFrame
<1>2. TokenAt(1)' = TokenAt(1)
  BY LevelFrame
<1>3. Depth(cfg)' > 0 => Prepared(cfg, token, pending)'
  BY DEF ChainInv, Depth
<1> QED BY <1>1, <1>2, <1>3 DEF ChainInv

-----------------------------------------------------------------------------
(* Every action preserves the invariant.                                    *)

LEMMA InitInv == Init => IInv
  BY AdmissionAssumption DEF Init, IInv, TypeOK, Working, NoChain

\* Time passing, and nothing happening at all.
LEMMA ClockInv ==
  ASSUME IInv, now' \in now .. MaxTime,
         UNCHANGED <<pc, cfg, token, pending, level, chain, at, startedAt, workedAt>>
  PROVE  IInv'
<1>1. TypeOK'
  BY AdmissionAssumption DEF IInv, TypeOK, LastLevel, Depth, Chains
<1>2. ASSUME pc \in Working \cup {"valid"} PROVE ChainInv' /\ LevelInv'
  <2>1. ChainInv'
    BY <1>2, ChainFrame DEF IInv, TypeOK
  <2>2. UNCHANGED <<Tok, Pol, DeadlineAt(level), Linked(level), TokenAt(1), LastLevel>>
    BY DEF Tok, Pol, TokenAt, PolicyAt, LastLevel, Depth, DeadlineAt, Linked,
         from_cbor, validate_shape, previous_hash, Sha256
  <2>3. LevelPassed(level) => LevelPassed(level)'
    BY <2>2 DEF LevelPassed, Tok, Pol
  <2> QED BY <1>2, <2>1, <2>2, <2>3 DEF IInv, LevelInv
<1> QED BY <1>1, <1>2 DEF IInv

LEMMA ReturnInv == IInv /\ Return => IInv'
  BY DEF IInv, TypeOK, Return, Working, NoChain

LEMMA BeginInv ==
  ASSUME IInv, NEW c \in Configs, NEW t \in Tokens, Begin(c, t)
  PROVE  IInv'
<1>1. CASE pc' = "rejected"
  BY <1>1 DEF IInv, TypeOK, Begin, Working, NoChain
<1>2. CASE pc' = "ancestry"
  <2>1. Depth(c) \in Nat /\ (c.stages = <<>> <=> Depth(c) = 0)
    BY DepthNat, TimeAssumption DEF Depth
  <2>2. pending' \in Chains(c) /\ (Depth(c) > 0 => Prepared(c, t, pending'))
    <3>1. CASE c.stages = <<>>
      BY <3>1, <2>1, <1>2 DEF Begin, Chains, Depth
    <3>2. CASE c.stages # <<>>
      BY <3>2, <1>2 DEF Begin
    <3> QED BY <3>1, <3>2
  <2>3. TypeOK'
    BY <1>2, <2>1, <2>2 DEF IInv, TypeOK, Begin, Working, NoChain, LastLevel, Depth
  <2>4. ChainInv'
    BY <2>2 DEF ChainInv, Begin, Depth
  <2>5. LevelInv'
    BY <1>2 DEF LevelInv, AncestryDone, ClaimsDone, CpuDone, GpuDone, BootDone
  <2> QED BY <2>3, <2>4, <2>5 DEF IInv
<1> QED BY <1>1, <1>2 DEF Begin

\* The part of every step inside one level that the position does not matter
\* for: the inputs stay, the clock stays, history moves forward.
LEMMA InsideLevel ==
  ASSUME IInv, pc \in Working, pc' \in Working \cup {"valid", "rejected"},
         UNCHANGED <<now, cfg, token, pending, level, chain, startedAt>>,
         at' \in 0 .. now, workedAt' \in 0 .. now, workedAt <= workedAt'
  PROVE  /\ TypeOK' /\ ChainInv'
         /\ Tok' = Tok /\ Pol' = Pol /\ Linked(level)' = Linked(level)
         /\ DeadlineAt(level)' = DeadlineAt(level)
         /\ TokenAt(1)' = TokenAt(1) /\ LastLevel' = LastLevel
         /\ Tok.iat \in Nat /\ Pol.max_age \in Nat
         /\ DeadlineAt(level) = Tok.iat + Pol.max_age
         /\ TokenTimes(Tok) /\ PolicyTimes(Pol)
<1>1. TypeOK'
  BY DEF IInv, TypeOK, LastLevel, Depth, Chains, Working
<1>2. ChainInv'
  BY ChainFrame DEF IInv, TypeOK
<1>3. /\ TokenTimes(TokenAt(level)) /\ PolicyTimes(PolicyAt(level))
      /\ TokenAt(level).iat \in Nat /\ PolicyAt(level).max_age \in Nat
  BY LevelTimes DEF IInv, TypeOK, ChainInv
<1>4. /\ TokenAt(level)' = TokenAt(level) /\ PolicyAt(level)' = PolicyAt(level)
      /\ Linked(level)' = Linked(level) /\ DeadlineAt(level)' = DeadlineAt(level)
      /\ TokenAt(1)' = TokenAt(1) /\ LastLevel' = LastLevel
  BY DEF TokenAt, PolicyAt, DeadlineAt, Linked, LastLevel, Depth, from_cbor, validate_shape,
         previous_hash, Sha256
<1> QED BY <1>1, <1>2, <1>3, <1>4 DEF Tok, Pol, DeadlineAt

LEMMA CheckAncestryInv == IInv /\ CheckAncestry => IInv'
<1> SUFFICES ASSUME IInv, CheckAncestry PROVE IInv'
  OBVIOUS
<1>1. /\ pc = "ancestry" /\ pc' \in {"claims", "rejected"} /\ UNCHANGED <<at, workedAt>>
      /\ UNCHANGED <<now, cfg, token, pending, level, chain, startedAt>>
  BY DEF CheckAncestry, Check, Go
<1>2. TypeOK' /\ ChainInv' /\ Tok' = Tok /\ Linked(level)' = Linked(level) /\ TokenAt(1)' = TokenAt(1)
  BY <1>1, InsideLevel DEF IInv, TypeOK, Working
<1>3. CASE pc' = "claims"
  <2>1. validate_shape(Tok) /\ (IF HasPrior THEN check_child(Tok) ELSE Tok.previous = None)
    BY <1>1, <1>3 DEF CheckAncestry, Check, Go
  <2>2. level \in Nat \ {0} /\ ChainInv
    BY <1>1 DEF IInv, TypeOK, Working
  <2>3. Linked(level) /\ Tok.value_x = TokenAt(1).value_x
    BY <2>1, <2>2 DEF Linked, HasPrior, check_child, ChainInv, Tok
  <2>4. LevelInv'
    BY <1>2, <1>3, <2>1, <2>3 DEF LevelInv, AncestryDone, ClaimsDone, CpuDone, GpuDone, BootDone
  <2> QED BY <1>2, <2>4 DEF IInv
<1>4. CASE pc' = "rejected"
  BY <1>2, <1>4 DEF IInv, Working
<1> QED BY <1>1, <1>3, <1>4

LEMMA CheckClaimsInv == IInv /\ CheckClaims => IInv'
<1> SUFFICES ASSUME IInv, CheckClaims PROVE IInv'
  OBVIOUS
<1>1. /\ pc = "claims" /\ pc' \in {"cpu", "rejected"} /\ at' = now /\ workedAt' = workedAt
      /\ UNCHANGED <<now, cfg, token, pending, level, chain, startedAt>>
  BY DEF CheckClaims, Check, Go
<1>2. /\ TypeOK' /\ ChainInv' /\ Tok' = Tok /\ Pol' = Pol /\ Linked(level)' = Linked(level)
      /\ TokenAt(1)' = TokenAt(1)
  BY <1>1, InsideLevel DEF IInv, TypeOK, Working
<1>3. CASE pc' = "cpu"
  <2>1. Fresh(Tok, Pol, now) /\ ClaimsMatch(Tok, Pol)
    BY <1>1, <1>3 DEF CheckClaims, Check, Go
  <2>2. LevelInv /\ startedAt <= now
    BY <1>1 DEF IInv, TypeOK, Working
  <2>3. LevelInv'
    BY <1>1, <1>2, <1>3, <2>1, <2>2
       DEF LevelInv, AncestryDone, ClaimsDone, CpuDone, GpuDone, BootDone, Fresh
  <2> QED BY <1>2, <2>3 DEF IInv
<1>4. CASE pc' = "rejected"
  BY <1>2, <1>4 DEF IInv, Working
<1> QED BY <1>1, <1>3, <1>4

LEMMA AppraiseCpuInv == IInv /\ AppraiseCpu => IInv'
<1> SUFFICES ASSUME IInv, AppraiseCpu PROVE IInv'
  OBVIOUS
<1>1. /\ pc = "cpu" /\ pc' \in {"gpu", "rejected"} /\ at' = at /\ workedAt' = now
      /\ UNCHANGED <<now, cfg, token, pending, level, chain, startedAt>>
  BY DEF AppraiseCpu, Check, Go
<1>2. /\ TypeOK' /\ ChainInv' /\ Tok' = Tok /\ Pol' = Pol /\ Linked(level)' = Linked(level)
      /\ TokenAt(1)' = TokenAt(1) /\ PolicyTimes(Pol) /\ TokenTimes(Tok)
  BY <1>1, InsideLevel DEF IInv, TypeOK, Working
<1>3. CASE pc' = "gpu"
  <2>1. QuoteAppraised(Tok, Pol) /\ CollateralAppraised(Tok, Pol, now) /\ DocumentAppraised(Tok, Pol, at)
    BY <1>1, <1>3 DEF AppraiseCpu, Check, Go
  <2>2. /\ LevelInv /\ startedAt \in 0 .. now /\ at \in 0 .. now /\ now \in Nat
        /\ ClaimsMatch(Tok, Pol) /\ startedAt <= at
    BY <1>1 DEF IInv, TypeOK, Working, LevelInv, ClaimsDone
  <2>3. CollateralAppraised(Tok, Pol, startedAt)
    BY <1>2, <2>1, <2>2 DEF CollateralAppraised, PolicyTimes
  <2>4. Tok.platform = "AwsSnpNitroTpm" => DocumentCurrent(Tok, Pol, startedAt)
    BY <1>2, <2>1, <2>2 DEF DocumentAppraised, DocumentCurrent, ClaimsMatch, TokenTimes, PolicyTimes
  <2>5. LevelInv'
    BY <1>1, <1>2, <1>3, <2>1, <2>2, <2>3, <2>4
       DEF LevelInv, AncestryDone, ClaimsDone, CpuDone, GpuDone, BootDone
  <2> QED BY <1>2, <2>5 DEF IInv
<1>4. CASE pc' = "rejected"
  BY <1>2, <1>4 DEF IInv, Working
<1> QED BY <1>1, <1>3, <1>4

LEMMA AppraiseGpuInv == IInv /\ AppraiseGpu => IInv'
<1> SUFFICES ASSUME IInv, AppraiseGpu PROVE IInv'
  OBVIOUS
<1>1. /\ pc = "gpu" /\ pc' \in {"boot", "rejected"} /\ at' = at /\ workedAt' = now
      /\ UNCHANGED <<now, cfg, token, pending, level, chain, startedAt>>
  BY DEF AppraiseGpu, Check, Go
<1>2. /\ TypeOK' /\ ChainInv' /\ Tok' = Tok /\ Pol' = Pol /\ Linked(level)' = Linked(level)
      /\ TokenAt(1)' = TokenAt(1) /\ TokenTimes(Tok)
  BY <1>1, InsideLevel DEF IInv, TypeOK, Working
<1>3. CASE pc' = "boot"
  <2>1. GpuAppraised(Tok, Pol, at)
    BY <1>1, <1>3 DEF AppraiseGpu, Check, Go
  <2>2. /\ LevelInv /\ startedAt \in 0 .. now /\ at \in 0 .. now /\ now \in Nat
        /\ startedAt <= at
    BY <1>1 DEF IInv, TypeOK, Working, LevelInv, ClaimsDone
  <2>3. GpuAppraised(Tok, Pol, startedAt)
    BY <1>2, <2>1, <2>2 DEF GpuAppraised, TokenTimes
  <2>4. LevelInv'
    BY <1>1, <1>2, <1>3, <2>2, <2>3
       DEF LevelInv, AncestryDone, ClaimsDone, CpuDone, GpuDone, BootDone
  <2> QED BY <1>2, <2>4 DEF IInv
<1>4. CASE pc' = "rejected"
  BY <1>2, <1>4 DEF IInv, Working
<1> QED BY <1>1, <1>3, <1>4

LEMMA AppraiseBootInv == IInv /\ AppraiseBoot => IInv'
<1> SUFFICES ASSUME IInv, AppraiseBoot PROVE IInv'
  OBVIOUS
<1>1. /\ pc = "boot" /\ pc' \in {"completion", "rejected"} /\ at' = at /\ workedAt' = now
      /\ UNCHANGED <<now, cfg, token, pending, level, chain, startedAt>>
  BY DEF AppraiseBoot, Check, Go
<1>2. /\ TypeOK' /\ ChainInv' /\ Tok' = Tok /\ Pol' = Pol /\ Linked(level)' = Linked(level)
      /\ TokenAt(1)' = TokenAt(1)
  BY <1>1, InsideLevel DEF IInv, TypeOK, Working
<1>3. CASE pc' = "completion"
  <2>1. BootAppraised(Tok, Pol)
    BY <1>1, <1>3 DEF AppraiseBoot, Check, Go
  <2>2. LevelInv /\ at \in 0 .. now /\ now \in Nat
    BY <1>1 DEF IInv, TypeOK, Working
  <2>3. LevelInv'
    BY <1>1, <1>2, <1>3, <2>1, <2>2
       DEF LevelInv, AncestryDone, ClaimsDone, CpuDone, GpuDone, BootDone
  <2> QED BY <1>2, <2>3 DEF IInv
<1>4. CASE pc' = "rejected"
  BY <1>2, <1>4 DEF IInv, Working
<1> QED BY <1>1, <1>3, <1>4

LEMMA CheckDeadlineInv == IInv /\ CheckDeadline => IInv'
<1> SUFFICES ASSUME IInv, CheckDeadline PROVE IInv'
  OBVIOUS
<1>1. /\ pc = "deadline" /\ pc' \in {"ancestry", "rejected"} /\ UNCHANGED <<at, workedAt>>
      /\ UNCHANGED <<now, cfg, token, pending, level, chain, startedAt>>
  BY DEF CheckDeadline, Check, Go
<1>2. TypeOK' /\ ChainInv'
  BY <1>1, InsideLevel DEF IInv, TypeOK, Working
<1>3. LevelInv' \/ pc' = "rejected"
  BY <1>1 DEF LevelInv, AncestryDone, ClaimsDone, CpuDone, GpuDone, BootDone
<1> QED BY <1>1, <1>2, <1>3 DEF IInv, Working

\* After the last check of a level all of LevelPassed is known about it.
LEMMA LevelIsPassed ==
  ASSUME IInv, pc \in BootDone
  PROVE  LevelPassed(level)
<1>1. /\ LevelInv /\ at \in Nat /\ workedAt \in Nat /\ Tok.iat \in Nat
  BY InsideLevel, LevelTimes DEF IInv, TypeOK, Working, BootDone, ChainInv, Tok
<1>2. Tok.iat <= workedAt
  BY <1>1 DEF LevelInv, ClaimsDone, CpuDone, BootDone
<1> QED BY <1>1, <1>2 DEF LevelInv, LevelPassed, AncestryDone, ClaimsDone, CpuDone, GpuDone,
                          BootDone, Tok, Pol

LEMMA LevelVerifiedInv ==
  ASSUME IInv, pc \in BootDone, LevelVerified, UNCHANGED <<at, workedAt>>,
         workedAt <= DeadlineAt(level), level > 1 => workedAt <= chain.deadline
  PROVE  IInv'
<1>1. /\ TypeOK /\ ChainInv /\ cfg \in Configs /\ token \in Tokens
      /\ pending \in Chains(cfg) /\ level \in 1 .. LastLevel /\ chain.count = level - 1
  BY DEF IInv, TypeOK, Working, BootDone
<1>2. LevelPassed(level)
  BY LevelIsPassed
<1>3. UNCHANGED <<now, cfg, token, pending, startedAt, at, workedAt>>
  BY DEF LevelVerified
<1>4. \A k \in 1 .. LastLevel : DeadlineAt(k) \in Int /\ TokenAt(k).iat \in Nat
  BY <1>1, LevelTimes DEF ChainInv
<1>5. Depth(cfg) \in Nat
  BY <1>1, DepthNat
<1>6. \A k \in 1 .. level : LevelPassed(k)'
  <2>1. TAKE k \in 1 .. level
  <2>2. LevelPassed(k)
    BY <1>1, <1>2 DEF ChainInv
  <2>3. TokenAt(k).iat \in Nat /\ workedAt \in Nat
    BY <1>1, <1>4, <1>5 DEF TypeOK, LastLevel
  <2> QED BY <1>3, <2>2, <2>3, PassedFrame
<1>7. CASE level < LastLevel
  <2>1. StageVerified
    BY <1>7 DEF LevelVerified
  <2>2. /\ level' = level + 1 /\ chain'.count = chain.count + 1
        /\ chain'.predecessor = Sha256(pending[level])
        /\ chain'.value_x = IF chain.count = 0 THEN Tok.value_x ELSE chain.value_x
        /\ chain'.deadline = IF chain.count = 0 \/ DeadlineAt(level) < chain.deadline
                              THEN DeadlineAt(level) ELSE chain.deadline
        /\ pc' \in {"deadline", "ancestry"}
    BY <2>1 DEF StageVerified
  <2>3. TypeOK'
    BY <1>1, <1>3, <1>4, <1>5, <1>7, <2>2 DEF TypeOK, Working, LastLevel, Depth, Chains
  <2>4. \A k \in 1 .. level : chain'.deadline <= DeadlineAt(k)'
    <3>1. TAKE k \in 1 .. level
    <3>2. DeadlineAt(k)' = DeadlineAt(k) /\ DeadlineAt(k) \in Int /\ DeadlineAt(level) \in Int
      BY <1>1, <1>3, <1>4, <1>5, LevelFrame DEF LastLevel
    <3>3. k < level => chain.deadline <= DeadlineAt(k)
      BY <1>1 DEF ChainInv
    <3>4. chain.deadline \in Int
      BY <1>1 DEF TypeOK
    <3> QED BY <1>1, <2>2, <3>2, <3>3, <3>4
  <2>5. chain'.value_x = TokenAt(1)'.value_x
    <3>1. TokenAt(1)' = TokenAt(1)
      BY <1>3, LevelFrame
    <3> QED BY <1>1, <2>2, <3>1 DEF ChainInv, Tok
  <2>6. ChainInv'
    BY <1>1, <1>3, <1>6, <2>2, <2>4, <2>5 DEF ChainInv, Depth
  <2>7. LevelInv'
    BY <1>1, <2>2 DEF LevelInv, AncestryDone, ClaimsDone, CpuDone, GpuDone, BootDone
  <2> QED BY <2>3, <2>6, <2>7 DEF IInv
<1>8. CASE level = LastLevel
  <2>1. pc' = "valid" /\ UNCHANGED <<chain, level>>
    BY <1>5, <1>8 DEF LevelVerified, LastLevel
  <2>2. TypeOK' /\ ChainInv' /\ DeadlineAt(level)' = DeadlineAt(level) /\ LastLevel' = LastLevel
    BY <1>3, <2>1, InsideLevel DEF IInv, TypeOK, Working, BootDone
  <2>3. LevelInv'
    BY <1>3, <1>6, <1>8, <1>1, <2>1, <2>2
       DEF LevelInv, AncestryDone, ClaimsDone, CpuDone, GpuDone, BootDone
  <2> QED BY <2>2, <2>3 DEF IInv
<1> QED BY <1>1, <1>5, <1>7, <1>8 DEF LastLevel

LEMMA CheckCompletionInv == IInv /\ CheckCompletion => IInv'
<1> SUFFICES ASSUME IInv, CheckCompletion PROVE IInv'
  OBVIOUS
<1>1. pc = "completion" /\ UNCHANGED <<at, workedAt>>
  BY DEF CheckCompletion
<1>2. ASSUME Go("recheck") \/ Go("rejected")
      PROVE  /\ TypeOK' /\ ChainInv' /\ Tok' = Tok /\ Pol' = Pol
             /\ Linked(level)' = Linked(level) /\ TokenAt(1)' = TokenAt(1)
             /\ DeadlineAt(level)' = DeadlineAt(level)
  BY <1>1, <1>2, InsideLevel DEF IInv, TypeOK, Working, Go
<1>3. /\ Tok.iat \in Nat /\ Pol.max_age \in Nat /\ DeadlineAt(level) = Tok.iat + Pol.max_age
      /\ workedAt \in 0 .. now /\ now \in Nat /\ level \in Nat
  BY <1>1, LevelTimes DEF IInv, TypeOK, Working, ChainInv, Tok, Pol, DeadlineAt
<1>4. ASSUME Fresh(Tok, Pol, now) PROVE workedAt <= DeadlineAt(level)
  BY <1>3, <1>4 DEF Fresh
<1>5. CASE Fresh(Tok, Pol, now) /\ ~HasPrior /\ LevelVerified
  BY <1>1, <1>3, <1>4, <1>5, LevelVerifiedInv DEF BootDone, HasPrior
<1>6. CASE Fresh(Tok, Pol, now) /\ HasPrior /\ Go("recheck")
  <2>1. LevelInv
    BY <1>1 DEF IInv, Working
  <2>2. LevelInv'
    BY <1>1, <1>2, <1>4, <1>6, <2>1
       DEF LevelInv, AncestryDone, ClaimsDone, CpuDone, GpuDone, BootDone, Go
  <2> QED BY <1>2, <1>6, <2>2 DEF IInv
<1>7. CASE Go("rejected")
  BY <1>2, <1>7 DEF IInv, Go, Working
<1> QED BY <1>5, <1>6, <1>7 DEF CheckCompletion

LEMMA RecheckAncestryInv == IInv /\ RecheckAncestry => IInv'
<1> SUFFICES ASSUME IInv, RecheckAncestry PROVE IInv'
  OBVIOUS
<1>1. pc = "recheck" /\ UNCHANGED <<at, workedAt>>
  BY DEF RecheckAncestry
<1>2. CASE check_child(Tok) /\ LevelVerified
  <2>1. workedAt <= DeadlineAt(level)
    BY <1>1 DEF IInv, Working, LevelInv
  <2>2. workedAt <= chain.deadline
    BY <1>2, <1>1 DEF check_child, IInv, TypeOK
  <2> QED BY <1>1, <1>2, <2>1, <2>2, LevelVerifiedInv DEF BootDone
<1>3. CASE Go("rejected")
  <2>1. TypeOK'
    BY <1>1, <1>3, InsideLevel DEF IInv, TypeOK, Working, Go
  <2> QED BY <1>3, <2>1 DEF IInv, Go, Working
<1> QED BY <1>2, <1>3 DEF RecheckAncestry

LEMMA NextInv == IInv /\ [Next]_vars => IInv'
<1> SUFFICES ASSUME IInv, [Next]_vars PROVE IInv'
  OBVIOUS
<1>1. CASE \E c \in Configs, t \in Tokens : Begin(c, t)
  BY <1>1, BeginInv
<1>2. CASE Step
  BY <1>2, CheckAncestryInv, CheckClaimsInv, AppraiseCpuInv, AppraiseGpuInv, AppraiseBootInv,
     CheckCompletionInv, RecheckAncestryInv, CheckDeadlineInv DEF Step
<1>3. CASE Return
  BY <1>3, ReturnInv
<1>4. CASE Tick
  BY <1>4, ClockInv, AdmissionAssumption DEF Tick, IInv, TypeOK
<1>5. CASE UNCHANGED vars
  BY <1>5, ClockInv, AdmissionAssumption DEF vars, IInv, TypeOK
<1> QED BY <1>1, <1>2, <1>3, <1>4, <1>5 DEF Next

-----------------------------------------------------------------------------
(* The theorems.                                                            *)

\* IInv holds in every reachable state.
THEOREM Inductive == Spec => []IInv
<1>1. Init => IInv
  BY InitInv
<1>2. IInv /\ [Next]_vars => IInv'
  BY NextInv
<1> QED BY <1>1, <1>2, PTL DEF Spec

\* Type correctness of the verifier's state (attestation.rs verify_internal,
\* attestation_chain.rs PriorStagePolicy::verify).
THEOREM TypeCorrect == Spec => []TypeOK
<1>1. IInv => TypeOK
  BY DEF IInv
<1> QED BY <1>1, Inductive, PTL

LEMMA AdmittedLevels ==
  ASSUME IInv, Admitted
  PROVE  /\ Depth(cfg) \in Nat /\ level = LastLevel /\ ChainInv /\ LevelInv
         /\ \A k \in 1 .. LastLevel : /\ LevelPassed(k)
                                 /\ DeadlineAt(k) \in Int /\ workedAt <= DeadlineAt(k)
<1>1. /\ ChainInv /\ LevelInv /\ cfg \in Configs /\ token \in Tokens /\ workedAt \in Nat
      /\ pending \in Chains(cfg) /\ chain.deadline \in Int /\ level = LastLevel
  BY DEF IInv, Admitted, TypeOK, LevelInv
<1>2. Depth(cfg) \in Nat
  BY <1>1, DepthNat
<1>3. ASSUME NEW k \in 1 .. LastLevel
      PROVE  LevelPassed(k) /\ DeadlineAt(k) \in Int /\ workedAt <= DeadlineAt(k)
  <2>1. DeadlineAt(k) \in Int
    BY <1>1, LevelTimes DEF ChainInv
  <2>2. CASE k = LastLevel
    BY <1>1, <2>1, <2>2 DEF LevelInv, Admitted
  <2>3. CASE k \in 1 .. (level - 1)
    BY <1>1, <1>2, <2>1, <2>3 DEF LevelInv, Admitted, ChainInv, LastLevel
  <2> QED BY <1>1, <1>2, <2>2, <2>3 DEF LastLevel
<1> QED BY <1>1, <1>2, <1>3

\* No token is admitted unless it and every stage of its ancestry were fresh
\* at one instant after all appraisal work (attestation.rs, the freshness
\* check at completion, and check_child's deadline).
THEOREM AdmissionIsFresh == Spec => []AdmittedIsFresh
<1>1. IInv => AdmittedIsFresh
  BY AdmittedLevels DEF AdmittedIsFresh, LevelPassed
<1> QED BY <1>1, Inductive, PTL

\* Every level of an admitted chain is vouched for by its own hardware quote
\* (attestation.rs verify_inner, run for every stage by
\* PriorStagePolicy::verify).
THEOREM AdmissionIsVouched == Spec => []AdmittedIsVouched
<1>1. ASSUME IInv, Admitted, NEW k \in 1 .. LastLevel
      PROVE  Vouched(TokenAt(k), PolicyAt(k))
  BY <1>1, AdmittedLevels DEF LevelPassed, Vouched, QuoteAppraised, GpuAppraised, BootAppraised,
     ClaimsMatch
<1>2. IInv => AdmittedIsVouched
  BY <1>1 DEF AdmittedIsVouched
<1> QED BY <1>2, Inductive, PTL

\* Collateral was current during the verification (quote/verify.rs and
\* gpu/verify.rs read the clock of this call).
THEOREM AdmissionCollateral == Spec => []AdmittedCollateralWasCurrent
<1>1. IInv => AdmittedCollateralWasCurrent
  BY AdmittedLevels DEF AdmittedCollateralWasCurrent, LevelPassed, CollateralAppraised, GpuAppraised
<1> QED BY <1>1, Inductive, PTL

LEMMA EnrolledAncestry == IInv => AdmittedAncestryIsEnrolled
<1> SUFFICES ASSUME IInv, Admitted PROVE
        /\ TokenAt(1).previous = None
        /\ \A k \in 2 .. LastLevel :
              /\ TokenAt(k).previous = pending[k - 1]
              /\ previous_hash(TokenAt(k)) = cfg.stages[k - 1].receipt
              /\ TokenAt(k - 1).build = cfg.stages[k - 1].build
        /\ \A k \in 1 .. LastLevel : TokenAt(k).value_x = cfg.value_x
  BY DEF AdmittedAncestryIsEnrolled
<1>1. /\ Depth(cfg) \in Nat /\ ChainInv /\ pending \in Chains(cfg)
      /\ \A k \in 1 .. LastLevel : LevelPassed(k)
  BY AdmittedLevels DEF IInv, TypeOK, Admitted
<1>2. TokenAt(1).previous = None
  BY <1>1 DEF LevelPassed, Linked, LastLevel
<1>3. ASSUME NEW k \in 2 .. LastLevel
      PROVE  /\ TokenAt(k).previous = pending[k - 1]
             /\ previous_hash(TokenAt(k)) = cfg.stages[k - 1].receipt
             /\ TokenAt(k - 1).build = cfg.stages[k - 1].build
  <2>1. /\ Prepared(cfg, token, pending) /\ DOMAIN pending = 1 .. Depth(cfg)
        /\ k - 1 \in 1 .. Depth(cfg)
    BY <1>1 DEF ChainInv, Chains, LastLevel, Depth
  <2>2. TokenAt(k).previous = pending[k - 1]
    <3>1. CASE k = LastLevel
      BY <2>1, <3>1, <1>1 DEF Prepared, TokenAt, LastLevel, Depth
    <3>2. CASE k # LastLevel
      <4>1. k \in 1 .. Depth(cfg)
        BY <3>2, <1>1 DEF LastLevel
      <4> QED BY <2>1, <4>1 DEF Prepared, TokenAt
    <3> QED BY <3>1, <3>2
  <2>3. previous_hash(TokenAt(k)) = Sha256(pending[k - 1])
    BY <1>1, <1>3 DEF LevelPassed, Linked, LastLevel
  <2>4. TokenAt(k - 1) = from_cbor(pending[k - 1])
    BY <2>1 DEF TokenAt
  <2> QED BY <2>1, <2>2, <2>3, <2>4 DEF Prepared, check_token
<1>4. ASSUME NEW k \in 1 .. LastLevel
      PROVE  TokenAt(k).value_x = cfg.value_x
  <2>1. LastLevel \in 1 .. LastLevel /\ TokenAt(LastLevel).value_x = PolicyAt(LastLevel).value_x /\ PolicyAt(LastLevel) = cfg
    BY <1>1 DEF LevelPassed, ClaimsMatch, LastLevel, PolicyAt
  <2>2. TokenAt(k).value_x = TokenAt(1).value_x /\ TokenAt(LastLevel).value_x = TokenAt(1).value_x
    BY <1>1, <2>1 DEF LevelPassed
  <2> QED BY <2>1, <2>2
<1> QED BY <1>2, <1>3, <1>4

\* The ancestry of an admitted token is the enrolled one, stage for stage
\* (attestation_chain.rs prepare and check_child).
THEOREM AdmissionAncestry == Spec => []AdmittedAncestryIsEnrolled
  BY EnrolledAncestry, Inductive, PTL

-----------------------------------------------------------------------------
(* The procedure implements the promise (its safety part).                  *)

\* The promise speaks of the same tokens and digests.
LEMMA SameEat ==
  /\ \A t : Promise!binding_bytes(t) = binding_bytes(t)
  /\ \A r : Promise!from_cbor(r) = from_cbor(r)
  /\ \A r : Promise!Sha256(r) = Sha256(r)
<1>1. \A r : Promise!Sha256(r) = Sha256(r)
  BY DEF Sha256, Promise!Sha256
<1>2. \A t : Promise!validate_shape(t) = validate_shape(t)
  BY DEF validate_shape, Promise!validate_shape, SuiteV2, SuiteDual, SuiteComposite,
         Promise!SuiteV2, Promise!SuiteDual, Promise!SuiteComposite, Platforms,
         Promise!Platforms, TpmPlatforms, Promise!TpmPlatforms, EAT_VERSION, Promise!EAT_VERSION,
         EAT_PROFILE_ACCEPTED, Promise!EAT_PROFILE_ACCEPTED
<1>3. \A t : Promise!BoundClaims(t) = BoundClaims(t)
  BY <1>1 DEF BoundClaims, Promise!BoundClaims, previous_hash, Promise!previous_hash, ZeroHash,
              Promise!ZeroHash
<1>4. \A t : Promise!binding_bytes(t) = binding_bytes(t)
  BY <1>3 DEF binding_bytes, Promise!binding_bytes, binding_bytes_v2, Promise!binding_bytes_v2,
              binding_bytes_v3, Promise!binding_bytes_v3, SuiteDual, SuiteComposite,
              Promise!SuiteDual, Promise!SuiteComposite
<1>5. \A r : Promise!from_cbor(r) = from_cbor(r)
  BY <1>2 DEF from_cbor, Promise!from_cbor
<1> QED BY <1>1, <1>4, <1>5

\* In a state that admits a token, the promise is kept: the witness of the
\* ancestry is the prepared chain, the instant is the end of the work.
LEMMA PromiseKept == IInv /\ Admitted => Promise!Promised
<1> SUFFICES ASSUME IInv, Admitted PROVE Promise!Promised
  OBVIOUS
<1>1. /\ Depth(cfg) \in Nat /\ ChainInv /\ pending \in Chains(cfg)
      /\ \A k \in 1 .. LastLevel : /\ LevelPassed(k)
                              /\ DeadlineAt(k) \in Int /\ workedAt <= DeadlineAt(k)
      /\ workedAt \in startedAt .. now /\ startedAt \in Nat /\ now \in Nat
      /\ cfg \in Configs /\ token \in Tokens
  BY AdmittedLevels DEF IInv, TypeOK, Admitted
<1>2. \A k \in 1 .. LastLevel : Promise!Credible(TokenAt(k), PolicyAt(k))
  BY <1>1, SameEat DEF LevelPassed, QuoteAppraised, ClaimsMatch, Promise!Credible
<1>3. \A k \in 1 .. LastLevel : Promise!FreshAt(TokenAt(k), PolicyAt(k), workedAt)
  BY <1>1 DEF LevelPassed, Promise!FreshAt, DeadlineAt
<1>4. TokenAt(LastLevel) = token /\ PolicyAt(LastLevel) = cfg /\ LastLevel \in 1 .. LastLevel
  BY <1>1 DEF TokenAt, PolicyAt, LastLevel
<1>5. ASSUME NEW k \in 1 .. Depth(cfg)
      PROVE  /\ k \in 1 .. LastLevel /\ TokenAt(k) = from_cbor(pending[k]) /\ PolicyAt(k) = cfg.stages[k]
             /\ from_cbor(pending[k]) # None
             /\ Sha256(pending[k]) = cfg.stages[k].receipt
             /\ from_cbor(pending[k]).previous = IF k = 1 THEN None ELSE pending[k - 1]
  BY <1>1 DEF TokenAt, PolicyAt, LastLevel, ChainInv, Prepared, Chains, Depth
<1>6. token.previous = IF Depth(cfg) = 0 THEN None ELSE pending[Depth(cfg)]
  <2>1. CASE Depth(cfg) = 0
    BY <1>1, <1>4, <2>1 DEF LevelPassed, Linked, LastLevel
  <2>2. CASE Depth(cfg) > 0
    BY <1>1, <2>2 DEF ChainInv, Prepared, Depth
  <2> QED BY <1>1, <2>1, <2>2
<1>7. Promise!Ancestry(pending)
  BY <1>2, <1>5, <1>6, SameEat DEF Promise!Ancestry, Depth
<1>8. \A k \in 1 .. Len(cfg.stages) :
          Promise!FreshAt(Promise!from_cbor(pending[k]), cfg.stages[k], workedAt)
  BY <1>3, <1>5, SameEat DEF Depth
<1>9. pending \in [1 .. Len(cfg.stages) -> Receipts]
  BY <1>1 DEF Chains
<1> QED BY <1>1, <1>2, <1>3, <1>4, <1>7, <1>8, <1>9 DEF Promise!Promised

\* A step of the procedure that reaches no verdict is invisible, one that does
\* decides.
LEMMA StepDecides ==
  ASSUME IInv, IInv', Step
  PROVE  Promise!Decide \/ UNCHANGED Promise!vars
<1>1. UNCHANGED <<now, cfg, token, startedAt>> /\ pc \in Working
  BY DEF Step, CheckAncestry, CheckClaims, AppraiseCpu, AppraiseGpu, AppraiseBoot, CheckDeadline,
         CheckCompletion, RecheckAncestry, LevelVerified, Check, Go, Working
<1>2. CASE pc' \in Working
  BY <1>1, <1>2 DEF Promise!vars, verdict
<1>3. CASE pc' = "rejected"
  BY <1>1, <1>3 DEF Promise!Decide, Promise!Reject, verdict, Working
<1>4. CASE pc' = "valid"
  <2>1. Promise!Promised'
    <3>1. Admitted'
      BY <1>4 DEF Admitted
    <3> QED BY <3>1, PromiseKept, PTL
  <2>2. Promise!Promised
    <3>1. UNCHANGED Promise!Promised
      BY <1>1 DEF Promise!Promised, Promise!Ancestry, Promise!Credible, Promise!FreshAt,
         Promise!from_cbor, Promise!validate_shape, Promise!binding_bytes, Promise!Sha256,
         Promise!binding_bytes_v2, Promise!binding_bytes_v3, Promise!BoundClaims,
         Promise!previous_hash
    <3> QED BY <2>1, <3>1
  <2> QED BY <1>1, <1>4, <2>2 DEF Promise!Decide, Promise!Admit, verdict, Working
<1>5. pc' # "idle"
  BY DEF Step, CheckAncestry, CheckClaims, AppraiseCpu, AppraiseGpu, AppraiseBoot, CheckDeadline,
         CheckCompletion, RecheckAncestry, LevelVerified, StageVerified, Check, Go
<1> QED BY <1>2, <1>3, <1>4, <1>5 DEF IInv, TypeOK

LEMMA NextSimulates ==
  ASSUME IInv, IInv', [Next]_vars
  PROVE  [Promise!Next]_(Promise!vars)
<1>1. CASE \E c \in Configs, t \in Tokens : Begin(c, t)
  BY <1>1 DEF Begin, Promise!Next, Promise!Start, verdict, Working
<1>2. CASE Step
  BY <1>2, StepDecides DEF Promise!Next
<1>3. CASE Return
  BY <1>3 DEF Return, Promise!Next, Promise!Return, verdict, Working
<1>4. CASE Tick
  BY <1>4 DEF Tick, Promise!Next, Promise!Tick, verdict
<1>5. CASE UNCHANGED vars
  BY <1>5 DEF vars, Promise!vars, verdict
<1> QED BY <1>1, <1>2, <1>3, <1>4, <1>5 DEF Next

\* Every verdict the verifier reaches is one the promise allows: a valid
\* verdict only for a chain that is credible and fresh at one instant
\* (attestation.rs verify_internal).
THEOREM Refinement == Spec => Promise!Init /\ [][Promise!Next]_(Promise!vars)
<1>1. Init => Promise!Init
  BY DEF Init, Promise!Init, verdict, Working
<1>2. IInv /\ IInv' /\ [Next]_vars => [Promise!Next]_(Promise!vars)
  BY NextSimulates
<1> QED BY <1>1, <1>2, Inductive, PTL DEF Spec

-----------------------------------------------------------------------------
(* The commitment determines the claims.                                    *)

LEMMA BoundClaimsInjective ==
  ASSUME NEW t, NEW u, BoundClaims(t) = BoundClaims(u)
  PROVE  /\ t.version = u.version /\ t.profile = u.profile
         /\ t.value_x = u.value_x /\ t.platform = u.platform /\ t.tls_spki = u.tls_spki
         /\ t.build = u.build /\ t.iat = u.iat /\ t.nonce = u.nonce /\ t.previous = u.previous
<1>1. previous_hash(t) = previous_hash(u)
  BY DEF BoundClaims
<1>2. t.previous = u.previous
  BY <1>1 DEF previous_hash, Sha256, ZeroHash
<1> QED BY <1>2 DEF BoundClaims

\* Two well-formed tokens with the same 32-byte commitment agree on every
\* claim, on the link to the previous stage, on the binding suite and on the
\* GPU and boot evidence: a quote taken for one token, or under one suite,
\* cannot be attached to another (eat.rs binding_bytes).
THEOREM CommitmentBindsClaims ==
  ASSUME NEW t, NEW u, validate_shape(t), validate_shape(u),
         binding_bytes(t) = binding_bytes(u)
  PROVE  /\ t.binding_suite = u.binding_suite /\ t.gpu = u.gpu /\ t.boot = u.boot
         /\ t.version = u.version /\ t.profile = u.profile
         /\ t.value_x = u.value_x /\ t.platform = u.platform /\ t.tls_spki = u.tls_spki
         /\ t.build = u.build /\ t.iat = u.iat /\ t.nonce = u.nonce /\ t.previous = u.previous
<1>1. t.binding_suite \in {0, 1, 2} /\ u.binding_suite \in {0, 1, 2}
  BY DEF validate_shape, SuiteV2, SuiteDual, SuiteComposite
<1>2. t.binding_suite = u.binding_suite
  BY <1>1 DEF binding_bytes, binding_bytes_v2, binding_bytes_v3, SuiteDual, SuiteComposite
<1>3. BoundClaims(t) = BoundClaims(u)
  BY <1>1, <1>2 DEF binding_bytes, binding_bytes_v2, binding_bytes_v3, SuiteDual, SuiteComposite
<1>4. t.gpu = u.gpu /\ t.boot = u.boot
  BY <1>1, <1>2 DEF binding_bytes, validate_shape, SuiteV2, SuiteDual, SuiteComposite
<1> QED BY <1>2, <1>3, <1>4, BoundClaimsInjective

\* Every level of an admitted chain has its own quote and is the enrolled one.
THEOREM AdmissionChainIsCredible == Spec => []AdmittedChainIsCredible
  BY AdmissionIsVouched, AdmissionAncestry, PTL DEF AdmittedChainIsCredible

\* Nothing an admission rests on was out of date when it was made.
THEOREM AdmissionInTime == Spec => []AdmittedInTime
  BY AdmissionIsFresh, AdmissionCollateral, PTL DEF AdmittedInTime

-----------------------------------------------------------------------------
(* CPU quotes.                                                              *)

QuoteStages == {"begin", "quote", "launch", "chain", "documents", "claims", "accepted", "rejected"}

QuoteTyped ==
    /\ clock \in Nat /\ adm.pc \in QuoteStages /\ adm.now \in 0 .. clock
    /\ adm = [pc |-> adm.pc, now |-> adm.now, got |-> adm.got, asked |-> adm.asked]
    /\ Presented(input)

\* The verifier's own evidence: collateral of the quote's platform.
Collateral == input.platform # "nitro" =>
    input.collateral # Missing /\ input.collateral.kind = input.platform
Authenticated ==
    CASE input.platform = "nitro" -> verify_nitro_quote
      [] input.platform = "snp" -> verify_snp_quote
      [] OTHER -> verify_tdx_quote
PathAppraised == IF input.platform = "snp" THEN SnpChain ELSE TdxChain
ClaimsAppraised == IF input.platform = "snp" THEN SnpClaims ELSE TdxClaims

\* What each stage of an admission has established, all as of one instant.
Established ==
    /\ adm.pc \notin {"begin", "rejected"} => Collateral
    /\ adm.pc \in {"launch", "chain", "documents", "claims", "accepted"} => Authenticated
    /\ input.platform # "nitro" =>
          /\ adm.pc \in {"documents", "claims", "accepted"} => PathAppraised
          /\ adm.pc \in {"claims", "accepted"} /\ input.platform # "snp" => TdxDocuments
          /\ adm.pc = "accepted" => ClaimsAppraised

QuoteInv == QuoteTyped /\ (input.admission => Established)

\* The lists of quotes: reversal keeps the elements.
LEMMA BundleCovered ==
    ASSUME NEW leaf, NEW bundle, Listed(bundle)
    PROVE  \A c \in {leaf} \cup ToSet(bundle) :
              \E i \in DOMAIN (<<leaf>> \o Reverse(bundle)) : (<<leaf>> \o Reverse(bundle))[i] = c
<1> DEFINE S == {leaf} \cup ToSet(bundle)
           back == Reverse(bundle)
           whole == <<leaf>> \o back
<1>1. bundle \in Seq(S) /\ <<leaf>> \in Seq(S) /\ Len(bundle) \in Nat
  BY DEF Listed, ToSet
<1>2. back = [i \in 1 .. Len(bundle) |-> bundle[(Len(bundle) - i) + 1]]
  BY DEF Reverse
<1>3. back \in Seq(S) /\ Len(back) = Len(bundle)
  BY <1>1, <1>2
<1>4. /\ Len(whole) = 1 + Len(bundle) /\ DOMAIN whole = 1 .. Len(whole)
      /\ whole[1] = leaf /\ \A i \in 1 .. Len(bundle) : whole[i + 1] = back[i]
  BY <1>1, <1>3
<1>5. ASSUME NEW i \in 1 .. Len(bundle) PROVE \E k \in DOMAIN whole : whole[k] = bundle[i]
  <2>1. (Len(bundle) - i) + 1 \in 1 .. Len(bundle)
        /\ (Len(bundle) - ((Len(bundle) - i) + 1)) + 1 = i
    BY <1>1
  <2>2. back[(Len(bundle) - i) + 1] = bundle[i]
    BY <1>2, <2>1
  <2>3. ((Len(bundle) - i) + 1) + 1 \in DOMAIN whole
    BY <1>1, <1>4, <2>1
  <2> QED
    BY <1>4, <2>1, <2>2, <2>3
<1>6. 1 \in DOMAIN whole
  BY <1>1, <1>4
<1>7. ASSUME NEW c \in S PROVE \E k \in DOMAIN whole : whole[k] = c
  <2>1. CASE c = leaf
    BY <1>4, <1>6, <2>1
  <2>2. CASE c # leaf
    <3>1. PICK i \in DOMAIN bundle : bundle[i] = c
      BY <2>2 DEF ToSet
    <3>2. i \in 1 .. Len(bundle)
      BY <1>1, <3>1
    <3> QED
      BY <1>5, <3>1, <3>2
  <2> QED
    BY <2>1, <2>2
<1> QED
  BY <1>7

LEMMA LeastNumber ==
    ASSUME NEW S, S \subseteq Nat, S # {}
    PROVE  FirstOf(S) \in S /\ \A j \in S : FirstOf(S) <= j
<1>1. \E x \in S : \A y \in S : ~(<<y, x>> \in OpToRel(<, Nat))
  BY NatLessThanWellFounded, WFMin
<1>2. PICK x \in S : \A y \in S : ~(<<y, x>> \in OpToRel(<, Nat))
  BY <1>1
<1>3. ASSUME NEW y \in S PROVE x <= y
  <2>1. ~(<<y, x>> \in OpToRel(<, Nat)) /\ <<y, x>> \in Nat \X Nat
    BY <1>2
  <2>2. ~(y < x)
    BY <2>1 DEF OpToRel
  <2> QED
    BY <2>2
<1>4. \E u \in S : \A y \in S : u <= y
  BY <1>3
<1> QED
  BY <1>4 DEF FirstOf

\* As long as the moment, the fetched certificates and the input stay, so does
\* everything that was established with them.
LEMMA Unmoved ==
    ASSUME UNCHANGED input, adm'.now = adm.now, adm'.got = adm.got
    PROVE  /\ Collateral' = Collateral
           /\ Authenticated' <=> Authenticated
           /\ PathAppraised' <=> PathAppraised
           /\ TdxDocuments' <=> TdxDocuments
           /\ ClaimsAppraised' <=> ClaimsAppraised
<1>1. Instant' = Instant /\ q' = q
  BY DEF Instant, q
<1>2. Collateral' = Collateral
  BY DEF Collateral
<1>3. verify_nitro_quote' <=> verify_nitro_quote
  BY <1>1 DEF verify_nitro_quote, NitroParse
<1>4. SnpPath' = SnpPath /\ snp_product' = snp_product
  BY <1>1 DEF SnpPath, LeafRole, Embedded, snp_product, Disagree
<1>5. verify_snp_quote' <=> verify_snp_quote
  BY <1>1, <1>4 DEF verify_snp_quote, SnpParse
<1>6. verify_tdx_quote' <=> verify_tdx_quote
  BY <1>1 DEF verify_tdx_quote, TdxBody, QuotingEnclave
<1>7. SnpChain' <=> SnpChain
  BY <1>1 DEF SnpChain, SnpRoles
<1>8. TdxChain' <=> TdxChain
  BY <1>1 DEF TdxChain, QuoteParts
<1>9. TdxDocuments' <=> TdxDocuments
  BY <1>1 DEF TdxDocuments, verify_signed_json, check_document_window
<1>10. SnpClaims' <=> SnpClaims
  BY <1>1 DEF SnpClaims, endorsement, appraise_claims, SnpTcbs
<1>11. TdxClaims' <=> TdxClaims
  <2>1. \A levels, v : IsvCurrent(levels, v)' <=> IsvCurrent(levels, v)
    BY <1>1 DEF IsvCurrent, check_level_metadata
  <2> QED
    BY <1>1, <2>1 DEF TdxClaims, appraise_qe, appraise_platform, appraise_module, SeamMatches,
                      check_level_metadata
<1>12. Authenticated' <=> Authenticated
  BY <1>3, <1>5, <1>6 DEF Authenticated
<1> QED
  BY <1>2, <1>7, <1>8, <1>9, <1>10, <1>11, <1>12 DEF PathAppraised, ClaimsAppraised

LEMMA QuoteInitial == clock \in 0 .. MaxClock /\ QuoteFrom(input, clock) => QuoteInv
BY QuoteAssumption DEF QuoteFrom, QuoteInv, QuoteTyped, QuoteStages, Established

\* One stage: the moment stays, and what it checked is established.
LEMMA StageKeeps ==
    ASSUME QuoteInv, NEW from \in QuoteStages \ {"begin"}, NEW ok, NEW to \in QuoteStages, Stage(from, ok, to),
           input.admission /\ ok /\ Established =>
              /\ to # "begin" /\ Collateral
              /\ to \in {"launch", "chain", "documents", "claims", "accepted"} => Authenticated
              /\ input.platform # "nitro" =>
                    /\ to \in {"documents", "claims", "accepted"} => PathAppraised
                    /\ to \in {"claims", "accepted"} /\ input.platform # "snp" => TdxDocuments
                    /\ to = "accepted" => ClaimsAppraised
    PROVE  QuoteInv'
<1>1. /\ adm.pc = from /\ UNCHANGED <<clock, input>>
      /\ adm' = [pc |-> IF ok THEN to ELSE "rejected", now |-> adm.now, got |-> adm.got,
                 asked |-> adm.asked]
  BY DEF Stage, QuoteInv, QuoteTyped
<1>2. QuoteTyped'
  BY <1>1 DEF QuoteInv, QuoteTyped, QuoteStages, Presented
<1>3. CASE ok /\ input.admission
  <2>1. adm'.pc = to /\ adm'.now = adm.now /\ adm'.got = adm.got /\ Established
    BY <1>1, <1>3 DEF QuoteInv
  <2>2. Established'
    BY <1>1, <1>3, <2>1, Unmoved DEF Established
  <2> QED
    BY <1>2, <2>2 DEF QuoteInv
<1>4. CASE ~ok
  BY <1>1, <1>2, <1>4 DEF QuoteInv, Established
<1>5. CASE ~input.admission
  BY <1>1, <1>2, <1>5 DEF QuoteInv
<1> QED
  BY <1>3, <1>4, <1>5

LEMMA QuoteKeeps == QuoteInv /\ [QuoteNext]_quoteVars => QuoteInv'
<1> SUFFICES ASSUME QuoteInv, [QuoteNext]_quoteVars PROVE QuoteInv'
  OBVIOUS
<1>1. CASE BeginQuote
  <2> DEFINE ok == input.admission =>
                 CASE input.platform = "nitro" -> input.collateral = Missing /\ input.policy = Missing
                   [] OTHER ->
                        /\ input.collateral # Missing /\ input.policy # Missing
                        /\ input.collateral.kind = input.platform /\ input.policy.kind = input.platform
                        /\ IF input.platform = "tdx" THEN input.policy.floor > 0
                           ELSE Len(input.collateral.chain) = 3 /\ SnpPolicyValid(input.policy)
  <2>1. adm' = [adm EXCEPT !.now = clock, !.pc = IF ok THEN "quote" ELSE "rejected"]
        /\ UNCHANGED <<clock, input>>
    BY <1>1 DEF BeginQuote
  <2>2. input.admission /\ ok => Collateral
    BY DEF Collateral
  <2> HIDE DEF ok
  <2>3. adm' = [pc |-> IF ok THEN "quote" ELSE "rejected", now |-> clock, got |-> adm.got,
                asked |-> adm.asked]
    BY <2>1 DEF QuoteInv, QuoteTyped
  <2>4. QuoteTyped'
    <3>1. /\ adm'.pc \in QuoteStages /\ adm'.now = clock /\ adm'.got = adm.got /\ adm'.asked = adm.asked
          /\ adm' = [pc |-> adm'.pc, now |-> adm'.now, got |-> adm'.got, asked |-> adm'.asked]
      BY <2>3 DEF QuoteStages
    <3> QED
      BY <2>1, <3>1 DEF QuoteInv, QuoteTyped, Presented
  <2>5. input'.admission => Established'
    BY <2>1, <2>2, <2>3 DEF Established, Collateral
  <2> QED
    BY <2>4, <2>5 DEF QuoteInv
<1>2. CASE KdsFetch
  <2>1. PICK got \in SnpFetched : adm' = [adm EXCEPT !.got = got, !.asked = TRUE]
    BY <1>2 DEF KdsFetch
  <2>2. adm' = [pc |-> adm.pc, now |-> adm.now, got |-> got, asked |-> TRUE] /\ adm.pc = "quote"
        /\ UNCHANGED <<clock, input>>
    BY <1>2, <2>1 DEF KdsFetch, QuoteInv, QuoteTyped
  <2> QED
    BY <2>2 DEF QuoteInv, QuoteTyped, Presented, Established, Collateral
<1>3. CASE Authenticate
  <2> DEFINE to == IF input.admission THEN "launch" ELSE "accepted"
  <2>1. Stage("quote", Authenticated, to)
    BY <1>3 DEF Authenticate, Authenticated
  <2>2. adm.pc = "quote"
    BY <2>1 DEF Stage
  <2>3. input.admission /\ Authenticated /\ Established => to = "launch" /\ Collateral
    BY <2>2 DEF Established
  <2> QED
    BY <2>1, <2>3, StageKeeps DEF QuoteStages
<1>4. CASE Launch
  <2> DEFINE measured == IF input.platform = "nitro" THEN q.pcrs[0] ELSE q.measurement
             ok == measured # Zero /\ (input.platform = "tdx" => ~q.debug)
             to == IF input.platform = "nitro" THEN "accepted" ELSE "chain"
  <2>1. Stage("launch", ok, to)
    BY <1>4 DEF Launch
  <2>2. adm.pc = "launch"
    BY <2>1 DEF Stage
  <2>3. Established => Collateral /\ Authenticated
    BY <2>2 DEF Established
  <2>4. to \in {"accepted", "chain"} /\ (input.platform # "nitro" => to = "chain")
    OBVIOUS
  <2> HIDE DEF ok, to
  <2> QED
    BY <2>1, <2>3, <2>4, StageKeeps DEF QuoteStages
<1>5. CASE AppraiseChain
  <2> DEFINE to == IF input.platform = "snp" THEN "claims" ELSE "documents"
  <2>1. Stage("chain", PathAppraised, to)
    BY <1>5 DEF AppraiseChain, PathAppraised
  <2>2. adm.pc = "chain"
    BY <2>1 DEF Stage
  <2>3. Established => Collateral /\ Authenticated
    BY <2>2 DEF Established
  <2>4. to \in {"claims", "documents"} /\ (input.platform # "snp" => to = "documents")
    OBVIOUS
  <2> HIDE DEF to
  <2> QED
    BY <2>1, <2>3, <2>4, StageKeeps DEF QuoteStages
<1>6. CASE AppraiseDocuments
  <2>1. Stage("documents", TdxDocuments, "claims")
    BY <1>6 DEF AppraiseDocuments
  <2>2. adm.pc = "documents"
    BY <2>1 DEF Stage
  <2>3. Established => Collateral /\ Authenticated /\ (input.platform # "nitro" => PathAppraised)
    BY <2>2 DEF Established
  <2> QED
    BY <2>1, <2>3, StageKeeps DEF QuoteStages
<1>7. CASE AppraiseClaims
  <2>1. Stage("claims", ClaimsAppraised, "accepted")
    BY <1>7 DEF AppraiseClaims, ClaimsAppraised
  <2>2. adm.pc = "claims"
    BY <2>1 DEF Stage
  <2>3. Established => /\ Collateral /\ Authenticated /\ (input.platform # "nitro" => PathAppraised)
                       /\ input.platform \notin {"nitro", "snp"} => TdxDocuments
    BY <2>2 DEF Established
  <2> QED
    BY <2>1, <2>3, StageKeeps DEF QuoteStages
<1>8. CASE Passing \/ UNCHANGED quoteVars
  <2>1. UNCHANGED <<input, adm>> /\ clock' \in Nat /\ clock <= clock'
    BY <1>8 DEF Passing, quoteVars, QuoteInv, QuoteTyped
  <2>2. QuoteTyped'
    BY <2>1 DEF QuoteInv, QuoteTyped, Presented
  <2>3. input.admission => Established'
    BY <2>1, Unmoved DEF QuoteInv, Established
  <2> QED
    BY <2>1, <2>2, <2>3 DEF QuoteInv
<1> QED
  BY <1>1, <1>2, <1>3, <1>4, <1>5, <1>6, <1>7, <1>8 DEF QuoteNext

\* Every stage of a quote's admission has been passed at the moment that was
\* read when it began (trusted_now).
THEOREM QuoteInvariance == QuoteSpec => []QuoteInv
BY QuoteInitial, QuoteKeeps, PTL DEF QuoteSpec

\* A validated path is current at the moment it was validated for.
LEMMA ChainCurrent ==
    ASSUME NEW path, NEW pin, NEW t, NEW curve, validate_chain(path, pin, t, curve)
    PROVE  \A c \in ToSet(path) : c.from <= t /\ t <= c.to
BY DEF validate_chain, check_certificate, ToSet

\* Everything an admission rests on was current at one moment of it, for any
\* quote, collateral, policy and roots.
THEOREM QuoteCurrentTogether == QuoteSpec => []CurrentTogether
<1>1. QuoteInv => CurrentTogether
  <2> SUFFICES ASSUME QuoteInv, QuoteAdmitted
               PROVE  /\ adm.now \in 0 .. clock
                      /\ \A c \in Certificates : c.from <= adm.now /\ adm.now <= c.to
                      /\ \A d \in Documents : d.from <= adm.now /\ adm.now < d.to
    BY DEF CurrentTogether, QuoteInv, QuoteTyped
  <2>1. adm.pc = "accepted" /\ Established /\ adm.now \in 0 .. clock /\ Presented(input)
    BY DEF QuoteAdmitted, QuoteInv, QuoteTyped
  <2>2. Collateral /\ Authenticated
    BY <2>1 DEF Established
  <2>3. CASE input.platform = "nitro"
    <3>1. validate_chain(<<q.leaf>> \o Reverse(q.bundle), Pins["nitro"], adm.now, "P384")
      BY <2>2, <2>3 DEF Authenticated, verify_nitro_quote, Instant
    <3>2. Listed(q.bundle)
      BY <2>1, <2>3 DEF Presented, q
    <3>3. \A c \in ToSet(<<q.leaf>> \o Reverse(q.bundle)) : c.from <= adm.now /\ adm.now <= c.to
      BY <3>1, ChainCurrent
    <3>4. {q.leaf} \cup ToSet(q.bundle) \subseteq ToSet(<<q.leaf>> \o Reverse(q.bundle))
      <4> DEFINE path == <<q.leaf>> \o Reverse(q.bundle)
      <4>1. \A c \in {q.leaf} \cup ToSet(q.bundle) : \E i \in DOMAIN path : path[i] = c
        BY <3>2, BundleCovered
      <4> HIDE DEF path
      <4>2. {q.leaf} \cup ToSet(q.bundle) \subseteq {path[i] : i \in DOMAIN path}
        BY <4>1
      <4> QED
        BY <4>2 DEF ToSet, path
    <3>5. Certificates = {q.leaf} \cup ToSet(q.bundle) /\ Documents = {}
      BY <2>3 DEF Certificates, Documents
    <3> QED
      BY <2>1, <3>3, <3>4, <3>5
  <2>4. CASE input.platform = "snp"
    <3>1. SnpChain
      BY <2>1, <2>4 DEF Established, PathAppraised
    <3>2. \A c \in ToSet(input.collateral.chain) : c.from <= adm.now /\ adm.now <= c.to
      BY <3>1, ChainCurrent DEF SnpChain, Instant
    <3>3. input.collateral.crl.from <= adm.now /\ adm.now < input.collateral.crl.to
      BY <3>1 DEF SnpChain, check_crl, check_dates, Instant
    <3>4. Certificates = ToSet(input.collateral.chain) /\ Documents = {input.collateral.crl}
      BY <2>4 DEF Certificates, Documents
    <3> QED
      BY <2>1, <3>2, <3>3, <3>4
  <2>5. CASE input.platform \notin {"nitro", "snp"}
    <3> DEFINE c == input.collateral
    <3>1. TdxChain /\ TdxDocuments
      BY <2>1, <2>5 DEF Established, PathAppraised
    <3>2. \A x \in ToSet(q.pck) : x.from <= adm.now /\ adm.now <= x.to
      BY <3>1, ChainCurrent DEF TdxChain, Instant
    <3>3. \A d \in {c.rootCrl, c.pckCrl} : d.from <= adm.now /\ adm.now < d.to
      BY <3>1 DEF TdxChain, check_crl, check_dates, Instant
    <3>4. ASSUME NEW d \in {c.tcb, c.qe}
          PROVE  /\ \A x \in ToSet(d.chain) : x.from <= adm.now /\ adm.now <= x.to
                 /\ d.from <= adm.now /\ adm.now < d.to
      <4>1. verify_signed_json(d, c.rootCrl) /\ check_document_window(d)
        BY <3>1, <3>4 DEF TdxDocuments
      <4> QED
        BY <4>1, ChainCurrent DEF verify_signed_json, check_document_window, check_dates, Instant
    <3>5. /\ Certificates = ToSet(q.pck) \cup ToSet(c.tcb.chain) \cup ToSet(c.qe.chain)
          /\ Documents = {c.tcb, c.qe, c.rootCrl, c.pckCrl}
      BY <2>5 DEF Certificates, Documents
    <3> HIDE DEF c
    <3> QED
      BY <2>1, <3>2, <3>3, <3>4, <3>5
  <2> QED
    BY <2>3, <2>4, <2>5
<1> QED
  BY <1>1, QuoteInvariance, PTL

\* With collateral, the path a report is authenticated with is the collateral's.
LEMMA CollateralPath ==
    ASSUME input.collateral # Missing, \A i \in 1 .. 3 : SnpPath[i] # Missing
    PROVE  SnpPath = input.collateral.chain
<1>1. SnpPath \in {<<Missing, Missing, Missing>>, input.collateral.chain}
  BY DEF SnpPath
<1>2. SnpPath # <<Missing, Missing, Missing>>
  OBVIOUS
<1> QED
  BY <1>1, <1>2

\* The key that signed an admitted quote is the key the appraised collateral is
\* about, wherever authentication and appraisal found it.
THEOREM QuoteSignerAppraised == QuoteSpec => []SignerIsAppraised
<1>1. QuoteInv => SignerIsAppraised
  <2> SUFFICES ASSUME QuoteInv, QuoteAdmitted PROVE SignerIsAppraised
    BY DEF SignerIsAppraised
  <2>1. adm.pc = "accepted" /\ Established
    BY DEF QuoteAdmitted, QuoteInv
  <2>2. Collateral /\ Authenticated
    BY <2>1 DEF Established
  <2>3. CASE input.platform = "snp"
    <3> DEFINE leaf == input.collateral.chain[1]
    <3>1. verify_snp_quote /\ input.collateral # Missing /\ SnpChain /\ SnpClaims
      BY <2>1, <2>2, <2>3 DEF Established, Authenticated, Collateral, PathAppraised, ClaimsAppraised
    <3>2. q.signer = leaf.key
      BY <3>1, CollateralPath DEF verify_snp_quote
    <3>3. endorsement(leaf, input.policy) /\ appraise_claims(input.policy, leaf.amd)
      BY <3>1 DEF SnpClaims
    <3>4. leaf.amd.tcb = q.reported
      BY <3>3 DEF appraise_claims
    <3>5. ~q.vlek => leaf.amd.hwid = q.chip
      BY <3>3 DEF endorsement, appraise_claims
    <3>6. input.collateral.chain[2].serial \notin input.collateral.crl.revoked
      BY <3>1 DEF SnpChain, check_crl
    <3> QED
      BY <2>3, <3>2, <3>4, <3>5, <3>6 DEF SignerIsAppraised
  <2>4. CASE input.platform = "tdx"
    <3>1. verify_tdx_quote /\ TdxChain /\ TdxClaims
      BY <2>1, <2>2, <2>4 DEF Established, Authenticated, PathAppraised, ClaimsAppraised
    <3>2. q.qe.bound[1] = q.signer /\ q.qe.signer = q.pck[1].key
      BY <3>1 DEF verify_tdx_quote, TdxBody, QuotingEnclave
    <3>3. input.collateral.tcb.fmspc = q.pck[1].sgx.fmspc
      BY <3>1 DEF TdxClaims, appraise_platform
    <3>4. /\ q.pck[1].serial \notin input.collateral.pckCrl.revoked
          /\ q.pck[2].serial \notin input.collateral.rootCrl.revoked
      BY <3>1 DEF TdxChain, check_crl
    <3> QED
      BY <2>4, <3>2, <3>3, <3>4 DEF SignerIsAppraised
  <2> QED
    BY <2>3, <2>4 DEF SignerIsAppraised
<1> QED
  BY <1>1, QuoteInvariance, PTL

\* No verdict on a TD rests on a weaker TCB level than the platform's own,
\* when Intel lists the stronger of two levels first.
THEOREM QuoteNotOutranked == QuoteSpec => []NotOutranked
<1>1. QuoteInv => NotOutranked
  <2> DEFINE l == input.collateral.tcb.levels
             met == {i \in DOMAIN l : PlatformMatches(l[i], q.pck[1].sgx, q.tee)}
  <2> SUFFICES ASSUME QuoteInv, QuoteAdmitted, input.platform = "tdx",
                      \A i, j \in DOMAIN l : Stronger(l[i], l[j]) => i <= j
               PROVE  \E i \in met : l[i].status = "UpToDate" /\
                         \A j \in met : Stronger(l[j], l[i]) => l[j].status = "UpToDate"
    BY DEF NotOutranked
  <2>1. adm.pc = "accepted" /\ Established /\ Presented(input)
    BY DEF QuoteAdmitted, QuoteInv, QuoteTyped
  <2>2. Collateral /\ TdxClaims
    BY <2>1 DEF Established, ClaimsAppraised
  <2>3. met # {} /\ l[FirstOf(met)].status = "UpToDate"
    BY <2>2 DEF TdxClaims, appraise_platform, PlatformCurrent, require_current
  <2>4. l \in Seq(ToSet(l))
    BY <2>1, <2>2 DEF Presented, Collateral, Listed
  <2>5. DOMAIN l \subseteq Nat
    BY <2>4
  <2>6. FirstOf(met) \in met /\ \A j \in met : FirstOf(met) <= j
    BY <2>3, <2>5, LeastNumber
  <2>7. ASSUME NEW j \in met, Stronger(l[j], l[FirstOf(met)]) PROVE l[j].status = "UpToDate"
    <3>1. j <= FirstOf(met) /\ FirstOf(met) <= j /\ j \in Nat /\ FirstOf(met) \in Nat
      BY <2>5, <2>6, <2>7
    <3>2. j = FirstOf(met)
      BY <3>1
    <3> QED
      BY <2>3, <3>2
  <2> QED
    BY <2>3, <2>6, <2>7
<1> QED
  BY <1>1, QuoteInvariance, PTL

=============================================================================
