------------------------------ MODULE CpuQuote ------------------------------
(***************************************************************************)
(* Verification of one CPU quote: verify_platform_quote_for_admission and   *)
(* verify_platform_quote (v2/src/quote/verify.rs) with the appraisal of AMD *)
(* and Intel collateral (v2/src/quote/snp_collateral.rs, tdx_collateral.rs). *)
(*                                                                          *)
(* Quote and collateral come from the attested host; the policy, the pinned *)
(* roots and the clock are the verifier's.  The clock is read once and time *)
(* passes while certificates are fetched and checks run, so each stage is a *)
(* step.  A quote is a record of what it says, and "signer" the key that    *)
(* signed it.  "defects" are framing and reserved-bit errors, each fatal.   *)
(***************************************************************************)
EXTENDS CpuPki, SequencesExt

CONSTANTS
    Pins,           \* the pinned root certificate of "nitro", "intel" and each AMD product
    Binding,        \* the binding the verifier expects
    Zero,           \* a launch measurement of zeros
    ENTRY,          \* 24: bytes of a certificate table entry
    MAX_TABLE,      \* 32: certificate table entries
    MAX_CERT,       \* 256 KiB: length of an embedded certificate
    MAX_SPL,        \* 127: security version of an AMD component
    MAX_LEVELS,     \* 512: TCB levels of a document
    KdsLeaf,        \* the VCEK AMD's service has for a report
    KdsIssuers,     \* the ASK and ARK it has for "vcek" and "vlek"
    MaxClock        \* bound on the clock

ASSUME QuoteAssumption ==
    {ENTRY, MAX_TABLE, MAX_CERT, MAX_SPL, MAX_LEVELS, MaxClock} \subseteq Nat

VARIABLES
    clock,
    input,      \* platform, quote, collateral and policy
    adm         \* where verification is, its moment and what it fetched
quoteVars == <<clock, input, adm>>

q == input.quote
Bits(actual, mask, expected) == actual \cap mask = expected

\* Broken: every check reads the clock for itself.
Instant_again == clock

\* The moment trusted_now gave when verification began.
Instant == adm.now

-----------------------------------------------------------------------------
(* AWS Nitro: a COSE document signed by the leaf it carries.                *)

NitroParse ==
    /\ q.defects = {} /\ q.digest = "SHA384"
    /\ DOMAIN q.pcrs \subseteq 0 .. 31 /\ 0 \in DOMAIN q.pcrs
    /\ q.data = Binding
verify_nitro_quote ==
    /\ NitroParse
    /\ q.leaf # Missing /\ q.leaf.kind = "P384" /\ q.signer = q.leaf.key
    /\ q.bundle # <<>>
    /\ validate_chain(<<q.leaf>> \o Reverse(q.bundle), Pins["nitro"], Instant, "P384")

-----------------------------------------------------------------------------
(* AMD SEV-SNP.                                                             *)

\* parse_snp_cert_table: entries of their own GUID whose ranges lie behind the
\* table and within the quote, and overlap neither the table nor each other.
parse_snp_cert_table(t) ==
    LET e == t.entries IN
    /\ t.terminated /\ Len(e) <= MAX_TABLE
    /\ \A i \in DOMAIN e :
          /\ e[i].len \in 1 .. MAX_CERT
          /\ e[i].at >= (Len(e) + 1) * ENTRY /\ e[i].at + e[i].len <= t.size
          /\ \A j \in DOMAIN e \ {i} :
                /\ e[i].guid # e[j].guid
                /\ e[i].at + e[i].len <= e[j].at \/ e[j].at + e[j].len <= e[i].at
Embedded(guid) ==
    LET found == {i \in DOMAIN q.table.entries : q.table.entries[i].guid = guid}
    IN  IF q.table = Missing \/ found = {} THEN Missing
        ELSE q.table.entries[CHOOSE i \in found : TRUE].cert

SnpParse ==
    /\ q.version \in {2, 5} /\ q.defects \cap {"algorithm", "key encoding", "signature padding"} = {}
    /\ q.data = Binding
    /\ q.table # Missing => parse_snp_cert_table(q.table)

\* kds::snp_product, which reads the product from a version 5 report.
snp_product == IF q.version = 5 /\ q.cpu \in {"Milan", "Genoa", "Turin"} THEN q.cpu ELSE Missing

LeafRole == IF q.vlek THEN "vlek" ELSE "vcek"
Disagree(embedded, given) == embedded # Missing /\ embedded # given

\* Broken: certificates of the quote's own table are preferred to the collateral.
SnpPath_table_first ==
    LET e == <<Embedded(LeafRole), Embedded("ask"), Embedded("ark")>> IN
    IF input.collateral # Missing
    THEN [i \in 1 .. 3 |-> IF e[i] # Missing THEN e[i] ELSE input.collateral.chain[i]]
    ELSE [i \in 1 .. 3 |-> IF e[i] = Missing \/ (~q.vlek /\ e[1] = Missing /\ adm.got[i] # Missing)
                           THEN adm.got[i] ELSE e[i]]

\* Leaf, ASK or ASVK, and ARK: the collateral's, which the quote's own must not
\* contradict; without collateral the quote's own, completed by what was fetched.
SnpPath ==
    LET e == <<Embedded(LeafRole), Embedded("ask"), Embedded("ark")>>
        given == input.collateral.chain
    IN  IF input.collateral # Missing
        THEN IF \E i \in 1 .. 3 : Disagree(e[i], given[i]) THEN <<Missing, Missing, Missing>> ELSE given
        ELSE [i \in 1 .. 3 |-> IF e[i] = Missing \/ (~q.vlek /\ e[1] = Missing /\ adm.got[i] # Missing)
                               THEN adm.got[i] ELSE e[i]]

\* A report without its leaf, or a VLEK without its issuers, sends the
\* verifier to AMD's service, which may not answer, or not completely.
SnpFetches ==
    /\ input.platform = "snp" /\ input.collateral = Missing /\ snp_product # Missing
    /\ IF q.vlek THEN Missing \in {Embedded("ask"), Embedded("ark")} ELSE Embedded("vcek") = Missing
SnpFetched ==
    {<<Missing, Missing, Missing>>}
    \cup IF q.vlek THEN {<<Missing>> \o KdsIssuers["vlek"]}
         ELSE {<<KdsLeaf, Missing, Missing>>, <<KdsLeaf>> \o KdsIssuers["vcek"]}

verify_snp_quote ==
    LET path == SnpPath
        product == IF input.collateral # Missing THEN input.policy.product ELSE snp_product
    IN  /\ SnpParse
        /\ product # Missing
        /\ \A i \in 1 .. 3 : path[i] # Missing
        /\ path[1].kind = "P384" /\ q.signer = path[1].key
        /\ path[3] = Pins[product]
        /\ validate_chain(path, Pins[product], Instant, "AmdEndorsement")

\* TCB versions have a component more on Turin, and each has its limit.
SnpComponents(product) ==
    {"boot_loader", "tee", "snp", "microcode"} \cup (IF product = "Turin" THEN {"fmc"} ELSE {})
ValidTcb(t, product) ==
    DOMAIN t = SnpComponents(product) /\ \A c \in DOMAIN t \ {"microcode"} : t[c] <= MAX_SPL
at_least(t, floor) == DOMAIN t = DOMAIN floor /\ \A c \in DOMAIN t : t[c] >= floor[c]
SnpPolicyValid(p) ==
    /\ ValidTcb(p.minimum, p.product) /\ \E c \in DOMAIN p.minimum : p.minimum[c] # 0
    /\ p.vmpl <= 3

\* endorsement: the leaf's product and versions.  "amd" is Missing when its AMD
\* extensions are not exactly those of the product and the role, or malformed.
endorsement(leaf, p) ==
    /\ leaf.amd # Missing
    /\ leaf.amd.product = p.product /\ (leaf.amd.stepping = Missing) = q.vlek
    /\ ValidTcb(leaf.amd.tcb, p.product)
    /\ IF q.vlek THEN leaf.amd.csp \in p.csps /\ leaf.amd.hwid = Missing
       ELSE leaf.amd.csp = Missing /\ leaf.amd.hwid \notin {Missing, Zero}

SnpTcbs == {q.reported, q.current, q.committed, q.launch}
appraise_claims(p, endorsed) ==
    /\ IF q.version = 2 THEN p.product # "Turin" /\ q.cpu = Missing
       ELSE q.cpu = p.product /\ (endorsed.stepping # Missing => q.stepping = endorsed.stepping)
    /\ q.defects = {} /\ ~q.masked
    /\ endorsed.hwid # Missing => q.chip = endorsed.hwid
    /\ \A t \in SnpTcbs : ValidTcb(t, p.product)
    /\ q.reported = endorsed.tcb
    /\ at_least(q.current, q.reported) /\ q.current = q.committed /\ q.sameBuild
    /\ \A t \in SnpTcbs : at_least(t, p.minimum)
    /\ q.guestSvn >= p.guestSvn /\ q.vmpl = p.vmpl
    /\ {"debug", "migration agent"} \cap q.flags = {}
    /\ p.noSmt => "smt" \notin q.flags
    /\ p.aliasCheck => q.version = 5 /\ "alias check" \in q.flags
    /\ p.mitigations \subseteq IF q.version = 2 THEN {} ELSE q.mitigations
SnpRoles(chain, p) ==
    /\ chain[2].cn = <<IF q.vlek THEN "SEV-VLEK" ELSE "SEV", p.product>>
    /\ chain[1].cn = IF q.vlek THEN "SEV-VLEK" ELSE "SEV-VCEK"
    /\ chain[1].alg = "pss"

\* appraise_snp, first the path and the product's revocation list.
SnpChain ==
    LET c == input.collateral IN
    /\ validate_chain(c.chain, Pins[input.policy.product], Instant, "AmdEndorsement")
    /\ check_crl(c.crl, c.chain[2], c.chain[3], Instant)
    /\ SnpRoles(c.chain, input.policy)
SnpClaims ==
    LET leaf == input.collateral.chain[1] IN
    endorsement(leaf, input.policy) /\ appraise_claims(input.policy, leaf.amd)

-----------------------------------------------------------------------------
(* Intel TDX.                                                               *)

\* The quote's own frame: it is about the expected binding and the attestation
\* key signed it.
TdxBody == q.defects = {} /\ q.data = Binding /\ q.signer = q.ak

\* parse_pem_chain.
parse_pem_chain(chain) == Len(chain) \in 1 .. MAX_CHAIN_CERTS

\* The quoting enclave reported that key, and the key of the PCK certificate
\* signed the enclave's report.
QuotingEnclave ==
    /\ q.qe # Missing /\ q.qe.bound = <<q.ak, q.auth>>
    /\ parse_pem_chain(q.pck)
    /\ Len(q.pck) >= 3 /\ q.pck[1].kind = "P256" /\ q.qe.signer = q.pck[1].key
    /\ validate_chain(q.pck, Pins["intel"], Instant, "P256")
verify_tdx_quote == TdxBody /\ QuotingEnclave

\* QuoteParts::parse: appraisal frames the quote again, with the same result.
QuoteParts == q.defects = {} /\ q.qe # Missing
\* PckTcb::parse: exactly the fields of the certificate's type.
PckTcb(c) ==
    /\ c.sgx # Missing
    /\ c.sgx.type \in {0, 1} /\ c.sgx.fields = 1 .. IF c.sgx.type = 1 THEN 7 ELSE 5
    /\ c.sgx.tcbFields = 1 .. 18
TdxChain ==
    LET c == input.collateral IN
    /\ QuoteParts /\ parse_pem_chain(q.pck)
    /\ Len(q.pck) = 3 /\ validate_chain(q.pck, Pins["intel"], Instant, "P256")
    /\ q.pck[1].cn = "PCK Certificate" /\ q.pck[2].cn \in {"PCK Platform CA", "PCK Processor CA"}
    /\ check_crl(c.rootCrl, q.pck[2], q.pck[3], Instant)
    /\ check_crl(c.pckCrl, q.pck[1], q.pck[2], Instant)
    /\ PckTcb(q.pck[1])

\* verify_signed_json and check_document_window; unknown and repeated fields of
\* a signed document are defects.
verify_signed_json(doc, rootCrl) ==
    /\ Len(doc.chain) = 2 /\ validate_chain(doc.chain, Pins["intel"], Instant, "P256")
    /\ doc.chain[1].cn = "TCB Signing"
    /\ check_crl(rootCrl, doc.chain[1], doc.chain[2], Instant)
    /\ doc.signer = doc.chain[1].key /\ doc.defects = {}
check_document_window(doc) == check_dates(doc.from, doc.to, Instant)
TdxDocuments ==
    LET c == input.collateral IN
    /\ \A doc \in {c.tcb, c.qe} :
          /\ verify_signed_json(doc, c.rootCrl) /\ check_document_window(doc)
          /\ doc.evaluation >= input.policy.floor
    /\ c.tcb.id = "TDX" /\ c.qe.id = "TD_QE"

Statuses ==
    {"UpToDate", "OutOfDate", "Revoked", "ConfigurationNeeded", "OutOfDateConfigurationNeeded",
     "SWHardeningNeeded", "ConfigurationAndSWHardeningNeeded"}
check_level_metadata(l) == l.date <= Instant /\ l.status \in Statuses
LevelCount(levels) == Len(levels) \in 1 .. MAX_LEVELS
FirstOf(S) == CHOOSE i \in S : \A j \in S : i <= j
require_current(levels, matching) ==
    matching # {} /\ levels[FirstOf(matching)].status = "UpToDate"

\* select_isv_level and require_current: the first level not above the version.
IsvCurrent(levels, svn_) ==
    /\ LevelCount(levels) /\ \A i \in DOMAIN levels : check_level_metadata(levels[i])
    /\ \A i \in DOMAIN levels : i > 1 => levels[i - 1].svn > levels[i].svn
    /\ require_current(levels, {i \in DOMAIN levels : svn_ >= levels[i].svn})

appraise_qe(id) ==
    /\ Bits(q.qe.misc, id.miscMask, id.misc) /\ Bits(q.qe.attributes, id.mask, id.attributes)
    /\ "debug" \notin q.qe.attributes
    /\ q.qe.mrsigner = id.mrsigner /\ q.qe.prodid = id.prodid
    /\ IsvCurrent(id.levels, q.qe.svn)

\* The components compared: a TDX module with a version of its own is left out.
Compared(tee) == {i \in DOMAIN tee : tee[2] = 0 \/ i > 2}
PlatformMatches(l, sgx, tee) ==
    /\ \A i \in DOMAIN sgx.components : sgx.components[i] >= l.sgx[i]
    /\ sgx.pceSvn >= l.pce
    /\ \A i \in Compared(tee) : tee[i] >= l.tdx[i]

\* Broken: the first level that matches and is up to date.
PlatformCurrent_skipping(info, sgx, tee) ==
    \E i \in DOMAIN info.levels :
       PlatformMatches(info.levels[i], sgx, tee) /\ info.levels[i].status = "UpToDate"

\* The first level that matches, which Intel's order makes the best.
PlatformCurrent(info, sgx, tee) ==
    require_current(info.levels,
        {i \in DOMAIN info.levels : PlatformMatches(info.levels[i], sgx, tee)})

appraise_platform(info, sgx, tee) ==
    /\ info.fmspc = sgx.fmspc /\ info.pceId = sgx.pceId
    /\ LevelCount(info.levels) /\ \A i \in DOMAIN info.levels : check_level_metadata(info.levels[i])
    /\ \A i, j \in DOMAIN info.levels :
          LET a == info.levels[i] b == info.levels[j] IN
          a.sgx = b.sgx /\ a.tdx = b.tdx /\ a.pce = b.pce => i = j
    /\ PlatformCurrent(info, sgx, tee)

\* appraise_module: a module with a version needs an identity of that version.
SeamMatches(m) == q.seam.mrsigner = m.mrsigner /\ Bits(q.seam.attributes, m.mask, m.attributes)
appraise_module(info, tee) ==
    /\ \A i, j \in DOMAIN info.identities : info.identities[i].id = info.identities[j].id => i = j
    /\ IF tee[2] = 0 THEN SeamMatches(info.module)
       ELSE \E i \in DOMAIN info.identities :
               /\ info.identities[i].id = tee[2]
               /\ IsvCurrent(info.identities[i].levels, tee[1])
               /\ SeamMatches(info.identities[i])
    /\ q.seam.attributes = {}
TdxClaims ==
    LET c == input.collateral sgx == q.pck[1].sgx IN
    appraise_qe(c.qe) /\ appraise_platform(c.tcb, sgx, q.tee) /\ appraise_module(c.tcb, q.tee)

-----------------------------------------------------------------------------
(* The stages.                                                              *)

Stage(from, ok, to) ==
    /\ adm.pc = from
    /\ adm' = [adm EXCEPT !.pc = IF ok THEN to ELSE "rejected"]
    /\ UNCHANGED <<clock, input>>

\* Collateral and policy are both of the quote's platform, and usable.
BeginQuote ==
    /\ adm.pc = "begin"
    /\ LET ok == input.admission =>
                 CASE input.platform = "nitro" -> input.collateral = Missing /\ input.policy = Missing
                   [] OTHER ->
                        /\ input.collateral # Missing /\ input.policy # Missing
                        /\ input.collateral.kind = input.platform /\ input.policy.kind = input.platform
                        /\ IF input.platform = "tdx" THEN input.policy.floor > 0
                           ELSE Len(input.collateral.chain) = 3 /\ SnpPolicyValid(input.policy)
       IN  adm' = [adm EXCEPT !.now = clock, !.pc = IF ok THEN "quote" ELSE "rejected"]
    /\ UNCHANGED <<clock, input>>

\* The requests verification makes itself, at most once.
KdsFetch ==
    /\ adm.pc = "quote" /\ SnpFetches /\ adm.got = <<Missing, Missing, Missing>> /\ ~adm.asked
    /\ \E got \in SnpFetched : adm' = [adm EXCEPT !.got = got, !.asked = TRUE]
    /\ UNCHANGED <<clock, input>>

Authenticate ==
    /\ input.platform = "snp" => (SnpFetches => adm.asked)
    /\ Stage("quote",
             CASE input.platform = "nitro" -> verify_nitro_quote
               [] input.platform = "snp" -> verify_snp_quote
               [] OTHER -> verify_tdx_quote,
             IF input.admission THEN "launch" ELSE "accepted")

\* No debug launch and no measurement of zeros.
Launch ==
    LET measured == IF input.platform = "nitro" THEN q.pcrs[0] ELSE q.measurement IN
    Stage("launch", measured # Zero /\ (input.platform = "tdx" => ~q.debug),
          IF input.platform = "nitro" THEN "accepted" ELSE "chain")
AppraiseChain ==
    IF input.platform = "snp" THEN Stage("chain", SnpChain, "claims")
    ELSE Stage("chain", TdxChain, "documents")
AppraiseDocuments == Stage("documents", TdxDocuments, "claims")
AppraiseClaims == Stage("claims", IF input.platform = "snp" THEN SnpClaims ELSE TdxClaims, "accepted")

Passing ==
    /\ adm.pc \notin {"accepted", "rejected"} /\ clock < MaxClock
    /\ clock' = clock + 1
    /\ UNCHANGED <<input, adm>>

\* All that is known beforehand of what is verified: its lists are lists.
Listed(s) == s \in Seq(ToSet(s))
Presented(i) ==
    /\ i.platform = "nitro" => Listed(i.quote.bundle)
    /\ i.platform = "tdx" /\ i.collateral # Missing =>
          (i.collateral.kind = "tdx" => Listed(i.collateral.tcb.levels))

QuoteFrom(i, c) ==
    /\ clock = c /\ input = i /\ Presented(input)
    /\ adm = [pc |-> "begin", now |-> 0, got |-> <<Missing, Missing, Missing>>, asked |-> FALSE]
QuoteNext ==
    \/ BeginQuote \/ KdsFetch
    \/ adm.pc = "quote" /\ Authenticate
    \/ adm.pc = "launch" /\ Launch
    \/ adm.pc = "chain" /\ AppraiseChain
    \/ AppraiseDocuments
    \/ adm.pc = "claims" /\ AppraiseClaims
    \/ Passing
QuoteSpec == clock \in 0 .. MaxClock /\ QuoteFrom(input, clock) /\ [][QuoteNext]_quoteVars

-----------------------------------------------------------------------------
QuoteAdmitted == adm.pc = "accepted" /\ input.admission

\* What an admission rests on: certificates, and dated lists and documents.
Certificates ==
    CASE input.platform = "nitro" -> {q.leaf} \cup ToSet(q.bundle)
      [] input.platform = "snp" -> ToSet(input.collateral.chain)
      [] OTHER -> ToSet(q.pck) \cup ToSet(input.collateral.tcb.chain) \cup ToSet(input.collateral.qe.chain)
Documents ==
    CASE input.platform = "nitro" -> {}
      [] input.platform = "snp" -> {input.collateral.crl}
      [] OTHER -> {input.collateral.tcb, input.collateral.qe, input.collateral.rootCrl,
                   input.collateral.pckCrl}

\* Although the checks of one admission run one after the other, there is a
\* single moment of it at which every certificate, revocation list and signed
\* document it rests on was current: none had lapsed before another began.
CurrentTogether ==
    QuoteAdmitted =>
       \E t \in 0 .. clock :
          /\ t >= adm.now
          /\ \A c \in Certificates : c.from <= t /\ t <= c.to
          /\ \A d \in Documents : d.from <= t /\ t < d.to

\* The key that signed an admitted quote is the one the appraised collateral is
\* about, although authentication and appraisal find it separately: an SNP
\* report that reports a TCB was signed by the key AMD endorsed for that TCB and
\* chip, a TD quote by a key its platform's PCK vouches for, and neither's
\* issuer is on the list of revoked ones.
SignerIsAppraised ==
    QuoteAdmitted =>
       /\ input.platform = "snp" =>
             LET leaf == input.collateral.chain[1] IN
             /\ q.signer = leaf.key /\ leaf.amd.tcb = q.reported
             /\ ~q.vlek => leaf.amd.hwid = q.chip
             /\ input.collateral.chain[2].serial \notin input.collateral.crl.revoked
       /\ input.platform = "tdx" =>
             /\ q.qe.bound[1] = q.signer /\ q.qe.signer = q.pck[1].key
             /\ input.collateral.tcb.fmspc = q.pck[1].sgx.fmspc
             /\ q.pck[1].serial \notin input.collateral.pckCrl.revoked
             /\ q.pck[2].serial \notin input.collateral.rootCrl.revoked

\* Level a asks at least what level b asks.
Stronger(a, b) ==
    /\ \A i \in DOMAIN a.sgx : a.sgx[i] >= b.sgx[i]
    /\ \A i \in DOMAIN a.tdx : a.tdx[i] >= b.tdx[i]
    /\ a.pce >= b.pce

\* When Intel lists the stronger of two levels first, an admitted platform meets
\* an up-to-date level, and no level with another status that it meets is as
\* strong: a verdict never rests on a weaker level than the platform's own.
NotOutranked ==
    QuoteAdmitted /\ input.platform = "tdx" =>
       LET l == input.collateral.tcb.levels
           met == {i \in DOMAIN l : PlatformMatches(l[i], q.pck[1].sgx, q.tee)}
       IN  (\A i, j \in DOMAIN l : Stronger(l[i], l[j]) => i <= j) =>
              \E i \in met : l[i].status = "UpToDate" /\
                 \A j \in met : Stronger(l[j], l[i]) => l[j].status = "UpToDate"

=============================================================================
