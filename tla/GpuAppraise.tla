----------------------------- MODULE GpuAppraise -----------------------------
(***************************************************************************)
(* GpuVerifier::verify (v2/src/gpu/verify.rs): the appraisal of a bundle of *)
(* GPU and NVSwitch reports against an enrolled inventory.  The bundle has  *)
(* travelled through the attested host, which may leave reports out, repeat *)
(* them, put others in their place or replay old ones; only what a device   *)
(* key or the vendor signed cannot be made up.                              *)
(*                                                                          *)
(* A report is a record of what its bytes say.  Its chain's validity and    *)
(* revocation are the subject of GpuCollateral and a flag here.             *)
(***************************************************************************)
EXTENDS Naturals, Sequences, FiniteSets, SequencesExt, FiniteSetsExt

CONSTANTS
    Nonce,          \* the verifier's challenge
    NVDEC,          \* 35: the measurement of the video decoder
    OPAQUE_BASE,    \* 0x1000: resource indices from here on are SVN constraints
    MAX_DEVICES, MAX_SWITCHES_ENROLLED, MAX_RIMS,   \* 256, 32, 64
    MAX_FWIDS,      \* 16: firmware digests of a certificate
    ZeroDigest,     \* a digest of zeros
    Absent          \* an optional value that is missing

ASSUME AppraiseAssumption ==
    /\ NVDEC \in Nat \ {0} /\ OPAQUE_BASE \in Nat /\ NVDEC < OPAQUE_BASE
    /\ {MAX_DEVICES, MAX_SWITCHES_ENROLLED, MAX_RIMS, MAX_FWIDS} \subseteq Nat

VARIABLES
    case,       \* the policy and the bundle
    vf          \* the verifier: where it is and what it has gathered
appraiseVars == <<case, vf>>

policy == case.policy
submitted == case.bundle
InSeq(s) == {s[i] : i \in DOMAIN s}
Distinct(s) == \A i, j \in DOMAIN s : s[i] = s[j] => i = j

-----------------------------------------------------------------------------
(* GpuPolicy::validate.                                                     *)

gpu_manifest_model(model) == model \in {"GH100", "GB100"}
switch_manifest_model(model) == model = "LS_10"

\* The enrolled identities and PDIs are distinct, a fabric is all or nothing,
\* and the expected graph joins enrolled GPUs only and leaves none out.
DevicesValid(ds, fabric) ==
    /\ ds # <<>> /\ Len(ds) <= MAX_DEVICES
    /\ \A d \in InSeq(ds) :
          /\ gpu_manifest_model(d.model)
          /\ (d.mode = "Ppcie") = fabric
          /\ fabric => d.pdi # Absent /\ 21 \in DOMAIN d.fields
    /\ fabric => Distinct([i \in DOMAIN ds |-> ds[i].pdi])
SwitchesValid(ss, pdis) ==
    /\ Len(ss) <= MAX_SWITCHES_ENROLLED
    /\ Distinct([i \in DOMAIN ss |-> ss[i].pdi])
    /\ \A s \in InSeq(ss) :
          /\ switch_manifest_model(s.model)
          /\ s.gpuPdis # {} /\ s.gpuPdis \subseteq pdis
          /\ {21, 23, 25, 26} \subseteq DOMAIN s.fields
    /\ ss # <<>> => pdis = UNION {s.gpuPdis : s \in InSeq(ss)}
validate(p) ==
    /\ DevicesValid(p.devices, p.switches # <<>>)
    /\ SwitchesValid(p.switches, {d.pdi : d \in InSeq(p.devices)})
    /\ Distinct([i \in DOMAIN p.devices |-> p.devices[i].id]
                \o [i \in DOMAIN p.switches |-> p.switches[i].id])

-----------------------------------------------------------------------------
(* What a report says: SpdmReport, OpaqueData, certificate_identity.        *)

\* SpdmReport::parse: a report with measurements, each of its own legal index.
SpdmParse(r) ==
    /\ r.measurements # <<>>
    /\ Distinct([i \in DOMAIN r.measurements |-> r.measurements[i].index])
    /\ \A m \in InSeq(r.measurements) : m.index \in 0 .. 253

\* OpaqueData::parse: at most the second major version.
OpaqueParse(o) == o.major <= 2
HasField(o, id) == id \in DOMAIN o.fields

\* OpaqueData::bytes: with a header, the field's signed type must be the one its
\* meaning needs, and the switches' fields have no typed meaning at all.
TypedAs(id) ==
    CASE id \in {3, 6, 34} -> 134
      [] id \in {4, 11} \cup 14 .. 19 -> 130
      [] id = 12 -> 132
      [] id = 13 -> 131
      [] id = 20 -> 1
      [] id \in {21, 36} -> 133
      [] id = 37 -> 135
      [] OTHER -> Absent
Readable(o, id) ==
    /\ HasField(o, id)
    /\ o.header => o.major = 2 /\ TypedAs(id) # Absent /\ o.types[id] = TypedAs(id)
mode(o) ==
    IF o.major >= 1 /\ Readable(o, 36) /\ o.fields[36] \in {"Mpt", "Spt", "Ppcie"}
    THEN o.fields[36] ELSE Absent
svn(o, id) ==
    IF o.header /\ o.major = 2 /\ HasField(o, id) /\ o.types[id] = 135
    THEN o.fields[id] ELSE Absent

\* authenticate: a valid and unrevoked chain whose key signed this report for
\* the verifier's nonce.
authenticate(r) == r.chain /\ r.signed /\ r.nonce = Nonce /\ SpdmParse(r)

\* The flags of a DICE certificate, first those that stand for an insecure state.
Adverse ==
    {"NotConfigured", "NotSecure", "Recovery", "Debug", "NotReplayProtected",
     "NotIntegrityProtected"}
OperationalFlag == Adverse \cup {"NotRuntimeMeasured", "NotImmutable", "NotTcb"}

\* DiceOperationalFlags::parse: what a mask leaves out is unknown, and no flag
\* without a name may be set.
Meaningful(t, flag) == t.mask = Absent \/ flag \in t.mask
FlagsParse(t) ==
    IF t.flags = Absent THEN t.mask = Absent
    ELSE \A flag \in t.flags : Meaningful(t, flag) => flag \in OperationalFlag

\* certificate_identity: one identity and one firmware extension.  The legacy
\* one repeats the issuer's key, which is the device's identity, and has no
\* flags; the DICE one agrees with the certificate's name.
certificate_identity(r) ==
    /\ r.names = 1 /\ Len(r.tcb) = 1
    /\ LET t == r.tcb[1] IN
       /\ CASE t.kind = "legacy" -> t.key = r.id
            [] t.kind = "dice" -> /\ t.vendor \in {Absent, "NVIDIA"} /\ t.model \in {Absent, r.model}
                                  /\ FlagsParse(t) /\ ~t.registers
       /\ Len(t.fwids) \in 1 .. MAX_FWIDS /\ t.fwids[1] # ZeroDigest

\* require_security_flags: a flag that is unknown does not count as clear.
require_security_flags(r, clear) ==
    LET t == r.tcb[1] IN
    /\ t.kind = "dice" /\ t.flags # Absent
    /\ \A flag \in clear : Meaningful(t, flag) /\ flag \notin t.flags
require_production_security(r) == require_security_flags(r, Adverse)

\* The firmware digest of the certificate, whenever the report has one.
FirmwareBound(r, always) ==
    (always \/ HasField(r.opaque, 20)) =>
        Readable(r.opaque, 20) /\ r.opaque.fields[20] = r.tcb[1].fwids[1]
check_fields(o, required) ==
    \A id \in DOMAIN required : Readable(o, id) /\ o.fields[id] = required[id]

\* pdi_set: the peers, of which an unconnected position is not one.
pdi_set(o, id) == IF Readable(o, id) THEN o.fields[id] \ {Absent} ELSE {}

-----------------------------------------------------------------------------
(* Manifests: rim.rs.                                                       *)

\* The resources that are reference measurements; the others are constraints on
\* opaque fields of the report.
Measured(rim) == {r \in rim.resources : r.index < OPAQUE_BASE}
\* The kind follows from the edition and from the form of the version.
RimKind(rim) ==
    CASE rim.edition = "GPU" /\ rim.form = "driver" -> "GpuDriver"
      [] rim.edition = "GPU" /\ rim.form = "vbios" -> "GpuVbios"
      [] rim.edition = "SWITCH" /\ rim.form = "vbios" -> "NvSwitchVbios"
      [] OTHER -> Absent

\* parse_document: bounded, without entities or ambiguous identifiers.
parse_document(rim) == rim.wellFormed

\* The loop over the resources: every one with an index of its own, some active
\* measurement, and SVNs that fit 16 bits.
Resources(rim) ==
    /\ \A r, q \in rim.resources : r.index = q.index => r = q
    /\ \A r \in Measured(rim) : r.index < 254 /\ r.values # {}
    /\ \E r \in Measured(rim) : r.active
    /\ \A r \in rim.resources \ Measured(rim) : r.min < 65536

\* extract_data: one name for model and product, a kind, and the resources.
extract_data(rim) ==
    /\ rim.model = rim.product /\ RimKind(rim) # Absent
    /\ Resources(rim)

\* verify_xml: the signature over the whole document, its signer's path and
\* revocation, and then the data.
verify_xml(rim) == parse_document(rim) /\ rim.signed /\ extract_data(rim)

\* manifest: exactly one for the kind, model and signed version.
Matching(rims, kind, model, version) ==
    {i \in DOMAIN rims : RimKind(rims[i]) = kind /\ rims[i].model = model /\ rims[i].version = version}
Chosen(rims, wanted) == {rims[i] : i \in UNION {Matching(rims, w[1], w[2], w[3]) : w \in wanted}}
manifest(rims, wanted) ==
    \A w \in wanted : Cardinality(Matching(rims, w[1], w[2], w[3])) = 1

Active(rims) == {p \in UNION {{rim} \X Measured(rim) : rim \in rims} : p[2].active}
Golden(rims, index) == UNION {p[2].values : p \in {q \in Active(rims) : q[2].index = index}}
ActiveIndices(rims) == {p[2].index : p \in Active(rims)}
InactiveIndices(rims) ==
    UNION {{r.index : r \in {q \in Measured(rim) : ~q.active}} : rim \in rims}

\* appraise: no index is active in two manifests, and measurement 0 is in one.
NoOverlap(rims) == \A p, q \in Active(rims) : p[2].index = q[2].index => p = q

\* appraise_svn: one constraint for a field and a name; none rolled back.
Constraints(rims) ==
    UNION {{<<rim, r>> : r \in {q \in rim.resources \ Measured(rim) : q.active}} : rim \in rims}
appraise_svn(o, rims) ==
    /\ \A p, q \in Constraints(rims) :
          (p[2].index = q[2].index \/ p[2].name = q[2].name) => p = q
    /\ \A p \in Constraints(rims) :
          LET now == svn(o, p[2].index - OPAQUE_BASE) IN now # Absent /\ now >= p[2].min

-----------------------------------------------------------------------------
(* verify.                                                                  *)

Proceed(ok, next) == (IF ok THEN vf' = next ELSE vf' = [vf EXCEPT !.pc = "rejected"]) /\ UNCHANGED case

\* Constructor and the checks of the whole bundle.
Open ==
    /\ vf.pc = "open"
    /\ Proceed(/\ validate(policy)
               /\ submitted.nonce = Nonce
               /\ Len(submitted.gpus) = Len(policy.devices)
               /\ Len(submitted.switches) = Len(policy.switches)
               /\ \A r \in InSeq(submitted.gpus) : ~r.cec
               /\ submitted.rims # <<>> /\ Len(submitted.rims) <= MAX_RIMS
               /\ \A rim \in InSeq(submitted.rims) : verify_xml(rim),
               [vf EXCEPT !.pc = "gpu"])

Enrolled(list, id) == {p \in InSeq(list) : p.id = id}

\* Broken: the identities already appraised are not remembered.
NewIdentity_any(r) == TRUE

NewIdentity(r) == r.id \notin vf.seen

\* The part both kinds of device share.
Authentic(r, list) ==
    /\ authenticate(r) /\ certificate_identity(r) /\ require_production_security(r)
    /\ NewIdentity(r) /\ Enrolled(list, r.id) # {}
    /\ OpaqueParse(r.opaque)
    /\ \A p \in Enrolled(list, r.id) : r.model = p.model

GpuAdmit ==
    /\ vf.pc = "gpu" /\ vf.i <= Len(submitted.gpus)
    /\ LET r == submitted.gpus[vf.i] IN
       Proceed(/\ Authentic(r, policy.devices)
               /\ FirmwareBound(r, r.model = "GB100")
               /\ r.model = "GB100" /\ HasField(r.opaque, 35) =>
                     Readable(r.opaque, 35) /\ r.opaque.fields[35] = r.model
               /\ \A p \in Enrolled(policy.devices, r.id) :
                     mode(r.opaque) = p.mode /\ check_fields(r.opaque, p.fields)
               /\ Readable(r.opaque, 3) /\ Readable(r.opaque, 6),
               [vf EXCEPT !.pc = "gpuRims", !.seen = @ \cup {r.id}])

\* Manifests, SVNs, the boot measurement's reference and the decoder's state.
Appraise(r, wanted, gpu, from, to) ==
    /\ vf.pc = from
    /\ LET rims == Chosen(submitted.rims, wanted) IN
       Proceed(/\ manifest(submitted.rims, wanted) /\ NoOverlap(rims)
               /\ appraise_svn(r.opaque, rims)
               /\ 0 \in ActiveIndices(rims)
               /\ gpu => Readable(r.opaque, 11) /\ r.opaque.fields[11] \in BOOLEAN,
               [vf EXCEPT !.pc = to, !.rims = rims, !.remaining = ActiveIndices(rims),
                          !.nvdec = gpu /\ r.opaque.fields[11], !.j = 1])
GpuRims ==
    LET r == submitted.gpus[vf.i] IN
    Appraise(r, {<<"GpuDriver", r.model, r.opaque.fields[3]>>,
                 <<"GpuVbios", r.model, r.opaque.fields[6]>>}, TRUE, "gpuRims", "gpuMeasure")

\* Broken: an index a manifest calls inactive is skipped before it is looked up.
Disposed_inactive_first(m) ==
    m.index \in InactiveIndices(vf.rims) \/ m.value \in Golden(vf.rims, m.index)

\* A measurement with active references equals one of them; any other must be
\* declared inactive.
Disposed(m) ==
    IF m.index \in ActiveIndices(vf.rims) THEN m.value \in Golden(vf.rims, m.index)
    ELSE m.index \in InactiveIndices(vf.rims)

\* One measurement of the report: the disabled decoder's is set aside.
appraise_measurements(r, from) ==
    /\ vf.pc = from /\ vf.j <= Len(r.measurements)
    /\ LET m == r.measurements[vf.j] IN
       Proceed(m.digest /\ ((m.index = NVDEC /\ vf.nvdec) \/ Disposed(m)),
               [vf EXCEPT !.j = @ + 1, !.remaining = @ \ {m.index}])
MeasuredAll(r, from) == vf.pc = from /\ vf.j > Len(r.measurements)

GpuMeasure == appraise_measurements(submitted.gpus[vf.i], "gpuMeasure")

\* Broken: the peers a GPU signed only have to include the expected switches.
Expected_among(peers, p, switches) ==
    {s.pdi : s \in {x \in InSeq(switches) : p.pdi \in x.gpuPdis}} \subseteq peers

Expected(peers, p, switches) ==
    peers = {s.pdi : s \in {x \in InSeq(switches) : p.pdi \in x.gpuPdis}}

\* All required measurements were seen; in a fabric the signed peers are the
\* expected switches, and the edges are kept for the switches to confirm.
GpuDone ==
    LET r == submitted.gpus[vf.i]
        p == CHOOSE q \in Enrolled(policy.devices, r.id) : TRUE
        peers == pdi_set(r.opaque, 22)
    IN  /\ vf.i <= Len(submitted.gpus) /\ MeasuredAll(r, "gpuMeasure")
        /\ Proceed(vf.remaining = {} /\ (p.mode = "Ppcie" => peers # {} /\ Expected(peers, p, policy.switches)),
                   [vf EXCEPT !.pc = "gpu", !.i = @ + 1, !.devices = Append(@, r),
                       !.edges = IF p.mode = "Ppcie" THEN @ \cup ({p.pdi} \X peers) ELSE @])
GpusDone ==
    /\ vf.pc = "gpu" /\ vf.i > Len(submitted.gpus)
    /\ vf' = [vf EXCEPT !.pc = "switch", !.i = 1]
    /\ UNCHANGED case

\* A switch's own PDI and peers are the enrolled ones, and each peer GPU named
\* this switch.
SwitchAdmit ==
    /\ vf.pc = "switch" /\ vf.i <= Len(submitted.switches)
    /\ LET r == submitted.switches[vf.i]
           peers == pdi_set(r.opaque, 26)
       IN  Proceed(/\ Authentic(r, policy.switches)
                   /\ FirmwareBound(r, FALSE)
                   /\ Readable(r.opaque, 22) /\ peers # {}
                   /\ \A p \in Enrolled(policy.switches, r.id) :
                         /\ check_fields(r.opaque, p.fields)
                         /\ r.opaque.fields[22] = p.pdi /\ peers = p.gpuPdis
                         /\ \A peer \in peers : <<peer, p.pdi>> \in vf.edges
                   /\ ~r.opaque.header /\ HasField(r.opaque, 6),
                   [vf EXCEPT !.pc = "switchRims", !.seen = @ \cup {r.id}])
SwitchRims ==
    LET r == submitted.switches[vf.i] IN
    Appraise(r, {<<"NvSwitchVbios", "LS10", r.opaque.fields[6]>>}, FALSE, "switchRims",
             "switchMeasure")
SwitchMeasure == appraise_measurements(submitted.switches[vf.i], "switchMeasure")
SwitchDone ==
    LET r == submitted.switches[vf.i] IN
    /\ vf.i <= Len(submitted.switches) /\ MeasuredAll(r, "switchMeasure")
    /\ Proceed(vf.remaining = {},
               [vf EXCEPT !.pc = "switch", !.i = @ + 1, !.switches = Append(@, r)])
Accept ==
    /\ vf.pc = "switch" /\ vf.i > Len(submitted.switches)
    /\ vf' = [vf EXCEPT !.pc = "accepted"]
    /\ UNCHANGED case

\* All that is known beforehand of a policy and a bundle: their lists are lists.
IsList(s) == s \in Seq(InSeq(s))
Submission(c) ==
    /\ IsList(c.policy.devices) /\ IsList(c.policy.switches)
    /\ IsList(c.bundle.gpus) /\ IsList(c.bundle.switches) /\ IsList(c.bundle.rims)
    /\ \A r \in InSeq(c.bundle.gpus) \cup InSeq(c.bundle.switches) : IsList(r.measurements)

\* A verification of the bundle c.bundle under the policy c.policy.
AppraiseFrom(c) ==
    /\ case = c /\ Submission(case)
    /\ vf = [pc |-> "open", i |-> 1, j |-> 1, seen |-> {}, edges |-> {}, rims |-> {},
             remaining |-> {}, nvdec |-> FALSE, devices |-> <<>>, switches |-> <<>>]
AppraiseNext ==
    \/ Open \/ GpuAdmit \/ GpusDone \/ SwitchAdmit \/ Accept
    \/ vf.pc \in {"gpuRims", "gpuMeasure"} /\ (GpuRims \/ GpuMeasure \/ GpuDone)
    \/ vf.pc \in {"switchRims", "switchMeasure"} /\ (SwitchRims \/ SwitchMeasure \/ SwitchDone)
\* The verification of any bundle under any policy.
AppraiseSpec == AppraiseFrom(case) /\ [][AppraiseNext]_appraiseVars

\* A verdict covers the enrolled inventory exactly: every enrolled device and
\* switch answered this challenge itself, none was left out, none stood in for
\* another, although the code only counts, looks up and remembers identities.
InventoryExact ==
    vf.pc = "accepted" =>
       /\ {r.id : r \in InSeq(vf.devices)} = {p.id : p \in InSeq(policy.devices)}
       /\ {r.id : r \in InSeq(vf.switches)} = {p.id : p \in InSeq(policy.switches)}
       /\ \A r \in InSeq(vf.devices) \cup InSeq(vf.switches) :
             r.nonce = Nonce /\ r.chain /\ r.signed /\ Adverse \cap r.tcb[1].flags = {}

\* In an accepted fabric both ends of every link signed it: a switch a GPU names
\* was appraised and names the GPU, and the other way round, and no GPU or
\* switch has a peer outside the appraised ones.
FabricReciprocal ==
    vf.pc = "accepted" /\ policy.switches # <<>> =>
       LET ends == {<<p.pdi, q>> : p \in InSeq(policy.devices), q \in {s.pdi : s \in InSeq(policy.switches)}}
           byGpu == UNION {{<<x[2].pdi, q>> : q \in x[1].opaque.fields[22] \ {Absent}} :
                           x \in {y \in InSeq(vf.devices) \X InSeq(policy.devices) : y[1].id = y[2].id}}
           bySwitch == UNION {{<<g, r.opaque.fields[22]>> : g \in r.opaque.fields[26] \ {Absent}} :
                              r \in InSeq(vf.switches)}
       IN  byGpu = bySwitch /\ byGpu \subseteq ends

\* Every reference measurement that any manifest of an accepted device marks
\* active was reported and equals a signed value, also when the other manifest
\* calls the index inactive; only a decoder signed as disabled is excused.
MeasurementsDisposed ==
    vf.pc = "accepted" => \A r \in InSeq(vf.devices) :
       LET rims == Chosen(submitted.rims, {<<"GpuDriver", r.model, r.opaque.fields[3]>>,
                                           <<"GpuVbios", r.model, r.opaque.fields[6]>>})
       IN  \A i \in ActiveIndices(rims) :
              \/ \E m \in InSeq(r.measurements) : m.index = i /\ m.value \in Golden(rims, i)
              \/ i = NVDEC /\ r.opaque.fields[11] /\ \E m \in InSeq(r.measurements) : m.index = i

=============================================================================
