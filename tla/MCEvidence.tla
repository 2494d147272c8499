----------------------------- MODULE MCEvidence -----------------------------
(***************************************************************************)
(* Instance of the evidence modules for TLC.  Collection, the service that *)
(* hands it out and the appraisals share no state: a behaviour is about    *)
(* one of them, and the rest stands still.                                 *)
(***************************************************************************)
EXTENDS GpuCollect, EvidenceService, GpuAppraise, MCQuoteCases

VARIABLE about
evidenceVars == <<collectVars, serviceVars, appraiseVars, quoteVars, about>>

MCPlugged == {<<>>, <<"g1", "g2">>}

-----------------------------------------------------------------------------
(* Reports and manifests.                                                   *)

MCOpaque(header, f) ==
    [header |-> header, major |-> IF header THEN 2 ELSE 1, fields |-> f,
     types |-> [id \in DOMAIN f |-> TypedAs(id)]]
MCGpuFields(m, peers, nvdec) ==
    [id \in {3, 6, 11, 21, 22, 36} |->
        CASE id = 3 -> "d" [] id = 6 -> "v" [] id = 11 -> nvdec [] id = 21 -> "on"
          [] id = 22 -> peers [] OTHER -> m]
MCDice ==
    [kind |-> "dice", key |-> Absent, vendor |-> "NVIDIA", model |-> Absent, flags |-> {},
     mask |-> Absent, registers |-> FALSE, fwids |-> <<"f">>]
MCReport(id, model, opaque, indices) ==
    [id |-> id, model |-> model, opaque |-> opaque, nonce |-> Nonce,
     measurements |-> [k \in DOMAIN indices |-> [index |-> indices[k], value |-> "v1", digest |-> TRUE]],
     chain |-> TRUE, signed |-> TRUE, names |-> 1, tcb |-> <<MCDice>>, cec |-> FALSE]
MCRim(kind, model, version, resources) ==
    [edition |-> IF kind = "NvSwitchVbios" THEN "SWITCH" ELSE "GPU",
     form |-> IF kind = "GpuDriver" THEN "driver" ELSE "vbios", model |-> model, product |-> model,
     version |-> version, wellFormed |-> TRUE, signed |-> TRUE, resources |-> resources]
MCResource(i, active, values) ==
    [index |-> i, active |-> active, values |-> values, min |-> 0, name |-> i]
MCRims ==
    <<MCRim("GpuDriver", "GH100", "d", {MCResource(0, TRUE, {"v1"})}),
      MCRim("GpuVbios", "GH100", "v", {MCResource(1, TRUE, {"v1", "v2"})}),
      MCRim("NvSwitchVbios", "LS10", "v", {MCResource(0, TRUE, {"v1"})})>>
MCBundle(gpus, switches, rims) ==
    [nonce |-> Nonce, gpus |-> gpus, switches |-> switches, rims |-> rims]

-----------------------------------------------------------------------------
(* A fabric of two GPUs, with PDIs a and b, and two switches, p and q: every *)
(* signed graph against every enrolled one, and reports that repeat.         *)

MCFabricPolicy(pdis, e1, e2) ==
    [devices |-> [k \in 1 .. 2 |-> [id |-> <<"g1", "g2">>[k], model |-> "GH100", mode |-> "Ppcie",
                                    pdi |-> pdis[k], fields |-> [i \in {21} |-> "on"]]],
     switches |-> [k \in 1 .. 2 |-> [id |-> <<"s1", "s2">>[k], model |-> "LS_10",
                                     pdi |-> <<"p", "q">>[k], gpuPdis |-> <<e1, e2>>[k],
                                     fields |-> [i \in {21, 23, 25, 26} |->
                                                    IF i = 26 THEN <<e1, e2>>[k] ELSE "on"]]]]
MCEnds == SUBSET {"a", "b"} \ {{}}
MCLinks == SUBSET {"p", "q"} \ {{}}
MCFabricGpus ==
    {MCReport(id, "GH100", MCOpaque(FALSE, MCGpuFields("Ppcie", peers, FALSE)), <<0, 1>>) :
        id \in {"g1", "g2"}, peers \in MCLinks}
MCFabricSwitches ==
    {MCReport(s[1], "LS_10", MCOpaque(FALSE, [i \in {6, 21, 22, 23, 25, 26} |->
        CASE i = 6 -> "v" [] i = 22 -> s[2] [] i = 26 -> peers [] OTHER -> "on"]), <<0>>) :
        s \in {<<"s1", "p">>, <<"s2", "q">>}, peers \in MCEnds}
MCFabric ==
    \E pdis \in {<<"a", "b">>, <<"a", "a">>}, e1, e2 \in MCEnds, g1, g2 \in MCFabricGpus,
       s1, s2 \in MCFabricSwitches :
       /\ s2.id = "s2"
       /\ AppraiseFrom([policy |-> MCFabricPolicy(pdis, e1, e2),
                        bundle |-> MCBundle(<<g1, g2>>, <<s1, s2>>, MCRims)])

-----------------------------------------------------------------------------
(* One GPU: every manifest against every report, and one thing wrong.       *)

MCOnePolicy(m) ==
    [devices |-> <<[id |-> "g1", model |-> "GH100", mode |-> m, pdi |-> Absent,
                    fields |-> [i \in {} |-> "on"]]>>, switches |-> <<>>]
MCOne(nvdec, ms) ==
    [MCReport("g1", "GH100", MCOpaque(TRUE, MCGpuFields("Spt", {}, nvdec)), <<>>)
        EXCEPT !.measurements = ms]
MCResources ==
    {{MCResource(i, f[i] = "on", {"v1"}) : i \in {k \in 0 .. 2 : f[k] # "no"}} :
        f \in [0 .. 2 -> {"no", "on", "off"}]}
MCMeasured ==
    {SelectSeq([k \in 1 .. 3 |-> [index |-> k - 1, value |-> f[k], digest |-> TRUE]],
               LAMBDA m : m.value # "no") : f \in [1 .. 3 -> {"no", "v1", "v2"}]}
MCMeasure ==
    \E nvdec \in BOOLEAN, ms \in MCMeasured, a, b \in MCResources :
       /\ MCResource(0, TRUE, {"v1"}) \in a
       /\ AppraiseFrom([policy |-> MCOnePolicy("Spt"),
             bundle |-> MCBundle(<<MCOne(nvdec, ms)>>, <<>>,
                <<MCRim("GpuDriver", "GH100", "d", a), MCRim("GpuVbios", "GH100", "v", b)>>)])
MCGood == MCReport("g1", "GH100", MCOpaque(TRUE, MCGpuFields("Spt", {}, FALSE)), <<0, 1>>)
MCWrong ==
    {MCGood, [MCGood EXCEPT !.chain = FALSE], [MCGood EXCEPT !.signed = FALSE],
     [MCGood EXCEPT !.nonce = "old"], [MCGood EXCEPT !.names = 2],
     [MCGood EXCEPT !.tcb = @ \o @], [MCGood EXCEPT !.model = "GB100"],
     [MCGood EXCEPT !.id = "g2"], [MCGood EXCEPT !.cec = TRUE],
     [MCGood EXCEPT !.opaque.types[36] = 1], [MCGood EXCEPT !.opaque.major = 1],
     [MCGood EXCEPT !.opaque.header = FALSE]}
MCTcbs ==
    {[MCDice EXCEPT !.kind = "legacy", !.key = k] : k \in {"g1", "g2"}}
    \cup {[MCDice EXCEPT !.flags = f, !.mask = k] :
             f \in {Absent, {}, {"Debug"}, {"NotTcb"}, {"reserved"}},
             k \in {Absent, Adverse, {"Debug", "reserved"}}}
    \cup {[MCDice EXCEPT !.model = "GB100"], [MCDice EXCEPT !.registers = TRUE],
          [MCDice EXCEPT !.fwids = <<ZeroDigest>>], [MCDice EXCEPT !.fwids = <<>>]}
MCWrongRims ==
    {<<[MCRims[1] EXCEPT !.form = "other"]>>, <<[MCRims[1] EXCEPT !.product = "GB100"]>>,
     <<[MCRims[1] EXCEPT !.wellFormed = FALSE]>>, <<[MCRims[1] EXCEPT !.signed = FALSE]>>, <<MCRims[1], MCRims[2], MCRims[2]>>}
MCSvn(min) ==
    {MCResource(1, TRUE, {"v1"}),
     [index |-> OPAQUE_BASE + 37, active |-> TRUE, values |-> {}, min |-> min, name |-> "svn"]}
MCWithSvn ==
    [MCGood EXCEPT !.opaque = MCOpaque(TRUE, [id \in {3, 6, 11, 21, 22, 36, 37} |->
        IF id = 37 THEN 5 ELSE MCGpuFields("Spt", {}, FALSE)[id]])]
MCOneCases ==
    {[policy |-> MCOnePolicy("Spt"), bundle |-> MCBundle(<<r>>, <<>>, MCRims)] :
        r \in MCWrong \cup {[MCGood EXCEPT !.tcb = <<t>>] : t \in MCTcbs}}
    \cup {[policy |-> MCOnePolicy("Spt"), bundle |-> MCBundle(<<MCGood>>, <<>>, rims)] : rims \in MCWrongRims}
    \cup {[policy |-> MCOnePolicy("Spt"),
           bundle |-> MCBundle(<<r>>, <<>>, <<MCRims[1], MCRim("GpuVbios", "GH100", "v", MCSvn(min))>>)] :
              r \in {MCGood, MCWithSvn}, min \in {5, 6}}

-----------------------------------------------------------------------------
MCSome == [policy |-> MCOnePolicy("Spt"), bundle |-> MCBundle(<<MCGood>>, <<>>, MCRims)]
\* A request of the greatest length, and a shorter one for another path.
MCHeaders ==
    {[ends |-> IF p THEN 3 ELSE 2, line |-> TRUE, get |-> TRUE, headers |-> TRUE, path |-> p,
      query |-> TRUE, format |-> TRUE] : p \in BOOLEAN}

MCNoCollection == slots = <<>> /\ CollectFrom("status", "Independent")

Init ==
    /\ about \in {"collect", "service", "appraise", "quote"}
    /\ ServiceInit
    /\ \/ about = "collect" /\ CollectInit
       \/ about # "collect" /\ MCNoCollection
    /\ \/ about = "appraise" /\ (MCFabric \/ MCMeasure \/ \E c \in MCOneCases : AppraiseFrom(c))
       \/ about # "appraise" /\ AppraiseFrom(MCSome)
    /\ \/ about = "quote" /\ MCQuoteFrom
       \/ about # "quote" /\ QuoteFrom(MCSomeInput, 0)
Next ==
    \/ about = "collect" /\ CollectNext /\ UNCHANGED <<serviceVars, appraiseVars, quoteVars, about>>
    \/ about = "service" /\ ServiceNext /\ UNCHANGED <<collectVars, appraiseVars, quoteVars, about>>
    \/ about = "appraise" /\ AppraiseNext /\ UNCHANGED <<collectVars, serviceVars, quoteVars, about>>
    \/ about = "quote" /\ QuoteNext /\ UNCHANGED <<collectVars, serviceVars, appraiseVars, about>>
Spec == Init /\ [][Next]_evidenceVars
============================================================================
