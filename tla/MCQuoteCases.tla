---------------------------- MODULE MCQuoteCases ----------------------------
(***************************************************************************)
(* Quotes, collateral and policies for TLC.  Everything genuine that two    *)
(* chips, two TCB levels and a few windows give, and one thing wrong.       *)
(***************************************************************************)
EXTENDS CpuQuote

MCForever == 9
MCCert(key, kind, subject, issuer, signer, alg) ==
    [key |-> key, kind |-> kind, subject |-> subject, cn |-> subject, issuer |-> issuer,
     signer |-> signer, alg |-> alg, serial |-> key, ski |-> key,
     aki |-> [key |-> signer, name |-> Missing, serial |-> Missing], from |-> 0, to |-> MCForever,
     defects |-> {}, ca |-> FALSE, caCritical |-> FALSE, pathLen |-> Missing,
     usage |-> {"digitalSignature"}, amd |-> Missing, sgx |-> Missing]
MCAuthority(key, kind, subject, issuer, signer, alg) ==
    [MCCert(key, kind, subject, issuer, signer, alg) EXCEPT
        !.ca = TRUE, !.caCritical = TRUE, !.usage = {"keyCertSign", "cRLSign"}]
MCRoot(key, kind, subject, alg) == MCAuthority(key, kind, subject, subject, key, alg)
MCCrl(root, to, revoked) ==
    [defects |-> {}, issuer |-> root.subject, signer |-> root.key, alg |-> root.alg,
     aki |-> Missing, from |-> 0, to |-> to, revoked |-> revoked]

\* Each of the fields in turn, wrong.
MCSpoilt(c) ==
    {[c EXCEPT !.defects = {"critical extension"}], [c EXCEPT !.signer = "mallory"],
     [c EXCEPT !.issuer = "other"], [c EXCEPT !.aki.key = "other"], [c EXCEPT !.alg = "md5"]}

-----------------------------------------------------------------------------
MCArk == MCRoot("ark", "rsa", "ARK", "pss")
MCIntel == MCRoot("ir", "P256", "Root CA", "ecdsa")
MCAws == MCRoot("nr", "P384", "Nitro Root", "ecdsa")
MCPins ==
    [v \in {"nitro", "intel", "Milan", "Genoa", "Turin"} |->
        IF v = "nitro" THEN MCAws ELSE IF v = "intel" THEN MCIntel ELSE MCArk]

MCNitroLeaf == MCCert("nl", "P384", "leaf", "zone", "nz", "ecdsa")
MCZone == MCAuthority("nz", "P384", "zone", "Nitro Root", "nr", "ecdsa")
MCNitro ==
    [defects |-> {}, digest |-> "SHA384", pcrs |-> [i \in {0, 4} |-> "m"], data |-> Binding,
     leaf |-> MCNitroLeaf, bundle |-> <<MCAws, MCZone>>, signer |-> "nl"]
MCNitroQuotes ==
    {MCNitro, [MCNitro EXCEPT !.defects = {"cose"}], [MCNitro EXCEPT !.pcrs = [i \in {4} |-> "m"]],
     [MCNitro EXCEPT !.pcrs[0] = Zero], [MCNitro EXCEPT !.data = "old"],
     [MCNitro EXCEPT !.signer = "mallory"], [MCNitro EXCEPT !.bundle = <<>>],
     [MCNitro EXCEPT !.leaf = Missing], [MCNitro EXCEPT !.bundle = <<MCZone, MCAws>>],
     [MCNitro EXCEPT !.leaf.to = 1, !.bundle[2].from = 2],
     [MCNitro EXCEPT !.bundle[2].pathLen = 0], [MCNitro EXCEPT !.leaf.usage = Missing]}
    \cup {[MCNitro EXCEPT !.leaf = c] : c \in MCSpoilt(MCNitroLeaf)}
MCNitroInputs ==
    {[platform |-> "nitro", quote |-> n, collateral |-> Missing, policy |-> Missing, admission |-> b] :
        n \in MCNitroQuotes, b \in BOOLEAN}

-----------------------------------------------------------------------------
MCTcb(n) == [c \in SnpComponents("Milan") |-> n]
MCVcek(key, tcb, chip) ==
    [MCCert(key, "P384", "SEV-VCEK", "ASK", "ask", "pss") EXCEPT
        !.usage = Missing,
        !.amd = [product |-> "Milan", stepping |-> 0, tcb |-> MCTcb(tcb), hwid |-> chip, csp |-> Missing]]
MCVlek ==
    [MCCert("vl", "P384", "SEV-VLEK", "ASVK", "asvk", "pss") EXCEPT
        !.usage = Missing,
        !.amd = [product |-> "Milan", stepping |-> Missing, tcb |-> MCTcb(2), hwid |-> Missing, csp |-> "cloud"]]
MCAsk == [MCAuthority("ask", "rsa", "ASK", "ARK", "ark", "pss") EXCEPT !.cn = <<"SEV", "Milan">>]
MCAsvk == [MCAuthority("asvk", "rsa", "ASVK", "ARK", "ark", "pss") EXCEPT !.cn = <<"SEV-VLEK", "Milan">>]
MCKdsLeaf == MCVcek("k2", 2, "c1")
MCKdsIssuers == [r \in {"vcek", "vlek"} |-> <<IF r = "vcek" THEN MCAsk ELSE MCAsvk, MCArk>>]
MCVceks == {MCVcek("k1", 1, "c1"), MCVcek("k2", 2, "c1"), MCVcek("k3", 2, "c2")}

MCEntry(guid, cert, at) == [guid |-> guid, cert |-> cert, at |-> at, len |-> 1]
MCTable(certs) ==
    [terminated |-> TRUE, size |-> 9,
     entries |-> [i \in DOMAIN certs |-> MCEntry(certs[i][1], certs[i][2], Len(certs) + i)]]
MCTables(leaf) ==
    {Missing, MCTable(<<<<"vcek", leaf>>>>),
     MCTable(<<<<"vcek", leaf>>, <<"ask", MCAsk>>, <<"ark", MCArk>>>>),
     MCTable(<<<<"vlek", MCVlek>>>>),
     MCTable(<<<<"vlek", MCVlek>>, <<"ask", MCAsvk>>, <<"ark", MCArk>>>>),
     [MCTable(<<<<"vcek", leaf>>>>) EXCEPT !.entries[1].at = 1],
     [MCTable(<<<<"vcek", leaf>>, <<"vcek", leaf>>>>) EXCEPT !.entries[2].at = 3]}
MCSnp(signer, vlek, reported, table) ==
    [version |-> 5, cpu |-> "Milan", stepping |-> 0, defects |-> {}, data |-> Binding, table |-> table,
     vlek |-> vlek, masked |-> FALSE, signer |-> signer, chip |-> "c1", measurement |-> "m",
     reported |-> MCTcb(reported), current |-> MCTcb(2), committed |-> MCTcb(2), launch |-> MCTcb(2),
     sameBuild |-> TRUE, guestSvn |-> 1, vmpl |-> 0, flags |-> {}, mitigations |-> {}]
MCSnpPolicy(min) ==
    [kind |-> "snp", product |-> "Milan", minimum |-> MCTcb(min), vmpl |-> 0, csps |-> {"cloud"},
     guestSvn |-> 1, noSmt |-> TRUE, aliasCheck |-> FALSE, mitigations |-> {}]
MCSnpGiven(leaf, issuer, to, revoked) ==
    [kind |-> "snp", chain |-> <<leaf, issuer, MCArk>>, crl |-> MCCrl(MCArk, to, revoked)]
MCSnpGood == MCSnp("k2", FALSE, 2, Missing)
MCSnpWrong ==
    {[MCSnpGood EXCEPT !.version = 2], [MCSnpGood EXCEPT !.defects = {"key encoding"}],
     [MCSnpGood EXCEPT !.defects = {"reserved"}], [MCSnpGood EXCEPT !.data = "old"],
     [MCSnpGood EXCEPT !.measurement = Zero], [MCSnpGood EXCEPT !.committed = MCTcb(1)],
     [MCSnpGood EXCEPT !.launch = MCTcb(1)], [MCSnpGood EXCEPT !.flags = {"debug"}],
     [MCSnpGood EXCEPT !.flags = {"smt"}], [MCSnpGood EXCEPT !.stepping = 1],
     [MCSnpGood EXCEPT !.masked = TRUE], [MCSnpGood EXCEPT !.cpu = "Genoa"],
     [MCSnpGood EXCEPT !.version = 2, !.cpu = Missing]}
MCSnpInput(quote, collateral, pol) ==
    [platform |-> "snp", quote |-> quote, collateral |-> collateral, policy |-> pol,
     admission |-> pol # Missing]
MCSnpFrom ==
    \/ \E leaf, own \in MCVceks, signer \in {"k1", "k2", "k3"}, reported \in 1 .. 2, min \in 1 .. 2 :
       \E table \in MCTables(own), given \in {MCSnpGiven(leaf, MCAsk, MCForever, {})} :
          QuoteFrom(MCSnpInput(MCSnp(signer, FALSE, reported, table), given, MCSnpPolicy(min)), 0)
    \/ \E given \in {MCSnpGiven(MCVlek, MCAsvk, MCForever, {}), MCSnpGiven(MCVlek, MCAsvk, 2, {"asvk"}),
                     MCSnpGiven([MCVlek EXCEPT !.amd.csp = "foreign"], MCAsvk, MCForever, {})} :
          QuoteFrom(MCSnpInput(MCSnp("vl", TRUE, 2, Missing), given, MCSnpPolicy(1)), 0)
    \/ \E w \in MCSnpWrong :
          QuoteFrom(MCSnpInput(w, MCSnpGiven(MCKdsLeaf, MCAsk, MCForever, {}), MCSnpPolicy(2)), 0)
    \/ \E askTo, leafFrom \in 0 .. 3, crlTo \in 1 .. 4, revoked \in {{}, {"ask"}}, c \in 0 .. 2 :
          QuoteFrom(MCSnpInput(MCSnpGood,
              MCSnpGiven([MCKdsLeaf EXCEPT !.from = leafFrom], [MCAsk EXCEPT !.to = askTo],
                         crlTo, revoked), MCSnpPolicy(1)), c)
    \/ \E own \in MCVceks, signer \in {"k1", "k2", "vl"} : \E table \in MCTables(own) :
          QuoteFrom(MCSnpInput(MCSnp(signer, signer = "vl", 2, table), Missing, Missing), 0)

-----------------------------------------------------------------------------
MCSgx == [type |-> 0, fields |-> 1 .. 5, tcbFields |-> 1 .. 18, components |-> <<2, 2>>,
          pceSvn |-> 2, fmspc |-> "f", pceId |-> "p"]
MCPck == <<[MCCert("pk", "P256", "PCK Certificate", "PCK Platform CA", "pca", "ecdsa") EXCEPT !.sgx = MCSgx],
           MCAuthority("pca", "P256", "PCK Platform CA", "Root CA", "ir", "ecdsa"), MCIntel>>
MCTdx(tee) ==
    [defects |-> {}, data |-> Binding, measurement |-> "m", debug |-> FALSE, ak |-> "ak", auth |-> "a",
     signer |-> "ak", tee |-> tee, pck |-> MCPck, seam |-> [mrsigner |-> "i", attributes |-> {}],
     qe |-> [bound |-> <<"ak", "a">>, signer |-> "pk", misc |-> {}, attributes |-> {"init"},
             mrsigner |-> "i", prodid |-> 2, svn |-> 5]]
MCTdxWrong ==
    {[MCTdx(<<2, 0, 2>>) EXCEPT !.signer = "mallory"], [MCTdx(<<2, 0, 2>>) EXCEPT !.debug = TRUE],
     [MCTdx(<<2, 0, 2>>) EXCEPT !.ak = "mallory", !.signer = "mallory"],
     [MCTdx(<<2, 0, 2>>) EXCEPT !.qe.signer = "mallory"], [MCTdx(<<2, 0, 2>>) EXCEPT !.qe = Missing],
     [MCTdx(<<2, 0, 2>>) EXCEPT !.qe.svn = 4], [MCTdx(<<2, 0, 2>>) EXCEPT !.qe.attributes = {"init", "debug"}],
     [MCTdx(<<2, 0, 2>>) EXCEPT !.seam.attributes = {"x"}], [MCTdx(<<2, 0, 2>>) EXCEPT !.pck[1].sgx.fmspc = "g"],
     [MCTdx(<<2, 0, 2>>) EXCEPT !.pck = SubSeq(MCPck, 1, 2)], [MCTdx(<<2, 3, 2>>) EXCEPT !.data = "old"]}
MCSigning == <<MCCert("ts", "P256", "TCB Signing", "Root CA", "ir", "ecdsa"), MCIntel>>
MCIsv(n, status) == [svn |-> n, status |-> status, date |-> 0]
MCLevel(n, status) == [sgx |-> <<n, n>>, tdx |-> <<n, n, n>>, pce |-> n, status |-> status, date |-> 0]
MCDoc(from, to, rest) ==
    [chain |-> MCSigning, signer |-> "ts", defects |-> {}, from |-> from, to |-> to, evaluation |-> 5] @@ rest
MCModule(id, levels) ==
    [id |-> id, mrsigner |-> "i", attributes |-> {}, mask |-> {"x"}, levels |-> levels]
MCTcbInfo(from, to, levels) ==
    MCDoc(from, to, [id |-> "TDX", fmspc |-> "f", pceId |-> "p", module |-> MCModule(0, <<>>),
                     identities |-> <<MCModule(1, <<MCIsv(2, "UpToDate"), MCIsv(1, "OutOfDate")>>)>>,
                     levels |-> levels])
MCQeIdentity(to) ==
    MCDoc(0, to, [id |-> "TD_QE", misc |-> {}, miscMask |-> {}, attributes |-> {"init"},
                  mask |-> {"init", "debug"}, mrsigner |-> "i", prodid |-> 2,
                  levels |-> <<MCIsv(5, "UpToDate"), MCIsv(1, "Revoked")>>])
MCTdxInput(quote, info, id, rootRevoked, pckRevoked, pckTo, floor) ==
    [platform |-> "tdx", quote |-> quote, admission |-> TRUE, policy |-> [kind |-> "tdx", floor |-> floor],
     collateral |-> [kind |-> "tdx", tcb |-> info, qe |-> id,
                     rootCrl |-> MCCrl(MCIntel, MCForever, rootRevoked),
                     pckCrl |-> MCCrl(MCPck[2], pckTo, pckRevoked)]]
MCCurrent == <<MCLevel(2, "UpToDate"), MCLevel(1, "OutOfDate")>>
MCLevels ==
    {<<MCLevel(a, s), MCLevel(b, t)>> : a \in 0 .. 3, b \in 0 .. 3,
        s \in {"UpToDate", "OutOfDate"}, t \in {"UpToDate", "Revoked", "unheard of"}}
MCTdxFrom ==
    \/ \E levels \in MCLevels, tee \in [1 .. 3 -> 0 .. 2] :
          QuoteFrom(MCTdxInput(MCTdx(tee), MCTcbInfo(0, MCForever, levels), MCQeIdentity(MCForever),
                               {}, {}, MCForever, 5), MaxClock)
    \/ \E w \in MCTdxWrong, levels \in {MCCurrent} :
          QuoteFrom(MCTdxInput(w, MCTcbInfo(0, MCForever, levels), MCQeIdentity(MCForever),
                               {}, {}, MCForever, 5), 0)
    \/ \E from \in 0 .. 2, to \in 1 .. 4, qeTo \in {2, 4}, root \in {{}, {"pca"}, {"ts"}}, pck \in {{}, {"pk"}},
          pckTo \in {2, MCForever}, floor \in {0, 5, 6}, c \in {0, 2} :
          QuoteFrom(MCTdxInput(MCTdx(<<2, 1, 2>>), MCTcbInfo(from, to, MCCurrent), MCQeIdentity(qeTo),
                               root, pck, pckTo, floor), c)
MCQuoteFrom == (\E i \in MCNitroInputs, c \in {0, 2} : QuoteFrom(i, c)) \/ MCSnpFrom \/ MCTdxFrom
MCSomeInput == CHOOSE i \in MCNitroInputs : i.quote = MCNitro /\ i.admission

=============================================================================
