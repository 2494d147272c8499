---------------------------- MODULE MCAdmission ----------------------------
(***************************************************************************)
(* A small world for Admission: a two-stage build chain and a runtime       *)
(* token, together with the damaged variants of each that a relying party   *)
(* could be handed.                                                         *)
(***************************************************************************)
EXTENDS Admission, TLC

MCReceipts == {"r1", "r2", "r2loose", "r1forged", "garbled"}

\* A token without its quote.
Claims(platform, hashes, nonce, iat, previous) ==
    [version |-> 2, profile |-> "uq", oversized |-> FALSE,
     binding_suite |-> 2, value_x |-> "x", platform |-> platform, tls_spki |-> "k",
     build |-> hashes, iat |-> iat, nonce |-> nonce, previous |-> previous,
     gpu |-> None, boot |-> None, measurement |-> None]

QuoteOver(t) ==
    [platform |-> t.platform, report_data |-> report_data_64(t), measurement |-> "m",
     debug |-> FALSE, tcb |-> 1, tpm |-> None, timestamp |-> t.iat,
     registers |-> Replay(t.boot)]

Quoted(t, q) == t @@ [quote |-> q]
Genuine(t) == Quoted(t, QuoteOver(t))

Stage1 == Claims("Nitro", "b1", "n1", 0, None)
Stage2 == Claims("Tdx", "b2", "n2", 1, "r1")
Runtime == Claims("Tdx", "b3", "n", 1, None)
GpuLoad == [nonce |-> "n", devices |-> {"g"}, expires |-> 2]

\* A stage-2 quote taken before the stage was linked to r1.
Unlinked2 == [Stage2 EXCEPT !.previous = None]

MCDecode ==
    [r \in MCReceipts |->
        CASE r = "r1" -> Genuine(Stage1)
          [] r = "r2" -> Genuine(Stage2)
          [] r = "r2loose" -> Quoted(Stage2, QuoteOver(Unlinked2))
          [] r = "r1forged" -> Quoted(Stage1, [QuoteOver(Stage1) EXCEPT !.tcb = 9])
          [] OTHER -> None]

MCSize == [r \in MCReceipts |-> IF r = "garbled" THEN 9 ELSE 2]

WithBoot == [Runtime EXCEPT !.boot = {"kernel", "verity"}]
WithGpu == [Runtime EXCEPT !.gpu = GpuLoad]
Legacy == [Runtime EXCEPT !.binding_suite = 0]
Azure == [Runtime EXCEPT !.platform = "AzureSnpVtpm", !.boot = {"kernel"}]
Aws == [Runtime EXCEPT !.platform = "AwsSnpNitroTpm"]
AwsToken(time) ==
    Quoted(Aws, [QuoteOver(Aws) EXCEPT !.tpm = "pcrs", !.timestamp = time])
AzureToken == Quoted(Azure, [QuoteOver(Azure) EXCEPT !.tpm = "pcrs"])

Chained(previous) == [Runtime EXCEPT !.previous = previous]

MCTokens ==
    {Genuine(Runtime),                              \* a root token
     Genuine(Chained("r1")),
     Genuine(Chained("r2")),
     Genuine([Chained("r2") EXCEPT !.iat = 4]),     \* issued after r1 and r2 expired
     Genuine(Chained("r2loose")),
     Genuine(Chained("r1forged")),
     Genuine(Chained("garbled")),
     Quoted(Chained("r2"), QuoteOver(Runtime)),     \* ancestry attached after quoting
     Genuine([Chained("r2") EXCEPT !.value_x = "y"]),
     Genuine(Legacy),
     Genuine([Runtime EXCEPT !.profile = "bountynet"]),
     Genuine([Runtime EXCEPT !.version = 1]),
     Genuine([Runtime EXCEPT !.profile = "other"]),
     Genuine([Runtime EXCEPT !.oversized = TRUE]),
     Genuine(WithGpu),
     Quoted(WithGpu, QuoteOver(Runtime)),           \* GPU evidence attached after quoting
     Genuine(WithBoot),
     Quoted(WithBoot, [QuoteOver(WithBoot) EXCEPT !.registers = Replay({"kernel"})]),
     AzureToken, AwsToken(0), AwsToken(2),
     Quoted(Runtime, [QuoteOver(Runtime) EXCEPT !.debug = TRUE])}

MCSigned ==
    {QuoteOver(Stage1), QuoteOver(Stage2), QuoteOver(Unlinked2)}
       \cup {t.quote : t \in MCTokens}

Collateral(expires) == [expires |-> expires, floor |-> 1]

Policy(platform, nonce, age) ==
    [nonce |-> nonce, tls_spki |-> "k", value_x |-> "x", platform |-> platform,
     measurement |-> "m", max_age |-> age, tpm |-> None, pcrs |-> None,
     tpm_age |-> 1, tpm_skew |-> 0,
     cpu |-> IF platform = "Nitro" THEN None ELSE Collateral(4),
     gpu |-> None, boot |-> None, google_boot |-> FALSE]

Entry(name, receipt, hashes, policy) ==
    policy @@ [name |-> name, receipt |-> Sha256(receipt), build |-> hashes]

Entry1(receipt) == Entry("fetch", receipt, "b1", Policy("Nitro", "n1", 3))
Entry2(receipt) == Entry("link", receipt, "b2", Policy("Tdx", "n2", 2))

RuntimePolicy == Policy("Tdx", "n", 2)
With(policy, stages) == policy @@ [stages |-> stages]

MCConfigs ==
    {With(RuntimePolicy, <<>>),
     With([RuntimePolicy EXCEPT !.cpu = Collateral(1)], <<>>),
     With([RuntimePolicy EXCEPT !.gpu = {"g"}], <<>>),
     With([RuntimePolicy EXCEPT !.boot = {"verity"}, !.google_boot = TRUE], <<>>),
     With([RuntimePolicy EXCEPT !.platform = "AzureSnpVtpm", !.tpm = "azure",
                                !.pcrs = "pcrs", !.boot = {"kernel"}], <<>>),
     With([RuntimePolicy EXCEPT !.platform = "AwsSnpNitroTpm", !.tpm = "nitrotpm",
                                !.pcrs = "pcrs"], <<>>),
     With(RuntimePolicy, <<Entry1("r1")>>),
     With(RuntimePolicy, <<Entry1("r1forged")>>),
     With(RuntimePolicy, <<Entry1("r1"), Entry2("r2")>>),
     With(RuntimePolicy, <<Entry1("r1"), Entry2("r2loose")>>),
     With(RuntimePolicy, <<Entry2("r2"), Entry1("r1")>>),
     With([RuntimePolicy EXCEPT !.value_x = "y"], <<Entry1("r1"), Entry2("r2")>>),
     \* refused by build(): no age, too many stages
     With([RuntimePolicy EXCEPT !.max_age = 0], <<>>),
     With(RuntimePolicy, <<Entry1("r1"), Entry2("r2"), Entry("x", "r3", "b3", Policy("Tdx", "n", 1))>>)}

=============================================================================
