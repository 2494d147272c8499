-------------------------- MODULE AdmissionPromise --------------------------
(***************************************************************************)
(* What admission promises a relying party, without any of the procedure:   *)
(* a verification that was started is decided, and it may be decided        *)
(* "valid" only if the presented token heads a chain of receipts that       *)
(* matches the enrolled stages one for one, each of them vouched for by     *)
(* genuine hardware, and all of them fresh at one and the same instant      *)
(* between the call and the verdict.                                        *)
(***************************************************************************)
EXTENDS Eat

CONSTANTS Tokens, Configs, MaxTime

VARIABLES now, verdict, cfg, token, startedAt

vars == <<now, verdict, cfg, token, startedAt>>

\* Hardware signed exactly these claims, and the relying party expects them.
Credible(t, p) ==
    /\ t.quote \in Signed
    /\ t.quote.report_data[1] = binding_bytes(t)
    /\ t.quote.measurement = p.measurement
    /\ t.nonce = p.nonce /\ t.tls_spki = p.tls_spki /\ t.value_x = p.value_x

FreshAt(t, p, time) == t.iat <= time /\ time <= t.iat + p.max_age

\* ch is the token's ancestry, oldest first.
Ancestry(ch) ==
    LET n == Len(cfg.stages) IN
    /\ token.previous = IF n = 0 THEN None ELSE ch[n]
    /\ \A k \in 1 .. n :
          /\ from_cbor(ch[k]) # None
          /\ Sha256(ch[k]) = cfg.stages[k].receipt
          /\ from_cbor(ch[k]).previous = IF k = 1 THEN None ELSE ch[k - 1]
          /\ Credible(from_cbor(ch[k]), cfg.stages[k])

Promised ==
    \E ch \in [1 .. Len(cfg.stages) -> Receipts] :
        /\ Ancestry(ch)
        /\ Credible(token, cfg)
        /\ \E time \in startedAt .. now :
              /\ FreshAt(token, cfg, time)
              /\ \A k \in 1 .. Len(cfg.stages) :
                    FreshAt(from_cbor(ch[k]), cfg.stages[k], time)

Start ==
    /\ verdict = "idle"
    /\ cfg' \in Configs /\ token' \in Tokens
    /\ startedAt' = now
    /\ verdict' \in {"pending", "rejected"}
    /\ UNCHANGED now

Admit == verdict = "pending" /\ Promised /\ verdict' = "valid"
Reject == verdict = "pending" /\ verdict' = "rejected"
Decide == (Admit \/ Reject) /\ UNCHANGED <<now, cfg, token, startedAt>>

Return == /\ verdict \in {"valid", "rejected"}
          /\ verdict' = "idle"
          /\ cfg' = None /\ token' = None /\ startedAt' = 0
          /\ UNCHANGED now

Tick == /\ now < MaxTime
        /\ now' = now + 1
        /\ UNCHANGED <<verdict, cfg, token, startedAt>>

Init == now = 0 /\ verdict = "idle" /\ cfg = None /\ token = None /\ startedAt = 0

Next == Start \/ Decide \/ Return \/ Tick

Spec == Init /\ [][Next]_vars /\ WF_vars(Decide)

=============================================================================
