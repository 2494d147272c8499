------------------------------ MODULE TeeGated ------------------------------
(***************************************************************************)
(* contracts/TeeGated.vy: a contract bound at deployment to the secp256k1   *)
(* key of a TEE, whose actions and Value X updates need a message signed by *)
(* that key.  Signed messages travel to the chain by any relayer: `signed'  *)
(* never forgets one, so they may be delayed, reordered, repeated or lost.  *)
(* Keccak and ecrecover are modelled by what they give: a signature is      *)
(* valid for the exact message it was made for, by the key that made it.    *)
(***************************************************************************)
EXTENDS Naturals, FiniteSets

CONSTANTS
    None,       \* not deployed
    Keys,       \* secp256k1 addresses, the zero address excluded
    Values,     \* Value X (both words), with the platform quote's hash
    Data,       \* data words of actions
    Nonces,     \* nonces, empty(bytes32) among them
    EmptyNonce,
    MAX_AGE,    \* 300 seconds
    MAX_AHEAD,  \* 60 seconds
    MaxTime,    \* bound on block.timestamp and on the signers' clocks
    MaxSigned,  \* bound on the number of messages signed
    MaxActions  \* bound on the action ids signed for

ASSUME TeeGatedAssumption ==
    /\ MAX_AGE \in Nat /\ MAX_AHEAD \in Nat /\ MaxTime \in Nat
    /\ MaxSigned \in Nat /\ MaxActions \in Nat
    /\ None \notin Keys \cup Values

VARIABLES
    now,            \* block.timestamp
    signed,         \* every message any key has signed
    tee,            \* registered_tee_address
    value,          \* registered_value_x and registered_quote_hash
    used_nonces,
    action_count,
    accepted        \* history: the messages the contract accepted, and when

vars == <<now, signed, tee, value, used_nonces, action_count, accepted>>

\* What the three keccak preimages commit to: their lengths differ (the
\* counter and a data word; a tag and the new identity; the registration).
Bodies == [op: {"action"}, id: 0..MaxActions, data: Data]
            \cup [op: {"update", "register"}, value: Values]

Messages == [by: Keys, body: Bodies, timestamp: 0..MaxTime, nonce: Nonces]

Acceptances == [msg: Messages, at: 0..MaxTime]

\* Storage holds values of its types, and the empty nonce is never recorded.
TypeOK ==
    /\ now \in 0..MaxTime
    /\ signed \in SUBSET Messages
    /\ tee \in Keys \cup {None} /\ value \in Values \cup {None}
    /\ used_nonces \in SUBSET (Nonces \ {EmptyNonce})
    /\ action_count \in Nat
    /\ accepted \in SUBSET Acceptances

Init ==
    /\ now = 0 /\ signed = {}
    /\ tee = None /\ value = None
    /\ used_nonces = {} /\ action_count = 0 /\ accepted = {}
-----------------------------------------------------------------------------
\* The staleness window around the message's timestamp.
Recent(msg) == /\ msg.timestamp + MAX_AGE >= now
               /\ msg.timestamp <= now + MAX_AHEAD

\* __init__: the deployer names the key that must have signed.
Construct(msg) ==
    /\ tee = None
    /\ msg \in signed /\ msg.body.op = "register"
    /\ msg.nonce # EmptyNonce
    /\ Recent(msg)
    /\ tee' = msg.by /\ value' = msg.body.value
    /\ used_nonces' = used_nonces \cup {msg.nonce}
    /\ accepted' = accepted \cup {[msg |-> msg, at |-> now]}
    /\ UNCHANGED <<now, signed, action_count>>

\* Any signer will do.
verify_any_signer(msg) ==
    /\ tee # None
    /\ msg.nonce \notin used_nonces /\ msg.nonce # EmptyNonce
    /\ Recent(msg)
    /\ msg \in signed
    /\ used_nonces' = used_nonces \cup {msg.nonce}
    /\ accepted' = accepted \cup {[msg |-> msg, at |-> now]}

\* _verify_tee_action
verify_tee_action(msg) ==
    /\ tee # None
    /\ msg.nonce \notin used_nonces /\ msg.nonce # EmptyNonce
    /\ Recent(msg)
    /\ msg \in signed /\ msg.by = tee
    /\ used_nonces' = used_nonces \cup {msg.nonce}
    /\ accepted' = accepted \cup {[msg |-> msg, at |-> now]}

\* The counter is not part of the signed message.
execute_action_any_id(msg) ==
    /\ msg.body.op = "action"
    /\ verify_tee_action(msg)
    /\ action_count' = action_count + 1
    /\ UNCHANGED <<now, signed, tee, value>>

\* The contract hashes its own counter, so only a message for it verifies.
execute_action(msg) ==
    /\ msg.body.op = "action" /\ msg.body.id = action_count
    /\ verify_tee_action(msg)
    /\ action_count' = action_count + 1
    /\ UNCHANGED <<now, signed, tee, value>>

update_value_x(msg) ==
    /\ msg.body.op = "update"
    /\ verify_tee_action(msg)
    /\ value' = msg.body.value
    /\ UNCHANGED <<now, signed, tee, action_count>>

\* A TEE, or any other key, signs a message with the time of its own clock.
Sign(msg) ==
    /\ msg \notin signed /\ Cardinality(signed) < MaxSigned
    /\ signed' = signed \cup {msg}
    /\ UNCHANGED <<now, tee, value, used_nonces, action_count, accepted>>

Mine ==
    /\ now < MaxTime /\ now' = now + 1
    /\ UNCHANGED <<signed, tee, value, used_nonces, action_count, accepted>>

Next ==
    \/ \E msg \in Messages : Sign(msg)
    \/ \E msg \in signed : Construct(msg)
    \/ \E msg \in signed : execute_action(msg)
    \/ \E msg \in signed : update_value_x(msg)
    \/ Mine

Spec == Init /\ [][Next]_vars
-----------------------------------------------------------------------------
Actions == {a \in accepted : a.msg.body.op = "action"}

(* Whatever order messages arrive in, action ids are handed out without a   *)
(* gap or a repetition, each to one message the registered key signed for   *)
(* exactly that id (execute_action and _verify_tee_action).                 *)
ActionLog ==
    /\ \A a \in Actions : a.msg.by = tee /\ a.msg.body.id < action_count
    /\ \A i \in 0..MaxActions :
          i < action_count =>
              \E a \in Actions : /\ a.msg.body.id = i
                                 /\ \A b \in Actions : b.msg.body.id = i => b = a

(* No nonce is accepted twice, whether by the constructor, an action or an  *)
(* update, so a repeated or re-signed message changes nothing (used_nonces).*)
NonceOnce ==
    /\ \A a, b \in accepted : a.msg.nonce = b.msg.nonce => a = b
    /\ used_nonces = {a.msg.nonce : a \in accepted}

(* A message takes effect at most once, and an action in its own place only, *)
(* however often and in whatever order messages are delivered.              *)
MessagesCountOnce == ActionLog /\ NonceOnce

(* The published identity was always vouched for by the key registered at   *)
(* deployment, in a registration or an update accepted while it was recent  *)
(* (update_value_x, verify_value_x).                                        *)
IdentityVouched ==
    value # None =>
        \E a \in accepted :
            /\ a.msg \in signed /\ a.msg.by = tee
            /\ a.msg.body.op \in {"register", "update"} /\ a.msg.body.value = value
            /\ a.at <= a.msg.timestamp + MAX_AGE /\ a.msg.timestamp <= a.at + MAX_AHEAD

=============================================================================
