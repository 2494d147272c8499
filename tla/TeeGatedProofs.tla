--------------------------- MODULE TeeGatedProofs ---------------------------
(***************************************************************************)
(* TeeGated's invariants for any keys, values, nonces and time windows.     *)
(* They are inductive once the undeployed contract is known to be empty.    *)
(***************************************************************************)
EXTENDS TeeGated, TLAPS

Undeployed == tee = None => value = None /\ accepted = {} /\ action_count = 0

IInv == TypeOK /\ Undeployed /\ ActionLog /\ NonceOnce /\ IdentityVouched

\* What the contract has stored and accepted.
contract == <<tee, value, used_nonces, action_count, accepted>>

\* Init establishes the invariant.
LEMMA InitIInv == Init => IInv
<1> SUFFICES ASSUME Init PROVE IInv
  OBVIOUS
<1>1. TypeOK
  BY TeeGatedAssumption DEF Init, TypeOK
<1>2. Undeployed /\ IdentityVouched
  BY DEF Init, Undeployed, IdentityVouched
<1>3. ActionLog
  BY DEF Init, ActionLog, Actions
<1>4. NonceOnce
  BY DEF Init, NonceOnce
<1> QED
  BY <1>1, <1>2, <1>3, <1>4 DEF IInv

\* A message signed elsewhere and the passing of time touch nothing the
\* contract has stored, and only add to what has been signed.
LEMMA Outside ==
    ASSUME IInv, UNCHANGED contract, signed \subseteq signed',
           now' \in 0..MaxTime, signed' \in SUBSET Messages
    PROVE  IInv'
<1>1. TypeOK'
  BY DEF IInv, TypeOK, contract
<1>2. Undeployed'
  BY DEF IInv, Undeployed, contract
<1>3. ActionLog'
  BY DEF IInv, ActionLog, Actions, contract
<1>4. NonceOnce'
  BY DEF IInv, NonceOnce, contract
<1>5. IdentityVouched'
  <2>1. signed \subseteq signed'
    OBVIOUS
  <2> QED
    BY <2>1 DEF IInv, IdentityVouched, contract
<1> QED
  BY <1>1, <1>2, <1>3, <1>4, <1>5 DEF IInv

\* What accepting a message does, whichever entry point accepted it.
Accepts(msg) ==
    /\ msg \in signed /\ msg.nonce \notin used_nonces /\ msg.nonce # EmptyNonce
    /\ Recent(msg)
    /\ used_nonces' = used_nonces \cup {msg.nonce}
    /\ accepted' = accepted \cup {[msg |-> msg, at |-> now]}
    /\ UNCHANGED <<now, signed>>

\* Accepting a message with a new nonce keeps nonces and history in step.
LEMMA AcceptNonce ==
    ASSUME IInv, NEW msg \in Messages, Accepts(msg)
    PROVE  NonceOnce'
<1> DEFINE new == [msg |-> msg, at |-> now]
<1>1. accepted' = accepted \cup {new} /\ used_nonces' = used_nonces \cup {msg.nonce}
  BY DEF Accepts
<1>2. new.msg = msg
  OBVIOUS
<1>3. \A a \in accepted : a.msg.nonce \in used_nonces
  BY DEF IInv, NonceOnce
<1>4. msg.nonce \notin used_nonces
  BY DEF Accepts
<1> HIDE DEF new
<1>5. \A a, b \in accepted' : a.msg.nonce = b.msg.nonce => a = b
  BY <1>1, <1>2, <1>3, <1>4 DEF IInv, NonceOnce
<1>6. used_nonces' = {a.msg.nonce : a \in accepted'}
  BY <1>1, <1>2 DEF IInv, NonceOnce
<1> QED
  BY <1>5, <1>6 DEF NonceOnce

\* The accepted record and the nonce have their types.
LEMMA AcceptTypes ==
    ASSUME IInv, NEW msg \in Messages, Accepts(msg)
    PROVE  /\ now' \in 0..MaxTime /\ signed' \in SUBSET Messages
           /\ used_nonces' \in SUBSET (Nonces \ {EmptyNonce})
           /\ accepted' \in SUBSET Acceptances
<1>1. [msg |-> msg, at |-> now] \in Acceptances
  BY DEF IInv, TypeOK, Acceptances
<1>2. msg.nonce \in Nonces \ {EmptyNonce}
  BY DEF Messages, Accepts
<1> QED
  BY <1>1, <1>2 DEF IInv, TypeOK, Accepts

\* A fresh registration or update by key t vouches for its value.
LEMMA AcceptVouches ==
    ASSUME IInv, NEW msg \in Messages, Accepts(msg),
           msg.body.op \in {"register", "update"},
           tee' = msg.by, value' = msg.body.value
    PROVE  IdentityVouched'
<1> DEFINE new == [msg |-> msg, at |-> now]
<1>1. new \in accepted' /\ new.msg = msg /\ new.at = now
  BY DEF Accepts
<1>2. msg \in signed'
  BY DEF Accepts
<1>3. now <= msg.timestamp + MAX_AGE /\ msg.timestamp <= now + MAX_AHEAD
  BY TeeGatedAssumption DEF Accepts, Recent, IInv, TypeOK, Messages
<1> HIDE DEF new
<1> QED
  BY <1>1, <1>2, <1>3 DEF IdentityVouched

LEMMA ConstructIInv ==
    ASSUME IInv, NEW msg \in Messages, Construct(msg) PROVE IInv'
<1>1. accepted = {} /\ action_count = 0
  BY DEF IInv, Undeployed, Construct
<1>2. msg.nonce \notin used_nonces
  BY <1>1 DEF IInv, NonceOnce
<1>3. Accepts(msg)
  BY <1>2 DEF Construct, Accepts
<1>4. msg.by \in Keys /\ msg.body.op = "register" /\ msg.body \in Bodies
  BY DEF Construct, Messages
<1>5. msg.body.value \in Values
  BY <1>4 DEF Bodies
<1>6. TypeOK'
  BY <1>3, <1>4, <1>5, AcceptTypes DEF Construct, TypeOK, IInv
<1>7. Undeployed'
  BY <1>4, TeeGatedAssumption DEF Construct, Undeployed
<1>8. ActionLog'
  <2>1. Actions' = {}
    BY <1>1, <1>4 DEF Actions, Construct
  <2>2. action_count' = 0
    BY <1>1 DEF Construct
  <2> QED
    BY <2>1, <2>2 DEF ActionLog
<1>9. NonceOnce'
  BY <1>3, AcceptNonce
<1>10. IdentityVouched'
  BY <1>3, <1>4, AcceptVouches DEF Construct
<1> QED
  BY <1>6, <1>7, <1>8, <1>9, <1>10 DEF IInv

LEMMA UpdateIInv ==
    ASSUME IInv, NEW msg \in Messages, update_value_x(msg) PROVE IInv'
<1>1. Accepts(msg)
  BY DEF update_value_x, verify_tee_action, Accepts
<1>2. msg.by = tee /\ tee # None /\ msg.body.op = "update" /\ msg.body \in Bodies
  BY DEF update_value_x, verify_tee_action, Messages
<1>3. msg.body.value \in Values
  BY <1>2 DEF Bodies
<1>4. tee' = tee /\ action_count' = action_count /\ value' = msg.body.value
  BY DEF update_value_x
<1>5. TypeOK'
  BY <1>1, <1>3, <1>4, AcceptTypes DEF TypeOK, IInv
<1>6. Undeployed'
  BY <1>2, <1>4 DEF Undeployed
<1>7. ActionLog'
  <2>1. Actions' = Actions
    BY <1>1, <1>2 DEF Actions, Accepts
  <2> QED
    BY <2>1, <1>4 DEF ActionLog, IInv
<1>8. NonceOnce'
  BY <1>1, AcceptNonce
<1>9. IdentityVouched'
  BY <1>1, <1>2, <1>4, AcceptVouches
<1> QED
  BY <1>5, <1>6, <1>7, <1>8, <1>9 DEF IInv

LEMMA ExecuteIInv ==
    ASSUME IInv, NEW msg \in Messages, execute_action(msg) PROVE IInv'
<1> DEFINE new == [msg |-> msg, at |-> now]
<1>1. Accepts(msg)
  BY DEF execute_action, verify_tee_action, Accepts
<1>2. /\ msg.by = tee /\ tee # None
      /\ msg.body.op = "action" /\ msg.body.id = action_count
      /\ tee' = tee /\ value' = value /\ action_count' = action_count + 1
  BY DEF execute_action, verify_tee_action
<1>3. TypeOK'
  BY <1>1, <1>2, AcceptTypes DEF TypeOK, IInv
<1>4. Undeployed'
  BY <1>2 DEF Undeployed
<1>5. ActionLog'
  <2>1. Actions' = Actions \cup {new}
    BY <1>1, <1>2 DEF Actions, Accepts
  <2>2. new.msg = msg
    OBVIOUS
  <2>3. action_count \in Nat
    BY DEF IInv, TypeOK
  <2>4. \A a \in Actions : a.msg.by = tee /\ a.msg.body.id < action_count
    BY DEF IInv, ActionLog
  <2>5. \A a \in Actions : a.msg.body.id \in Nat
    <3> SUFFICES ASSUME NEW a \in Actions PROVE a.msg.body.id \in Nat
      OBVIOUS
    <3>1. a.msg.body \in Bodies /\ a.msg.body.op = "action"
      BY DEF Actions, IInv, TypeOK, Acceptances, Messages
    <3> QED
      BY <3>1, TeeGatedAssumption DEF Bodies
  <2>6. \A i \in 0..MaxActions : i < action_count =>
            \E a \in Actions : /\ a.msg.body.id = i
                               /\ \A b \in Actions : b.msg.body.id = i => b = a
    BY DEF IInv, ActionLog
  <2> HIDE DEF new
  <2>7. \A a \in Actions' : a.msg.by = tee' /\ a.msg.body.id < action_count'
    BY <1>2, <2>1, <2>2, <2>3, <2>4, <2>5
  <2>8. ASSUME NEW i \in 0..MaxActions, i < action_count'
        PROVE  \E a \in Actions' : /\ a.msg.body.id = i
                                   /\ \A b \in Actions' : b.msg.body.id = i => b = a
    <3>1. CASE i < action_count
      <4>1. PICK a \in Actions : /\ a.msg.body.id = i
                                 /\ \A b \in Actions : b.msg.body.id = i => b = a
        BY <2>6, <3>1
      <4>2. new.msg.body.id # i
        BY <1>2, <2>2, <2>3, <3>1, TeeGatedAssumption
      <4> QED
        BY <4>1, <4>2, <2>1
    <3>2. CASE i = action_count
      <4>1. \A b \in Actions : b.msg.body.id # i
        BY <2>4, <2>5, <2>3, <3>2
      <4>2. new.msg.body.id = i /\ new \in Actions'
        BY <1>2, <2>1, <2>2, <3>2
      <4> QED
        BY <4>1, <4>2, <2>1
    <3>3. i < action_count \/ i = action_count
      BY <2>8, <1>2, <2>3, TeeGatedAssumption
    <3> QED
      BY <3>1, <3>2, <3>3
  <2> QED
    BY <2>7, <2>8 DEF ActionLog
<1>6. NonceOnce'
  BY <1>1, AcceptNonce
<1>7. IdentityVouched'
  <2>1. accepted \subseteq accepted' /\ signed' = signed
    BY <1>1 DEF Accepts
  <2> QED
    BY <2>1, <1>2 DEF IInv, IdentityVouched
<1> QED
  BY <1>3, <1>4, <1>5, <1>6, <1>7 DEF IInv

\* Every step preserves the invariant.
LEMMA StepIInv == ASSUME IInv, [Next]_vars PROVE IInv'
<1>0. signed \subseteq Messages /\ now \in 0..MaxTime
  BY DEF IInv, TypeOK
<1>1. ASSUME NEW msg \in Messages, Sign(msg) PROVE IInv'
  <2>1. UNCHANGED contract /\ signed' = signed \cup {msg} /\ now' = now
    BY <1>1 DEF Sign, contract
  <2> QED
    BY <2>1, <1>0, Outside
<1>2. ASSUME NEW msg \in signed, Construct(msg) PROVE IInv'
  BY <1>2, <1>0, ConstructIInv
<1>3. ASSUME NEW msg \in signed, execute_action(msg) PROVE IInv'
  BY <1>3, <1>0, ExecuteIInv
<1>4. ASSUME NEW msg \in signed, update_value_x(msg) PROVE IInv'
  BY <1>4, <1>0, UpdateIInv
<1>5. CASE Mine
  <2>1. now' \in 0..MaxTime
    BY <1>5, <1>0, TeeGatedAssumption DEF Mine
  <2>2. UNCHANGED contract /\ signed' = signed
    BY <1>5 DEF Mine, contract
  <2> QED
    BY <2>1, <2>2, <1>0, Outside
<1>6. CASE UNCHANGED vars
  <2>1. UNCHANGED contract /\ signed' = signed /\ now' = now
    BY <1>6 DEF vars, contract
  <2> QED
    BY <2>1, <1>0, Outside
<1> QED
  BY <1>1, <1>2, <1>3, <1>4, <1>5, <1>6 DEF Next

\* The inductive invariant holds in every reachable state.
THEOREM GateInvariant == Spec => []IInv
<1>1. Init => IInv
  BY InitIInv
<1>2. IInv /\ [Next]_vars => IInv'
  BY StepIInv
<1> QED
  BY <1>1, <1>2, PTL DEF Spec

\* Storage stays well typed; the empty nonce is never recorded.
THEOREM GateTypeCorrect == Spec => []TypeOK
<1>1. IInv => TypeOK
  BY DEF IInv
<1> QED
  BY <1>1, GateInvariant, PTL

\* Action ids are handed out once each, to messages signed for them.
THEOREM GateActionLog == Spec => []ActionLog
<1>1. IInv => ActionLog
  BY DEF IInv
<1> QED
  BY <1>1, GateInvariant, PTL

\* No nonce is accepted twice by any entry point.
THEOREM GateNonceOnce == Spec => []NonceOnce
<1>1. IInv => NonceOnce
  BY DEF IInv
<1> QED
  BY <1>1, GateInvariant, PTL

\* The published identity is vouched for by the registered key.
THEOREM GateIdentityVouched == Spec => []IdentityVouched
<1>1. IInv => IdentityVouched
  BY DEF IInv
<1> QED
  BY <1>1, GateInvariant, PTL

\* Signed messages take effect at most once, actions only in their own place.
THEOREM GateMessagesCountOnce == Spec => []MessagesCountOnce
  BY GateActionLog, GateNonceOnce, PTL DEF MessagesCountOnce

=============================================================================
