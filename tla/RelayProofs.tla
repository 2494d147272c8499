---------------------------- MODULE RelayProofs ----------------------------
(***************************************************************************)
(* Proofs about Relay, for any number of keys, devices, challenges and      *)
(* restarts and any pair of clocks that drift no further than SKEW_SECS.    *)
(*                                                                          *)
(* The properties speak of the two histories; the invariant adds what ties  *)
(* a history to the state the code keeps: every issuance was earned         *)
(* (IssuedInv), and the replay stores remember exactly the nonces spent in  *)
(* the running lifetime (SpentInv).                                         *)
(***************************************************************************)
EXTENDS Relay, TLAPS

IssuedInv ==
    \A i \in DOMAIN issued :
       /\ Earned(issued[i].cred, i)
       /\ issued[i].cred.issued_at <= issued[i].challenge.expires_at
       /\ issued[i].cred.expiry = issued[i].cred.issued_at + issued[i].ttl
       /\ issued[i].cred.issued_at <= issuerClock

SpentInv ==
    /\ \A i \in DOMAIN issued :
          /\ issued[i].epoch <= bootEpoch
          /\ issued[i].epoch = bootEpoch => Replayed(bootSeen, issued[i].challenge)
    /\ \A a \in DOMAIN accepted :
          /\ accepted[a].epoch <= presEpoch
          /\ accepted[a].epoch = presEpoch => Replayed(presSeen, accepted[a].challenge)

IInv ==
    /\ TypeOK /\ IssuedInv /\ SpentInv
    /\ AcceptedInheritsAttestation /\ NonceConsumedOnce
    /\ InheritedTrustExpires /\ OnlySuccessConsumes

-----------------------------------------------------------------------------
(* Credentials and signatures.                                              *)

\* The fields of a credential that issue makes.
LEMMA IssueFields ==
  ASSUME NEW key, NEW d, NEW tee, NEW now, NEW ttl
  PROVE  LET c == issue(key, d, tee, now, ttl) IN
         /\ c = [device_pubkey |-> key, platform |-> d.platform, value_x |-> d.identity,
                 tee_value_x |-> tee, issued_at |-> now, expiry |-> now + ttl,
                 sig |-> Sign(ISSUER, credential_bytes(c))]
         /\ c.device_pubkey = key /\ c.platform = d.platform /\ c.value_x = d.identity
         /\ c.tee_value_x = tee /\ c.issued_at = now /\ c.expiry = now + ttl
         /\ c.sig = Sign(ISSUER, credential_bytes(c))
  BY DEF issue, credential_bytes

\* Altering a signed credential invalidates the signature: what verifies under
\* the issuer's key is a credential that the issuer issued.
LEMMA ShownVerifies ==
  ASSUME TypeOK, NEW c \in Shown, NEW now,
         verify(c, ISSUER, now) = "Ok"
  PROVE  \E i \in DOMAIN issued : issued[i].cred = c
<1> DEFINE real == {issued[i].cred : i \in DOMAIN issued}
<1>1. c.sig = Sign(ISSUER, credential_bytes(c))
  BY DEF verify
<1>2. \A r \in real : r \in Credentials
  <2>1. \A i \in DOMAIN issued : issued[i] \in Issuances
    BY DEF TypeOK
  <2>2. \A i \in DOMAIN issued : issued[i].cred \in Credentials
    BY <2>1 DEF Issuances
  <2> QED BY <2>2
<1>3. \A r \in real :
         /\ r.sig = Sign(ISSUER, credential_bytes(r))
         /\ r.device_pubkey \in Keys
         /\ r = [device_pubkey |-> r.device_pubkey, platform |-> r.platform,
                 value_x |-> r.value_x, tee_value_x |-> r.tee_value_x,
                 issued_at |-> r.issued_at, expiry |-> r.expiry, sig |-> r.sig]
  <2>1. TAKE r \in real
  <2>2. PICK k \in Keys, d \in Devices, eat \in Eats, t \in 0 .. MaxTime, ttl \in Ttls :
           r = issue(k, d, eat.value_x, t, ttl)
    BY <1>2 DEF Credentials
  <2> QED BY <2>2, IssueFields
<1>4. CASE c \in real
  BY <1>4
<1>5. ASSUME NEW r \in real, NEW k \in Keys, c = [r EXCEPT !.device_pubkey = k]
      PROVE  c = r
  <2>1. c.sig = r.sig /\ c.device_pubkey = k /\ DOMAIN r = DOMAIN c
    BY <1>3, <1>5
  <2>2. credential_bytes(c) = credential_bytes(r)
    BY <1>1, <1>3, <2>1 DEF Sign
  <2>3. c.device_pubkey = r.device_pubkey
    BY <2>2 DEF credential_bytes
  <2> QED BY <1>3, <1>5, <2>1, <2>3
<1>6. ASSUME NEW r \in real, c = [r EXCEPT !.expiry = MaxTime]
      PROVE  c = r
  <2>1. c.sig = r.sig /\ c.expiry = MaxTime
    BY <1>3, <1>6
  <2>2. credential_bytes(c) = credential_bytes(r)
    BY <1>1, <1>3, <2>1 DEF Sign
  <2>3. c.expiry = r.expiry
    BY <2>2 DEF credential_bytes
  <2> QED BY <1>3, <1>6, <2>1, <2>3
<1>7. ASSUME NEW r \in real,
             c = [r EXCEPT !.sig = Sign(r.device_pubkey, credential_bytes(r))]
      PROVE  FALSE
  <2>1. c.sig = Sign(r.device_pubkey, credential_bytes(r))
    BY <1>3, <1>7
  <2>2. r.device_pubkey = ISSUER
    BY <1>1, <2>1 DEF Sign
  <2> QED BY <1>3, <2>2, RelayAssumption
<1> QED BY <1>4, <1>5, <1>6, <1>7 DEF Shown

\* The entries of the two histories and the facts arithmetic needs of them.
LEMMA Entries ==
  ASSUME TypeOK
  PROVE  /\ \A i \in DOMAIN issued :
               /\ issued[i] \in Issuances /\ issued[i].challenge \in Challenges
               /\ issued[i].epoch \in Nat /\ issued[i].ttl \in Nat
               /\ issued[i].challenge.expires_at \in Nat
               /\ issued[i].cred \in Credentials
         /\ \A a \in DOMAIN accepted :
               /\ accepted[a] \in Acceptances /\ accepted[a].challenge \in Challenges
               /\ accepted[a].epoch \in Nat
         /\ DOMAIN issued = 1 .. Len(issued) /\ Len(issued) \in Nat
         /\ DOMAIN accepted = 1 .. Len(accepted) /\ Len(accepted) \in Nat
<1>1. /\ \A i \in DOMAIN issued : issued[i] \in Issuances
      /\ \A a \in DOMAIN accepted : accepted[a] \in Acceptances
      /\ DOMAIN issued = 1 .. Len(issued) /\ Len(issued) \in Nat
      /\ DOMAIN accepted = 1 .. Len(accepted) /\ Len(accepted) \in Nat
  BY DEF TypeOK
<1>2. \A ch \in Challenges : ch.expires_at \in Nat
  BY RelayAssumption DEF Challenges
<1>3. ASSUME NEW x \in Issuances
      PROVE  /\ x.challenge \in Challenges /\ x.epoch \in Nat /\ x.ttl \in Nat
             /\ x.challenge.expires_at \in Nat /\ x.cred \in Credentials
  <2>1. /\ x.challenge \in Challenges /\ x.epoch \in 0 .. MaxRestarts
        /\ x.ttl \in Ttls /\ x.cred \in Credentials
    BY DEF Issuances
  <2>2. x.epoch \in Nat
    BY <2>1, RelayAssumption
  <2>3. x.ttl \in Nat
    BY <2>1, RelayAssumption, Zenon
  <2>4. x.challenge.expires_at \in Nat
    BY <2>1, <1>2
  <2> QED BY <2>1, <2>2, <2>3, <2>4
<1>4. ASSUME NEW x \in Acceptances
      PROVE  x.challenge \in Challenges /\ x.epoch \in Nat
  BY RelayAssumption DEF Acceptances
<1> QED BY <1>1, <1>3, <1>4

\* Steps that touch neither a history, a store nor a lifetime.
LEMMA QuietStep ==
  ASSUME IInv, TypeOK',
         UNCHANGED <<issued, accepted, bootSeen, presSeen, bootEpoch, presEpoch>>,
         attested \subseteq attested', issuerClock <= issuerClock'
  PROVE  IInv'
<1> USE DEF IInv
<1>1. \A c : \A i \in DOMAIN issued : Earned(c, i) => Earned(c, i)'
  BY DEF Earned
<1>2. IssuedInv'
  <2>1. \A i \in DOMAIN issued : issued[i].cred.issued_at \in Int
    <3>1. TAKE i \in DOMAIN issued
    <3>2. PICK k \in Keys, d \in Devices, eat \in Eats, t \in 0 .. MaxTime, ttl \in Ttls :
             issued[i].cred = issue(k, d, eat.value_x, t, ttl)
      BY Entries DEF Credentials
    <3> QED BY <3>2, IssueFields
  <2>2. issuerClock \in Int /\ issuerClock' \in Int
    BY DEF TypeOK
  <2> QED BY <1>1, <2>1, <2>2 DEF IssuedInv
<1>3. SpentInv'
  BY DEF SpentInv, Replayed
<1>4. AcceptedInheritsAttestation'
  BY <1>1 DEF AcceptedInheritsAttestation
<1>5. NonceConsumedOnce' /\ InheritedTrustExpires' /\ OnlySuccessConsumes'
  BY DEF NonceConsumedOnce, InheritedTrustExpires, OnlySuccessConsumes
<1> QED BY <1>2, <1>3, <1>4, <1>5

\* A bootstrap appends one earned issuance whose nonce was unspent.
LEMMA BootstrapStep ==
  ASSUME IInv, NEW key \in Keys, NEW e \in attested, NEW expected,
         NEW challenge \in bootChallenges, NEW ttl \in Ttls,
         e[1] \in Devices, e = <<e[1], e[2]>>,
         Bootstrap(key, e, expected, challenge, ttl),
         bootstrap(bootSeen, key, expected, relayTee, challenge, issuerClock, ttl) = "Ok"
  PROVE  IInv'
<1> USE DEF IInv
<1>0. PICK n \in Nat : n = Len(issued) + 1
  BY Entries
<1> DEFINE c == issue(key, e[1], relayTee, issuerClock, ttl)
           new == [cred |-> c, device |-> e[1], challenge |-> challenge,
                   ttl |-> ttl, epoch |-> bootEpoch]
<1>1. /\ bootstrap(bootSeen, key, expected, relayTee, challenge, issuerClock, ttl) = "Ok"
      /\ VerifiedDevice(e[1], e[2], expected) /\ relayTee # None
      /\ bootSeen' = bootSeen \cup {challenge} /\ issued' = Append(issued, new)
      /\ UNCHANGED <<issuerClock, verifierClock, relayTee, bootChallenges, presChallenges,
                     attested, presSeen, bootEpoch, presEpoch, accepted>>
  BY DEF Bootstrap, SeenAfter
<1>2. /\ issuerClock + ttl <= MaxU64 /\ expected = device_binding(key, relayTee, challenge)
      /\ issuerClock <= challenge.expires_at /\ ~Replayed(bootSeen, challenge)
  <2>1. issuerClock \in Nat /\ ttl \in Nat /\ challenge.expires_at \in Nat
    BY RelayAssumption DEF TypeOK, Challenges
  <2> QED BY <1>1, <2>1, RelayAssumption DEF bootstrap, ensure_fresh
<1>3. PICK eat \in Eats : from_eat(eat) # None /\ relayTee = eat.value_x
  BY <1>1 DEF TypeOK
<1>4. new \in Issuances
  <2>1. c \in Credentials
    BY <1>3 DEF Credentials, TypeOK
  <2> HIDE DEF c
  <2> QED BY <2>1 DEF Issuances, TypeOK
<1> HIDE DEF new
<1>5. /\ issued' \in Seq(Issuances) /\ DOMAIN issued' = DOMAIN issued \cup {n}
      /\ \A i \in DOMAIN issued : issued'[i] = issued[i]
      /\ issued'[n] = new
  BY <1>0, <1>1, <1>4 DEF TypeOK
<1>6. /\ new.cred = c /\ new.device = e[1] /\ new.challenge = challenge
      /\ new.ttl = ttl /\ new.epoch = bootEpoch
  BY DEF new
<1>7. /\ c.device_pubkey = key /\ c.platform = e[1].platform /\ c.value_x = e[1].identity
      /\ c.tee_value_x = relayTee /\ c.issued_at = issuerClock
      /\ c.expiry = issuerClock + ttl
  BY IssueFields
<1> HIDE DEF c
<1>8. TypeOK'
  <2>1. \A i \in DOMAIN issued' : issued'[i].cred.expiry <= MaxU64
    <3>1. TAKE i \in DOMAIN issued'
    <3>2. i \in DOMAIN issued \/ i = n
      BY <1>5
    <3> QED BY <3>2, <1>2, <1>5, <1>6, <1>7 DEF TypeOK
  <2>2. bootSeen' \subseteq bootChallenges'
    BY <1>1 DEF TypeOK
  <2> QED BY <1>1, <1>5, <2>1, <2>2 DEF TypeOK
<1>9. IssuedInv'
  <2>1. ASSUME NEW i \in DOMAIN issued
        PROVE  /\ Earned(issued[i].cred, i)'
               /\ issued'[i].cred.issued_at <= issued'[i].challenge.expires_at
               /\ issued'[i].cred.expiry = issued'[i].cred.issued_at + issued'[i].ttl
               /\ issued'[i].cred.issued_at <= issuerClock'
    BY <1>1, <1>5 DEF IssuedInv, Earned
  <2>2. Earned(issued[n].cred, n)'
    <3>1. \E g \in Eats : g.admitted /\ g.suite # 0 /\ g.value_x = c.tee_value_x
      BY <1>3, <1>7 DEF from_eat
    <3>2. <<e[1], device_binding(c.device_pubkey, c.tee_value_x, challenge)>> \in attested
      BY <1>1, <1>2, <1>7 DEF VerifiedDevice
    <3> QED BY <3>1, <3>2, <1>1, <1>5, <1>6, <1>7 DEF Earned, VerifiedDevice
  <2>3. /\ issued'[n].cred.issued_at <= issued'[n].challenge.expires_at
        /\ issued'[n].cred.expiry = issued'[n].cred.issued_at + issued'[n].ttl
        /\ issued'[n].cred.issued_at <= issuerClock'
    BY <1>1, <1>2, <1>5, <1>6, <1>7 DEF TypeOK
  <2> QED BY <1>5, <2>1, <2>2, <2>3 DEF IssuedInv
<1>10. SpentInv'
  <2>1. ASSUME NEW i \in DOMAIN issued'
        PROVE  /\ issued'[i].epoch <= bootEpoch'
               /\ issued'[i].epoch = bootEpoch' => Replayed(bootSeen', issued'[i].challenge)
    <3>1. i \in DOMAIN issued \/ i = n
      BY <1>5
    <3>2. CASE i \in DOMAIN issued
      BY <3>2, <1>1, <1>5 DEF SpentInv, Replayed
    <3>3. CASE i = n
      <4>1. issued'[i].epoch = bootEpoch' /\ issued'[i].challenge \in bootSeen'
        BY <3>3, <1>1, <1>5, <1>6
      <4>2. bootEpoch' \in Nat
        BY <1>1, RelayAssumption DEF TypeOK
      <4> QED BY <4>1, <4>2 DEF Replayed
    <3> QED BY <3>1, <3>2, <3>3
  <2> QED BY <2>1, <1>1 DEF SpentInv
<1>11. AcceptedInheritsAttestation'
  <2>1. ASSUME NEW a \in DOMAIN accepted
        PROVE  \E i \in DOMAIN issued' : Earned(accepted[a].cred, i)'
    <3>1. PICK i \in DOMAIN issued : Earned(accepted[a].cred, i)
      BY DEF AcceptedInheritsAttestation
    <3>2. Earned(accepted[a].cred, i)'
      BY <3>1, <1>1, <1>5 DEF Earned
    <3>3. i \in DOMAIN issued'
      BY <1>5
    <3> QED BY <3>2, <3>3, <1>1
  <2> QED BY <2>1, <1>1 DEF AcceptedInheritsAttestation
<1>12. NonceConsumedOnce'
  <2>1. ASSUME NEW i \in DOMAIN issued, issued[i].epoch = bootEpoch
        PROVE  issued[i].challenge.nonce # challenge.nonce
    BY <2>1, <1>2 DEF SpentInv, Replayed
  <2>2. ASSUME NEW i \in DOMAIN issued', NEW j \in DOMAIN issued',
               issued'[i].epoch = issued'[j].epoch,
               issued'[i].challenge.nonce = issued'[j].challenge.nonce
        PROVE  i = j
    <3>1. (i \in DOMAIN issued \/ i = n) /\ (j \in DOMAIN issued \/ j = n)
      BY <1>5
    <3> QED BY <2>1, <2>2, <3>1, <1>5, <1>6 DEF NonceConsumedOnce
  <2> QED BY <2>2, <1>1 DEF NonceConsumedOnce
<1>13. InheritedTrustExpires'
  BY <1>1, <1>5 DEF InheritedTrustExpires
<1>14. OnlySuccessConsumes'
  <2>1. ASSUME NEW s \in bootSeen'
        PROVE  \E i \in DOMAIN issued' :
                  issued'[i].challenge = s /\ issued'[i].epoch = bootEpoch'
    <3>1. CASE s \in bootSeen
      BY <3>1, <1>1, <1>5 DEF OnlySuccessConsumes
    <3>2. CASE s = challenge
      BY <3>2, <1>1, <1>5, <1>6
    <3> QED BY <3>1, <3>2, <1>1
  <2> QED BY <2>1, <1>1 DEF OnlySuccessConsumes
<1> QED BY <1>8, <1>9, <1>10, <1>11, <1>12, <1>13, <1>14
\* An acceptance appends one claim, of a credential the issuer issued, for a
\* challenge that was unspent.
LEMMA AcceptStep ==
  ASSUME IInv, NEW c \in Shown, NEW k \in Keys, NEW signed \in presChallenges,
         NEW challenge \in presChallenges,
         Accept(c, present(k, signed), challenge),
         accept(presSeen, c, present(k, signed), challenge, verifierClock) = "Ok"
  PROVE  IInv'
<1> USE DEF IInv
<1>0. PICK n \in Nat : n = Len(accepted) + 1
  BY Entries
<1> DEFINE new == [cred |-> c, presentation |-> present(k, signed), challenge |-> challenge,
                   at |-> verifierClock, issuerAt |-> issuerClock, epoch |-> presEpoch]
<1>1. /\ accept(presSeen, c, present(k, signed), challenge, verifierClock) = "Ok"
      /\ presSeen' = presSeen \cup {challenge} /\ accepted' = Append(accepted, new)
      /\ UNCHANGED <<issuerClock, verifierClock, relayTee, bootChallenges, presChallenges,
                     attested, bootSeen, bootEpoch, presEpoch, issued>>
  BY DEF Accept, SeenAfter
<1>2. /\ verifierClock <= challenge.expires_at /\ ~Replayed(presSeen, challenge)
      /\ verify(c, ISSUER, verifierClock) = "Ok"
      /\ present(k, signed) = present(c.device_pubkey, challenge)
  BY <1>1 DEF accept, ensure_fresh
<1>3. PICK i \in DOMAIN issued : issued[i].cred = c
  BY <1>2, ShownVerifies
<1>4. new \in Acceptances
  <2>1. c \in Credentials
    BY <1>3, Entries
  <2>2. challenge \in Challenges /\ signed \in Challenges
    BY DEF TypeOK
  <2> QED BY <2>1, <2>2 DEF Acceptances, TypeOK
<1>5. /\ new.cred = c /\ new.presentation = present(k, signed) /\ new.challenge = challenge
      /\ new.at = verifierClock /\ new.issuerAt = issuerClock /\ new.epoch = presEpoch
  OBVIOUS
<1> HIDE DEF new
<1>6. /\ accepted' \in Seq(Acceptances) /\ DOMAIN accepted' = DOMAIN accepted \cup {n}
      /\ \A a \in DOMAIN accepted : accepted'[a] = accepted[a]
      /\ accepted'[n] = new
  BY <1>0, <1>1, <1>4 DEF TypeOK
<1>7. TypeOK'
  BY <1>1, <1>6 DEF TypeOK
<1>8. IssuedInv'
  BY <1>1 DEF IssuedInv, Earned
<1>9. SpentInv'
  <2>1. ASSUME NEW a \in DOMAIN accepted'
        PROVE  /\ accepted'[a].epoch <= presEpoch'
               /\ accepted'[a].epoch = presEpoch' => Replayed(presSeen', accepted'[a].challenge)
    <3>1. CASE a \in DOMAIN accepted
      BY <3>1, <1>1, <1>6 DEF SpentInv, Replayed
    <3>2. CASE a = n
      <4>1. accepted'[a].epoch = presEpoch' /\ accepted'[a].challenge \in presSeen'
        BY <3>2, <1>1, <1>5, <1>6
      <4>2. presEpoch' \in Nat
        BY <1>1, RelayAssumption DEF TypeOK
      <4> QED BY <4>1, <4>2 DEF Replayed
    <3> QED BY <3>1, <3>2, <1>6
  <2> QED BY <2>1, <1>1 DEF SpentInv
<1>10. AcceptedInheritsAttestation'
  <2>1. \A b : \A j \in DOMAIN issued : Earned(b, j) => Earned(b, j)'
    BY <1>1 DEF Earned
  <2>2. Earned(c, i)
    BY <1>3 DEF IssuedInv
  <2>3. ASSUME NEW a \in DOMAIN accepted'
        PROVE  /\ \E j \in DOMAIN issued' : Earned(accepted[a].cred, j)'
               /\ accepted'[a].presentation
                     = present(accepted'[a].cred.device_pubkey, accepted'[a].challenge)
    <3>1. CASE a \in DOMAIN accepted
      BY <3>1, <2>1, <1>1, <1>6 DEF AcceptedInheritsAttestation
    <3>2. CASE a = n
      <4>1. accepted'[a].cred = c
        BY <3>2, <1>5, <1>6
      <4>2. Earned(c, i)' /\ i \in DOMAIN issued'
        BY <2>1, <2>2, <1>1
      <4>3. Earned(accepted[a].cred, i)'
        BY <4>1, <4>2 DEF Earned
      <4> QED BY <3>2, <4>2, <4>3, <1>2, <1>5, <1>6
    <3> QED BY <3>1, <3>2, <1>6
  <2> QED BY <2>3 DEF AcceptedInheritsAttestation
<1>11. NonceConsumedOnce'
  <2>1. ASSUME NEW a \in DOMAIN accepted, accepted[a].epoch = presEpoch
        PROVE  accepted[a].challenge.nonce # challenge.nonce
    BY <2>1, <1>2 DEF SpentInv, Replayed
  <2>2. ASSUME NEW a \in DOMAIN accepted', NEW b \in DOMAIN accepted',
               accepted'[a].epoch = accepted'[b].epoch,
               accepted'[a].challenge.nonce = accepted'[b].challenge.nonce
        PROVE  a = b
    BY <2>1, <2>2, <1>5, <1>6 DEF NonceConsumedOnce
  <2> QED BY <2>2, <1>1 DEF NonceConsumedOnce
<1>12. InheritedTrustExpires'
  <2>1. issuerClock <= issued[i].challenge.expires_at + issued[i].ttl + MaxDrift
    <3>1. verifierClock <= issued[i].cred.expiry
      <4>1. c.expiry \in Int
        <5>1. PICK key \in Keys, d \in Devices, eat \in Eats, t \in 0 .. MaxTime, ttl \in Ttls :
                 c = issue(key, d, eat.value_x, t, ttl)
          BY <1>3, Entries DEF Credentials
        <5>2. c.expiry = t + ttl /\ t \in Int /\ ttl \in Int
          BY <5>1, IssueFields, RelayAssumption
        <5> QED BY <5>2
      <4> QED BY <4>1, <1>2, <1>3 DEF verify, TypeOK
    <3>2. /\ issued[i].cred.issued_at <= issued[i].challenge.expires_at
          /\ issued[i].cred.expiry = issued[i].cred.issued_at + issued[i].ttl
      BY DEF IssuedInv
    <3>3. /\ issued[i].ttl \in Int /\ issued[i].challenge.expires_at \in Int
          /\ issued[i].cred.issued_at \in Int
      <4>1. PICK key \in Keys, d \in Devices, eat \in Eats, t \in 0 .. MaxTime, ttl \in Ttls :
               issued[i].cred = issue(key, d, eat.value_x, t, ttl)
        BY <1>3, Entries DEF Credentials
      <4>2. issued[i].cred.issued_at = t
        BY <4>1, IssueFields
      <4> QED BY <4>2, Entries
    <3>4. issuerClock \in Int /\ verifierClock \in Int /\ MaxDrift \in Int
          /\ issuerClock - verifierClock <= MaxDrift
      BY RelayAssumption DEF TypeOK
    <3> QED BY <3>1, <3>2, <3>3, <3>4
  <2>2. ASSUME NEW a \in DOMAIN accepted'
        PROVE  /\ accepted'[a].at <= accepted'[a].challenge.expires_at
               /\ \E j \in DOMAIN issued' :
                     /\ issued'[j].cred = accepted'[a].cred
                     /\ accepted'[a].issuerAt
                           <= issued'[j].challenge.expires_at + issued'[j].ttl + MaxDrift
    <3>1. CASE a \in DOMAIN accepted
      BY <3>1, <1>1, <1>6 DEF InheritedTrustExpires
    <3>2. CASE a = n
      BY <3>2, <2>1, <1>1, <1>2, <1>3, <1>5, <1>6
    <3> QED BY <3>1, <3>2, <1>6
  <2> QED BY <2>2 DEF InheritedTrustExpires
<1>13. OnlySuccessConsumes'
  <2>1. ASSUME NEW s \in presSeen'
        PROVE  \E a \in DOMAIN accepted' :
                  accepted'[a].challenge = s /\ accepted'[a].epoch = presEpoch'
    <3>1. CASE s \in presSeen
      BY <3>1, <1>1, <1>6 DEF OnlySuccessConsumes
    <3>2. CASE s = challenge
      BY <3>2, <1>1, <1>5, <1>6
    <3> QED BY <3>1, <3>2, <1>1
  <2> QED BY <2>1, <1>1 DEF OnlySuccessConsumes
<1> QED BY <1>7, <1>8, <1>9, <1>10, <1>11, <1>12, <1>13
-----------------------------------------------------------------------------
(* The invariant.                                                           *)

\* Evidence is a device with what it committed to; Bootstrap needs the pair.
EvidenceInv == \A e \in attested : e[1] \in Devices /\ e = <<e[1], e[2]>>

LEMMA InitInv == Init => IInv /\ EvidenceInv
<1> SUFFICES ASSUME Init PROVE IInv /\ EvidenceInv
  OBVIOUS
<1>1. DOMAIN issued = {} /\ DOMAIN accepted = {}
  BY DEF Init
<1>2. TypeOK
  BY <1>1, RelayAssumption DEF Init, TypeOK
<1>3. IssuedInv /\ SpentInv /\ AcceptedInheritsAttestation /\ NonceConsumedOnce
      /\ InheritedTrustExpires
  BY <1>1 DEF IssuedInv, SpentInv, AcceptedInheritsAttestation, NonceConsumedOnce,
              InheritedTrustExpires
<1>4. OnlySuccessConsumes /\ EvidenceInv
  BY DEF Init, OnlySuccessConsumes, EvidenceInv
<1> QED BY <1>2, <1>3, <1>4 DEF IInv

\* A restart forgets the nonces of the old lifetime and starts a new one.
LEMMA RestartStep == IInv /\ (RestartIssuer \/ RestartVerifier) => IInv'
<1> SUFFICES ASSUME IInv, RestartIssuer \/ RestartVerifier PROVE IInv'
  OBVIOUS
<1> USE DEF IInv
<1>1. /\ UNCHANGED <<issuerClock, attested, issued, accepted>>
      /\ bootEpoch \in Nat /\ presEpoch \in Nat
  BY RelayAssumption DEF RestartIssuer, RestartVerifier, TypeOK
<1>2. TypeOK'
  <2>1. CASE RestartIssuer
    <3>1. bootEpoch' \in 0 .. MaxRestarts
      BY <2>1, <1>1, RelayAssumption DEF RestartIssuer
    <3> QED BY <2>1, <3>1 DEF RestartIssuer, TypeOK
  <2>2. CASE RestartVerifier
    <3>1. presEpoch' \in 0 .. MaxRestarts
      BY <2>2, <1>1, RelayAssumption DEF RestartVerifier
    <3> QED BY <2>2, <3>1 DEF RestartVerifier, TypeOK
  <2> QED BY <2>1, <2>2
<1>3. IssuedInv' /\ AcceptedInheritsAttestation'
  BY <1>1 DEF IssuedInv, AcceptedInheritsAttestation, Earned
<1>4. NonceConsumedOnce' /\ InheritedTrustExpires'
  BY <1>1 DEF NonceConsumedOnce, InheritedTrustExpires
<1>5. SpentInv' /\ OnlySuccessConsumes'
  <2>1. CASE RestartIssuer
    <3>1. \A i \in DOMAIN issued : issued[i].epoch < bootEpoch'
      BY <2>1, <1>1, Entries DEF RestartIssuer, SpentInv
    <3>2. UNCHANGED <<presSeen, presEpoch>> /\ bootSeen' = {} /\ bootEpoch' \in Nat
      BY <2>1, <1>1 DEF RestartIssuer
    <3>3. SpentInv'
      BY <3>1, <3>2, <1>1, Entries DEF SpentInv, Replayed
    <3> QED BY <3>2, <3>3, <1>1 DEF OnlySuccessConsumes
  <2>2. CASE RestartVerifier
    <3>1. \A a \in DOMAIN accepted : accepted[a].epoch < presEpoch'
      BY <2>2, <1>1, Entries DEF RestartVerifier, SpentInv
    <3>2. UNCHANGED <<bootSeen, bootEpoch>> /\ presSeen' = {} /\ presEpoch' \in Nat
      BY <2>2, <1>1 DEF RestartVerifier
    <3>3. SpentInv'
      BY <3>1, <3>2, <1>1, Entries DEF SpentInv, Replayed
    <3> QED BY <3>2, <3>3, <1>1 DEF OnlySuccessConsumes
  <2> QED BY <2>1, <2>2
<1> QED BY <1>2, <1>3, <1>4, <1>5

\* A step that changes nothing, as a refused call does.
LEMMA StutterStep ==
  ASSUME IInv, EvidenceInv, UNCHANGED vars
  PROVE  IInv' /\ EvidenceInv'
<1>1. TypeOK'
  BY DEF IInv, TypeOK, vars
<1>2. UNCHANGED <<issued, accepted, bootSeen, presSeen, bootEpoch, presEpoch, attested,
                  issuerClock>>
  BY DEF vars
<1>3. issuerClock <= issuerClock' /\ EvidenceInv'
  BY <1>2 DEF IInv, TypeOK, EvidenceInv
<1>4. IInv'
  BY <1>1, <1>2, <1>3, QuietStep
<1> QED BY <1>3, <1>4

LEMMA NextInv == IInv /\ EvidenceInv /\ [Next]_vars => IInv' /\ EvidenceInv'
<1> SUFFICES ASSUME IInv, EvidenceInv, [Next]_vars PROVE IInv' /\ EvidenceInv'
  OBVIOUS
<1>1. ASSUME NEW nonce \in Nonces, NEW ttl \in Ttls,
             NewBootChallenge(nonce, ttl) \/ NewPresChallenge(nonce, ttl)
      PROVE  IInv' /\ EvidenceInv'
  <2>1. ASSUME NEW now \in 0 .. MaxTime, now + ttl <= MaxU64
        PROVE  NewChallenge(nonce, now, ttl) \in Challenges
    <3>1. ttl \in Nat
      BY RelayAssumption, Zenon
    <3> QED BY <2>1, <3>1, RelayAssumption DEF NewChallenge, Challenges
  <2>2. TypeOK'
    BY <1>1, <2>1 DEF IInv, TypeOK, NewBootChallenge, NewPresChallenge
  <2>3. UNCHANGED <<issued, accepted, bootSeen, presSeen, bootEpoch, presEpoch, attested,
                    issuerClock>>
    BY <1>1 DEF NewBootChallenge, NewPresChallenge
  <2>4. issuerClock <= issuerClock' /\ EvidenceInv'
    BY <2>3 DEF IInv, TypeOK, EvidenceInv
  <2>5. IInv'
    BY <2>2, <2>3, <2>4, QuietStep
  <2> QED BY <2>4, <2>5
<1>2. ASSUME NEW eat \in Eats, AdmitTee(eat) PROVE IInv' /\ EvidenceInv'
  <2>1. TypeOK'
    BY <1>2 DEF IInv, TypeOK, AdmitTee, from_eat
  <2>2. UNCHANGED <<issued, accepted, bootSeen, presSeen, bootEpoch, presEpoch, attested,
                    issuerClock>>
    BY <1>2 DEF AdmitTee
  <2>3. issuerClock <= issuerClock' /\ EvidenceInv'
    BY <2>2 DEF IInv, TypeOK, EvidenceInv
  <2>4. IInv'
    BY <2>1, <2>2, <2>3, QuietStep
  <2> QED BY <2>3, <2>4
<1>3. ASSUME NEW d \in Devices, NEW eat \in Eats, NEW ch \in bootChallenges,
             Attest(d, eat, ch)
      PROVE  IInv' /\ EvidenceInv'
  <2>1. TypeOK'
    BY <1>3 DEF IInv, TypeOK, Attest
  <2>2. EvidenceInv'
    BY <1>3 DEF EvidenceInv, Attest
  <2>3. /\ UNCHANGED <<issued, accepted, bootSeen, presSeen, bootEpoch, presEpoch, issuerClock>>
        /\ attested \subseteq attested'
    BY <1>3 DEF Attest
  <2>4. issuerClock <= issuerClock'
    BY <2>3 DEF IInv, TypeOK
  <2>5. IInv'
    BY <2>1, <2>3, <2>4, QuietStep
  <2> QED BY <2>2, <2>5
<1>4. ASSUME NEW k \in Keys, NEW e \in attested, NEW f \in attested,
             NEW ch \in bootChallenges, NEW ttl \in Ttls, Bootstrap(k, e, f[2], ch, ttl)
      PROVE  IInv' /\ EvidenceInv'
  <2>1. EvidenceInv'
    BY <1>4 DEF EvidenceInv, Bootstrap
  <2>2. e[1] \in Devices /\ e = <<e[1], e[2]>>
    BY DEF EvidenceInv
  <2>3. CASE bootstrap(bootSeen, k, f[2], relayTee, ch, issuerClock, ttl) = "Ok"
    BY <1>4, <2>1, <2>2, <2>3, BootstrapStep
  <2>4. CASE bootstrap(bootSeen, k, f[2], relayTee, ch, issuerClock, ttl) # "Ok"
    <3>1. UNCHANGED vars
      BY <1>4, <2>4 DEF Bootstrap, SeenAfter, vars
    <3> QED BY <3>1, StutterStep
  <2> QED BY <2>3, <2>4
<1>5. ASSUME NEW c \in Shown, NEW k \in Keys, NEW ch \in presChallenges,
             NEW signed \in presChallenges, Accept(c, present(k, signed), ch)
      PROVE  IInv' /\ EvidenceInv'
  <2>1. CASE accept(presSeen, c, present(k, signed), ch, verifierClock) = "Ok"
    BY <1>5, <2>1, AcceptStep DEF EvidenceInv, Accept
  <2>2. CASE accept(presSeen, c, present(k, signed), ch, verifierClock) # "Ok"
    <3>1. UNCHANGED vars
      BY <1>5, <2>2 DEF Accept, SeenAfter, vars
    <3> QED BY <3>1, StutterStep
  <2> QED BY <2>1, <2>2
<1>6. CASE RestartIssuer \/ RestartVerifier
  BY <1>6, RestartStep DEF EvidenceInv, RestartIssuer, RestartVerifier
<1>7. CASE TickIssuer \/ TickVerifier
  <2>1. TypeOK'
    <3>1. /\ issuerClock' \in 0 .. MaxTime /\ verifierClock' \in 0 .. MaxTime
          /\ issuerClock' - verifierClock' \in -MaxDrift .. MaxDrift
      BY <1>7, RelayAssumption DEF IInv, TypeOK, TickIssuer, TickVerifier
    <3>2. UNCHANGED <<relayTee, bootChallenges, presChallenges, attested, bootSeen,
                      presSeen, bootEpoch, presEpoch, issued, accepted>>
      BY <1>7 DEF TickIssuer, TickVerifier
    <3> QED BY <3>1, <3>2 DEF IInv, TypeOK
  <2>2. /\ UNCHANGED <<issued, accepted, bootSeen, presSeen, bootEpoch, presEpoch, attested>>
        /\ issuerClock <= issuerClock'
    BY <1>7 DEF TickIssuer, TickVerifier, IInv, TypeOK
  <2>3. EvidenceInv'
    BY <2>2 DEF EvidenceInv
  <2>4. IInv'
    BY <2>1, <2>2, QuietStep
  <2> QED BY <2>3, <2>4
<1>8. CASE UNCHANGED vars
  BY <1>8, StutterStep
<1> QED BY <1>1, <1>2, <1>3, <1>4, <1>5, <1>6, <1>7, <1>8 DEF Next

\* The relay's state, stores and histories satisfy the invariant forever.
THEOREM RelayInvariant == Spec => [](IInv /\ EvidenceInv)
  BY InitInv, NextInv, PTL DEF Spec

\* Only issuer-signed credentials with a u64 expiry circulate, and the stores
\* hold only challenges that were issued (relay.rs: issue, check_and_store).
THEOREM RelayTypeCorrect == Spec => []TypeOK
<1>1. IInv => TypeOK
  BY DEF IInv
<1> QED BY <1>1, RelayInvariant, PTL

\* Claims a relying party accepts were earned by a bootstrap of that device
\* through an admitted TEE (relay.rs: bootstrap, accept).
THEOREM RelayInheritsAttestation == Spec => []AcceptedInheritsAttestation
<1>1. IInv => AcceptedInheritsAttestation
  BY DEF IInv
<1> QED BY <1>1, RelayInvariant, PTL

\* A nonce is spent at most once in a process lifetime (relay.rs: the replay
\* stores).
THEOREM RelayNonceOnce == Spec => []NonceConsumedOnce
<1>1. IInv => NonceConsumedOnce
  BY DEF IInv
<1> QED BY <1>1, RelayInvariant, PTL

\* Restarts never extend inherited trust beyond the challenge's expiry plus the
\* credential's lifetime and the drift (relay.rs: ensure_fresh, verify).
THEOREM RelayTrustExpires == Spec => []InheritedTrustExpires
<1>1. IInv => InheritedTrustExpires
  BY DEF IInv
<1> QED BY <1>1, RelayInvariant, PTL

\* No failed call spends a nonce (relay.rs: the order of checks in bootstrap
\* and accept).
THEOREM RelaySuccessConsumes == Spec => []OnlySuccessConsumes
<1>1. IInv => OnlySuccessConsumes
  BY DEF IInv
<1> QED BY <1>1, RelayInvariant, PTL

\* The skew allowance is enough: until it expires a credential is accepted from
\* its holder for every fresh unspent challenge (relay.rs: verify, accept).
THEOREM RelayCredentialUsable == Spec => []CredentialUsable
<1>1. IInv => CredentialUsable
  <2> SUFFICES ASSUME IInv, NEW i \in DOMAIN issued, NEW ch \in presChallenges,
                      verifierClock <= issued[i].cred.expiry,
                      ensure_fresh(ch, verifierClock), ~Replayed(presSeen, ch)
               PROVE  accept(presSeen, issued[i].cred,
                             present(issued[i].cred.device_pubkey, ch), ch, verifierClock) = "Ok"
    BY DEF CredentialUsable
  <2> DEFINE c == issued[i].cred
  <2>1. TypeOK
    BY DEF IInv
  <2>2. PICK k \in Keys, d \in Devices, eat \in Eats, t \in 0 .. MaxTime, ttl \in Ttls :
           c = issue(k, d, eat.value_x, t, ttl)
    BY <2>1, Entries DEF Credentials
  <2>3. c.issued_at = t /\ c.sig = Sign(ISSUER, credential_bytes(c)) /\ c.expiry = t + ttl
    BY <2>2, IssueFields
  <2>4. t <= issuerClock /\ ttl \in Int
    BY <2>3, RelayAssumption DEF IInv, IssuedInv
  <2>5. verifierClock + SKEW_SECS >= t
    BY <2>1, <2>4, RelayAssumption DEF TypeOK
  <2> HIDE DEF c
  <2>6. verify(c, ISSUER, verifierClock) = "Ok"
    <3>1. verifierClock <= c.expiry
      BY DEF c
    <3>2. verifierClock \in Int /\ SKEW_SECS \in Int
      BY <2>1, RelayAssumption DEF TypeOK
    <3> QED BY <3>1, <3>2, <2>3, <2>4, <2>5 DEF verify
  <2>7. accept(presSeen, c, present(c.device_pubkey, ch), ch, verifierClock) = "Ok"
    BY <2>6 DEF accept
  <2> QED BY <2>7 DEF c
<1> QED BY <1>1, RelayInvariant, PTL

\* A challenge is used up by exactly one success of a lifetime and nothing else.
THEOREM RelayChallengeSpentOnce == Spec => []ChallengeSpentOnce
  BY RelayNonceOnce, RelaySuccessConsumes, PTL DEF ChallengeSpentOnce

=============================================================================
