--------------------------- MODULE GpuCollateral ---------------------------
(***************************************************************************)
(* Revocation status of NVIDIA device and manifest-signer certificates:     *)
(* v2/src/gpu/collateral.rs gathers signed status objects for a bundle of   *)
(* devices through a cache, v2/src/gpu/revocation.rs authenticates and      *)
(* judges them, and a relying party judges the gathered evidence again,     *)
(* later and after it has travelled through untrusted hands.                *)
(*                                                                          *)
(* The vendor's CA revokes certificates while all this goes on. One moment  *)
(* is read at the start of an acquisition and used to its end, while every  *)
(* fetched response is also judged by the clock. A program may start with a *)
(* cache it is given (from_json), which may hold anything.                  *)
(***************************************************************************)
EXTENDS Naturals, Sequences, FiniteSets

CONSTANTS
    None,
    Devices,        \* GPUs and switches
    Manifests,      \* reference manifests, by selector
    Certs,          \* certificates
    Path,           \* the non-root certificates of a device or manifest signer, leaf first
    Issuer,         \* who issued a certificate
    NotAfter,       \* when a certificate expires
    Delegates,      \* OCSP responders an issuer has authorised
    NoCheck,        \* delegated responders marked id-pkix-ocsp-nocheck
    Selectors,      \* the manifests a device's signed report asks for
    Bundles,        \* sequences of devices to gather collateral for
    Imports,        \* <<s, c>>: an imported cache may add a statement about c to s's entry
    Revocable,      \* certificates the CA may revoke
    Lag,            \* how old a status may be when a response is produced
    StatusLife,     \* nextUpdate - thisUpdate, as the CA sets it
    MAX_OBJECTS,    \* 128: status objects of one evidence, entries of the cache
    MAX_MANIFESTS,  \* 64
    MaxClock,       \* bound on the clock
    MaxImports,     \* bound on the changes made to a cache before it is read back
    MaxTampered     \* bound on the changes made to evidence on its way

Subjects == Devices \cup Manifests

Elements(s) == {s[i] : i \in 1..Len(s)}

ASSUME CollateralAssumption ==
    /\ Devices \cap Manifests = {}
    /\ Path \in [Subjects -> Seq(Certs) \ {<< >>}] /\ Issuer \in [Certs -> Certs]
    /\ NotAfter \in [Certs -> Nat]
    /\ Delegates \in [Certs -> SUBSET Certs] /\ NoCheck \subseteq Certs
    /\ Selectors \in [Devices -> SUBSET Manifests] /\ \A d \in Devices : IsFiniteSet(Selectors[d])
    /\ Bundles \subseteq Seq(Devices) /\ Revocable \subseteq Certs
    /\ Imports \subseteq Subjects \X Certs
    /\ StatusLife \in Nat /\ Lag \in Nat /\ Lag < StatusLife
    /\ MAX_OBJECTS \in Nat /\ MAX_MANIFESTS \in Nat
    /\ MaxClock \in Nat /\ MaxImports \in Nat /\ MaxTampered \in Nat
    /\ None \notin Certs /\ None \notin Nat /\ None \notin Subjects

\* The signature of nobody who matters.
Stranger == None

Times == 0..(MaxClock + StatusLife)

\* One OCSP response about one certificate, a complete CRL, and bytes that do
\* not parse. The signature of each is that of `signer`.
Responses ==
    [kind: {"ocsp"}, cert: Certs, status: {"good", "revoked", "unknown"},
     this: Times, next: Times, produced: Times, signer: Certs \cup {Stranger}]

Lists ==
    [kind: {"crl"}, issuer: Certs, revoked: SUBSET Certs,
     this: Times, next: Times, signer: Certs \cup {Stranger}]

Objects == Responses \cup Lists \cup [kind: {"garbage"}]

VARIABLES
    clock,
    revokedAt,      \* when the CA revoked a certificate, or None
    cache,          \* CollateralCache: the evidence kept for a subject, or None
    imports,        \* how often a changed cache was read back
    imported,       \* history: the status objects that came with an imported cache
    pc,             \* where acquire_for_bundle is
    now,            \* the moment it was called with
    bundle,         \* the devices it works on
    devicesLeft,    \* those not yet authenticated
    manifestsLeft,  \* selectors not yet resolved
    output,         \* the status objects merged so far
    target,         \* whose path it is fetching for, or None
    fetched,        \* responses of the fetch_chain under way
    asked,          \* when its current request was sent
    evidence,       \* [bundle, objects] a relying party is shown, or None
    tampered,       \* how often that was changed on its way
    verdict         \* history: when verify last accepted this evidence, or None

acquisition == <<pc, now, bundle, devicesLeft, manifestsLeft, output, target, fetched, asked>>
store == <<cache, imports, imported>>
collateralVars == <<clock, revokedAt, store, acquisition, evidence, tampered, verdict>>

Stages == {"idle", "next", "fetch", "insert", "done", "unanswered", "rejected"}

Evidences == [bundle: Bundles, objects: SUBSET Objects]

\* Every variable holds a value of its type; in particular no cache holds more
\* entries than its limits allow, and what is fetched is made of OCSP responses.
CollateralTypeOK ==
    /\ clock \in 0..MaxClock
    /\ revokedAt \in [Certs -> 0..MaxClock \cup {None}]
    /\ cache \in [Subjects -> (SUBSET Objects) \cup {None}]
    /\ imports \in 0..MaxImports /\ imported \in SUBSET Objects
    /\ pc \in Stages /\ now \in 0..MaxClock
    /\ bundle \in Bundles \cup {<< >>} /\ devicesLeft \in Seq(Devices)
    /\ manifestsLeft \in SUBSET Manifests
    /\ target \in Subjects \cup {None}
    /\ output \in SUBSET Objects /\ fetched \in Seq(Responses)
    /\ asked \in 0..MaxClock
    /\ evidence \in Evidences \cup {None}
    /\ tampered \in 0..MaxTampered
    /\ Cardinality({d \in Devices : cache[d] # None}) <= MAX_OBJECTS
    /\ Cardinality({m \in Manifests : cache[m] # None}) <= MAX_MANIFESTS
    /\ verdict \in 0..MaxClock \cup {None}

\* CollateralCache::default() is empty.
CollateralInit ==
    /\ clock = 0 /\ revokedAt = [c \in Certs |-> None]
    /\ cache = [s \in Subjects |-> None] /\ imports = 0 /\ imported = {}
    /\ pc = "idle" /\ now = 0 /\ bundle = << >> /\ devicesLeft = << >>
    /\ manifestsLeft = {} /\ output = {}
    /\ target = None /\ fetched = << >> /\ asked = 0
    /\ evidence = None /\ tampered = 0 /\ verdict = None
-----------------------------------------------------------------------------
(* The vendor's CA (external) *)

\* A status stated as of `this`; a revocation within that second may or may
\* not be part of it.
TruthfullyGood(c, this) == revokedAt[c] = None \/ this <= revokedAt[c]

TruthfullyRevoked(c, this) == revokedAt[c] # None /\ revokedAt[c] <= this

\* What the CA and its responders may have signed by now.
GenuineResponses(c) ==
    {o \in {[kind |-> "ocsp", cert |-> c, status |-> status, this |-> this,
             next |-> this + StatusLife, produced |-> produced, signer |-> signer] :
                status \in {"good", "revoked", "unknown"}, this \in 0..clock,
                produced \in 0..clock, signer \in {Issuer[c]} \cup Delegates[Issuer[c]]} :
        /\ o.this <= o.produced /\ o.produced <= o.this + Lag
        /\ o.status = "good" => TruthfullyGood(c, o.this)
        /\ o.status = "revoked" => TruthfullyRevoked(c, o.this)}

GenuineLists(issuer) ==
    {l \in {[kind |-> "crl", issuer |-> issuer, revoked |-> revoked, this |-> this,
             next |-> this + StatusLife, signer |-> issuer] :
                revoked \in SUBSET {c \in Certs : revokedAt[c] # None}, this \in 0..clock} :
        \A c \in Certs :
            IF c \in l.revoked THEN Issuer[c] = issuer /\ TruthfullyRevoked(c, l.this)
            ELSE Issuer[c] = issuer => TruthfullyGood(c, l.this)}

Genuine == UNION {GenuineResponses(c) \cup GenuineLists(c) : c \in Certs}

\* What anybody can make: bytes that do not parse, and the most favourable
\* statements under another signature.
Forgeries ==
    {[kind |-> "garbage"]}
      \cup {[kind |-> "ocsp", cert |-> c, status |-> "good", this |-> clock,
             next |-> clock + StatusLife, produced |-> clock, signer |-> Stranger] : c \in Certs}
      \cup {[kind |-> "crl", issuer |-> c, revoked |-> {}, this |-> clock,
             next |-> clock + StatusLife, signer |-> Stranger] : c \in Certs}

Revoke(c) ==
    /\ revokedAt[c] = None
    /\ revokedAt' = [revokedAt EXCEPT ![c] = clock]
    /\ UNCHANGED <<clock, store, acquisition, evidence, tampered, verdict>>

CollateralTick ==
    /\ clock < MaxClock /\ clock' = clock + 1
    /\ UNCHANGED <<revokedAt, store, acquisition, evidence, tampered, verdict>>
-----------------------------------------------------------------------------
(* revocation.rs: judging status objects at time t *)

ResponsesIn(objects) == {o \in objects : o.kind = "ocsp"}

ListsIn(objects) == {o \in objects : o.kind = "crl"}

check_certificate(c, t) == t <= NotAfter[c]

\* A status object would still be used in the second it expires.
check_dates_inclusive(this, next, t) == this < next /\ this <= t /\ t <= next

\* Nor in the second it is issued.
check_dates_late(this, next, t) == this < next /\ this < t /\ t < next

check_dates(this, next, t) == this < next /\ this <= t /\ t < next

check_crl(list, c, t) ==
    /\ list.signer = Issuer[c]
    /\ check_dates(list.this, list.next, t)
    /\ c \notin list.revoked

\* The responder is the issuer, or one it delegated directly, whose own status
\* is exempt or covered by the issuer's CRLs.
Authorised(o, lists, t) ==
    \/ o.signer = Issuer[o.cert]
    \/ /\ o.signer \in Delegates[Issuer[o.cert]]
       /\ check_certificate(o.signer, t)
       /\ \/ o.signer \in NoCheck
          \/ LET own == {l \in lists : l.issuer = Issuer[o.cert]}
             IN  own # {} /\ \A l \in own : check_crl(l, o.signer, t)

check_ocsp(o, lists, t) ==
    /\ o.produced <= t
    /\ Authorised(o, lists, t) /\ o.produced <= NotAfter[o.signer]
    /\ check_dates(o.this, o.next, t)
    /\ o.this <= o.produced /\ o.produced < o.next
    /\ o.status = "good"

\* Every object about a certificate must pass, and there must be one.
StatusOf(c, objects, t) ==
    LET about == {o \in ResponsesIn(objects) : o.cert = c}
        lists == {l \in ListsIn(objects) : l.issuer = Issuer[c]}
    IN  /\ about \cup lists # {}
        /\ \A o \in about : check_ocsp(o, ListsIn(objects), t)
        /\ \A l \in lists : check_crl(l, c, t)

validate_limits(objects) == Cardinality(objects) <= MAX_OBJECTS

PathCerts(s) == Elements(Path[s]) \cup {Issuer[c] : c \in Elements(Path[s])}

PathValid(s, t) == \A c \in PathCerts(s) : check_certificate(c, t)

check_chain(s, objects, t) ==
    /\ validate_limits(objects)
    /\ \A o \in objects : o.kind # "garbage"
    /\ PathValid(s, t)
    /\ \A i \in 1..Len(Path[s]) : StatusOf(Path[s][i], objects, t)
-----------------------------------------------------------------------------
(* collateral.rs: the cache *)

\* Who an object is about: a certificate, or all those of an issuer.
Mentions(o, c) == o.kind = "garbage" \/ (IF o.kind = "ocsp" THEN o.cert ELSE o.issuer) = c

\* A program starts with a cache it reads, which somebody may have changed: an
\* entry is gone, is empty, or holds one more object, of any kind. Only the
\* number of entries and the size of a device's entry are checked.
from_json(s, c) ==
    /\ pc \in {"idle", "done", "unanswered", "rejected"} /\ imports < MaxImports
    /\ \/ cache' = [cache EXCEPT ![s] = None] /\ UNCHANGED imported
       \/ cache' = [cache EXCEPT ![s] = {}] /\ UNCHANGED imported
       \/ \E o \in {x \in Genuine \cup Forgeries : Mentions(x, c)} :
             /\ cache[s] # None
             /\ s \in Devices => validate_limits(cache[s] \cup {o})
             /\ cache' = [cache EXCEPT ![s] = @ \cup {o}] /\ imported' = imported \cup {o}
    /\ Cardinality({d \in Devices : cache'[d] # None}) <= MAX_OBJECTS
    /\ Cardinality({m \in Manifests : cache'[m] # None}) <= MAX_MANIFESTS
    /\ imports' = imports + 1
    /\ pc' = "idle" /\ now' = 0 /\ bundle' = << >> /\ devicesLeft' = << >>
    /\ manifestsLeft' = {} /\ output' = {}
    /\ target' = None /\ fetched' = << >> /\ asked' = 0
    /\ evidence' = None /\ tampered' = 0 /\ verdict' = None
    /\ UNCHANGED <<clock, revokedAt>>
-----------------------------------------------------------------------------
(* collateral.rs: acquire_for_bundle *)

\* The devices of a bundle and the manifests they are compared with.
Appraised(b) == Elements(b) \cup UNION {Selectors[d] : d \in Elements(b)}

\* The relying party's view of one evidence ends where the next is gathered.
acquire_for_bundle(b) ==
    /\ pc \in {"idle", "done", "unanswered", "rejected"}
    /\ pc' = "next" /\ now' = clock /\ bundle' = b /\ devicesLeft' = b
    /\ manifestsLeft' = {}
    /\ output' = {} /\ target' = None /\ fetched' = << >> /\ asked' = clock
    /\ evidence' = None /\ tampered' = 0 /\ verdict' = None
    /\ UNCHANGED <<clock, revokedAt, store>>

\* Devices come first, in the order of the bundle, then the manifests.
Current(s) ==
    IF devicesLeft # << >> THEN s = Head(devicesLeft) ELSE s \in manifestsLeft

Halt(stage) ==
    /\ pc' = stage
    /\ UNCHANGED <<now, bundle, devicesLeft, manifestsLeft, output, target, fetched, asked>>

\* merge_status, insert_selector, and on to the next device or manifest.
Merge(s, objects) ==
    LET wanted == IF s \in Devices THEN manifestsLeft \cup Selectors[s] ELSE manifestsLeft \ {s}
    IN  IF Cardinality(output \cup objects) <= MAX_OBJECTS /\ Cardinality(wanted) <= MAX_MANIFESTS
        THEN /\ pc' = "next" /\ output' = output \cup objects
             /\ devicesLeft' = IF s \in Devices THEN Tail(devicesLeft) ELSE devicesLeft
             /\ manifestsLeft' = wanted
             /\ target' = None /\ fetched' = << >> /\ UNCHANGED <<now, bundle, asked>>
        ELSE Halt("rejected")

CachedIsCurrent(s) == cache[s] # None /\ check_chain(s, cache[s], now)

UseCached(s) ==
    /\ pc = "next" /\ Current(s)
    /\ PathValid(s, now) /\ CachedIsCurrent(s)
    /\ Merge(s, cache[s])
    /\ UNCHANGED <<clock, revokedAt, store, evidence, tampered, verdict>>

\* fetch_chain asks about the certificates of the path, one after the other.
BeginFetch(s) ==
    /\ pc = "next" /\ Current(s)
    /\ PathValid(s, now) /\ ~CachedIsCurrent(s)
    /\ pc' = "fetch" /\ target' = s
    /\ fetched' = << >> /\ asked' = clock
    /\ UNCHANGED <<clock, revokedAt, store, now, bundle, devicesLeft, manifestsLeft, output,
                   evidence, tampered, verdict>>

\* A response repeats the nonce of its request, so it was made since.
Answers(c) == {o \in GenuineResponses(c) : asked <= o.produced}

\* The responder knows the certificate, and its own standing needs no CRL.
Usable(o) == o.status # "unknown" /\ Authorised(o, {}, clock)

Receive(s) ==
    /\ pc = "fetch" /\ s = target
    /\ \E o \in Answers(Path[s][Len(fetched) + 1]) :
          IF check_ocsp(o, {}, clock)
          THEN /\ fetched' = Append(fetched, o) /\ asked' = clock
               /\ pc' = IF Len(fetched) + 1 = Len(Path[s]) THEN "insert" ELSE "fetch"
               /\ UNCHANGED <<now, bundle, devicesLeft, manifestsLeft, output, target>>
          ELSE Halt(IF Usable(o) THEN "rejected" ELSE "unanswered")
    /\ UNCHANGED <<clock, revokedAt, store, evidence, tampered, verdict>>

\* A full cache takes no new entry and drops no old one.
HasRoom(s) ==
    \/ cache[s] # None
    \/ IF s \in Devices
       THEN Cardinality({d \in Devices : cache[d] # None}) < MAX_OBJECTS
       ELSE Cardinality({m \in Manifests : cache[m] # None}) < MAX_MANIFESTS

\* The fetched evidence is judged by the clock (the end of fetch_chain), then
\* as of the moment of the call, and only then stored.
StoreUnchecked(s) ==
    /\ pc = "insert" /\ s = target
    /\ IF check_chain(s, Elements(fetched), clock) /\ HasRoom(s)
       THEN /\ cache' = [cache EXCEPT ![s] = Elements(fetched)]
            /\ Merge(s, Elements(fetched))
       ELSE Halt("rejected") /\ UNCHANGED cache
    /\ UNCHANGED <<clock, revokedAt, imports, imported, evidence, tampered, verdict>>

Store(s) ==
    /\ pc = "insert" /\ s = target
    /\ IF /\ check_chain(s, Elements(fetched), clock)
          /\ check_chain(s, Elements(fetched), now)
          /\ HasRoom(s)
       THEN /\ cache' = [cache EXCEPT ![s] = Elements(fetched)]
            /\ Merge(s, Elements(fetched))
       ELSE Halt("rejected") /\ UNCHANGED cache
    /\ UNCHANGED <<clock, revokedAt, imports, imported, evidence, tampered, verdict>>

\* A path with an expired certificate is refused by validate_chain.
Expired(s) ==
    /\ pc = "next" /\ Current(s) /\ ~PathValid(s, now)
    /\ Halt("rejected")
    /\ UNCHANGED <<clock, revokedAt, store, evidence, tampered, verdict>>

\* A report or a manifest does not verify, or a request fails.
Unanswered ==
    /\ pc \in {"next", "fetch"} /\ (devicesLeft # << >> \/ manifestsLeft # {})
    /\ Halt("unanswered")
    /\ UNCHANGED <<clock, revokedAt, store, evidence, tampered, verdict>>

Finish ==
    /\ pc = "next" /\ devicesLeft = << >> /\ manifestsLeft = {}
    /\ pc' = "done"
    /\ evidence' = [bundle |-> bundle, objects |-> output]
    /\ UNCHANGED <<clock, revokedAt, store, now, bundle, devicesLeft, manifestsLeft, output,
                   target, fetched, asked, tampered, verdict>>
-----------------------------------------------------------------------------
(* The relying party *)

\* Whoever carries the evidence drops an object or adds one.
Tamper ==
    /\ evidence # None /\ tampered < MaxTampered
    /\ tampered' = tampered + 1 /\ verdict' = None
    /\ \/ \E o \in evidence.objects :
             evidence' = [evidence EXCEPT !.objects = @ \ {o}]
       \/ \E o \in Genuine \cup Forgeries :
             evidence' = [evidence EXCEPT !.objects = @ \cup {o}]
    /\ UNCHANGED <<clock, revokedAt, store, acquisition>>

\* Everything a verdict rests on has a current status: every manifest
\* (rim::verify_xml) and every device (authenticate).
StatusVerified(e, t) ==
    \A s \in Appraised(e.bundle) :
        PathValid(s, t) /\ check_chain(s, e.objects, t)

VerifyStatus ==
    /\ evidence # None /\ StatusVerified(evidence, clock)
    /\ verdict' = clock
    /\ UNCHANGED <<clock, revokedAt, store, acquisition, evidence, tampered>>
-----------------------------------------------------------------------------
CollateralNext ==
    \/ CollateralTick
    \/ \E c \in Revocable : Revoke(c)
    \/ \E i \in Imports : from_json(i[1], i[2])
    \/ \E b \in Bundles : acquire_for_bundle(b)
    \/ \E s \in Subjects :
          \/ UseCached(s) \/ BeginFetch(s) \/ Receive(s) \/ Store(s) \/ Expired(s)
    \/ Unanswered
    \/ Finish
    \/ Tamper
    \/ VerifyStatus

CollateralSpec == CollateralInit /\ [][CollateralNext]_collateralVars
-----------------------------------------------------------------------------
(* Properties *)

\* No verdict rests on a certificate that had been revoked for as long as a
\* status lasts: whatever was cached, merged or changed on the way, a
\* revocation takes effect within one validity period (check_chain).
RevocationTakesEffect ==
    verdict # None =>
        \A s \in Appraised(evidence.bundle) : \A c \in Elements(Path[s]) :
            revokedAt[c] = None \/ verdict < revokedAt[c] + StatusLife

\* A signed statement that a certificate is revoked is never outweighed by
\* older statements that it is good ("conflicting ... statuses fail").
RevokedWins ==
    verdict # None =>
        \A s \in Appraised(evidence.bundle) :
            \A c \in Elements(Path[s]), o \in evidence.objects \cap Genuine :
                /\ ~(o.kind = "ocsp" /\ o.cert = c /\ o.status = "revoked")
                /\ ~(o.kind = "crl" /\ o.issuer = Issuer[c] /\ c \in o.revoked)

\* A revoked certificate is refused: at once when a statement of its revocation
\* is among the evidence, and in any case within one validity period.
RevokedIsRefused == RevocationTakesEffect /\ RevokedWins

\* The status objects of a certificate, and whether one of them stands for it.
Concerns(o, c) == (o.kind = "ocsp" /\ o.cert = c) \/ (o.kind = "crl" /\ o.issuer = Issuer[c])

Passes(o, c, objects, t) ==
    IF o.kind = "ocsp" THEN check_ocsp(o, ListsIn(objects), t) ELSE check_crl(o, c, t)

\* Nothing the client fetched has expired at t, nor has a path.
StillValid(t) ==
    /\ \A o \in output \ imported : t < o.next /\ check_certificate(o.signer, t)
    /\ \A s \in Appraised(bundle) : PathValid(s, t)

\* What an acquisition returns passes verification as a whole, not only subject
\* by subject, from the moment it is judged at until the first of its objects or
\* certificates expires: merging never pairs a subject with another's bad status,
\* when the client fetched everything itself. An imported cache can bring a bad
\* status about a subject other than the one it is kept for, which nobody looks at
\* before merge_status; then every certificate still has a status, and any
\* status that fails it is one that was imported.
AcquiredIsUsable ==
    pc = "done" =>
        \A t \in now..MaxClock : t = now \/ StillValid(t) =>
            /\ output \cap imported = {} =>
                  StatusVerified([bundle |-> bundle, objects |-> output], t)
            /\ validate_limits(output)
            /\ \A s \in Appraised(bundle) : \A c \in Elements(Path[s]) :
                  LET about == {o \in output : Concerns(o, c)}
                  IN  about # {} /\ \A o \in about \ imported : Passes(o, c, output, t)

\* An acquisition whose requests are answered is refused only for a reason
\* outside the cache: a certificate was revoked or has expired, a limit was
\* reached, or the clock has moved on since the moment the call is judged at.
\* Cached evidence that is stale or bad, or was never any good, is refreshed.
RefusedForCause ==
    pc = "rejected" =>
        \/ clock # now
        \/ \E s \in Appraised(bundle) : \E c \in PathCerts(s) :
              revokedAt[c] # None \/ ~check_certificate(c, now)
        \/ \E s \in Subjects :
              /\ Current(s)
              /\ \/ ~HasRoom(s)
                 \/ Len(Path[s]) > MAX_OBJECTS
                 \/ cache[s] # None /\ Cardinality(output \cup cache[s]) > MAX_OBJECTS
                 \/ /\ cache[s] = Elements(fetched)
                    /\ Cardinality(output \cup Elements(fetched)) > MAX_OBJECTS
                 \/ s \in Devices /\ Cardinality(manifestsLeft \cup Selectors[s]) > MAX_MANIFESTS
=============================================================================
