----------------------------- MODULE GpuProofs -----------------------------
(***************************************************************************)
(* The theorems about GPU evidence, for any devices and limits.             *)
(*                                                                          *)
(* Collateral: no verdict outlives a revocation by more than the life of a  *)
(* status, signed revocations are never outweighed, and what an acquisition *)
(* gathers verifies as a whole, but for what an imported cache brought into *)
(* it.  The first rests on what a vendor signature means once it is made    *)
(* (Stated), the last on what was fetched and not imported being about the  *)
(* path it is kept for (Sourced) and on what has been gathered for the      *)
(* subjects already dealt with (Gathered).  An acquisition is refused       *)
(* for a cause outside its cache (ForCause: while the clock stands still,   *)
(* what was fetched was judged at the moment of the call).                  *)
(*                                                                          *)
(* Collection: a token names one moment's GPUs (Recounted: a GPU taken that *)
(* was not there at the recount has left, and cannot be found at its index  *)
(* again) and pairs each switch's report with its own chain (KeysOrdered:   *)
(* keys only get newer).                                                    *)
(*                                                                          *)
(* Appraisal: for any policy and any bundle, a verdict covers the enrolled  *)
(* inventory exactly (Walked and Apart: as many reports as are enrolled, no *)
(* identity twice), its fabric is signed from both ends and its GPUs'       *)
(* measurements are accounted for (Vouched, Halfway).                       *)
(***************************************************************************)
EXTENDS GpuCollateral, GpuCollect, GpuAppraise, FiniteSetTheorems, SequenceTheorems, TLAPS

HeldDevices == {d \in Devices : cache[d] # None}
HeldManifests == {m \in Manifests : cache[m] # None}

Typed ==
    /\ CollateralTypeOK
    /\ IsFiniteSet(HeldDevices) /\ IsFiniteSet(HeldManifests)
-----------------------------------------------------------------------------
\* A response of the CA has the shape of a response.
LEMMA GenuineTyped ==
    ASSUME clock \in 0..MaxClock, NEW c \in Certs, NEW o \in GenuineResponses(c)
    PROVE  o \in Responses
<1>1. PICK status \in {"good", "revoked", "unknown"}, this \in 0..clock, produced \in 0..clock,
           signer \in {Issuer[c]} \cup Delegates[Issuer[c]] :
        o = [kind |-> "ocsp", cert |-> c, status |-> status, this |-> this,
             next |-> this + StatusLife, produced |-> produced, signer |-> signer]
  BY DEF GenuineResponses
<1>2. signer \in Certs \cup {Stranger}
  BY <1>1, CollateralAssumption
<1>3. this \in Times /\ this + StatusLife \in Times /\ produced \in Times
  BY <1>1, CollateralAssumption DEF Times
<1> QED
  BY <1>1, <1>2, <1>3 DEF Responses

LEMMA TamperTyped ==
    ASSUME clock \in 0..MaxClock, NEW o \in Genuine \cup Forgeries PROVE o \in Objects
<1>1. clock \in Times /\ clock + StatusLife \in Times
  BY CollateralAssumption DEF Times
<1>2. CASE o \in Forgeries
  <2>1. CASE o \in {[kind |-> "garbage"]}
    BY <2>1 DEF Objects
  <2>2. CASE \E c \in Certs : o = [kind |-> "ocsp", cert |-> c, status |-> "good", this |-> clock,
             next |-> clock + StatusLife, produced |-> clock, signer |-> Stranger]
    BY <1>1, <2>2 DEF Objects, Responses
  <2>3. CASE \E c \in Certs : o = [kind |-> "crl", issuer |-> c, revoked |-> {}, this |-> clock,
             next |-> clock + StatusLife, signer |-> Stranger]
    BY <1>1, <2>3 DEF Objects, Lists
  <2> QED
    BY <1>2, <2>1, <2>2, <2>3 DEF Forgeries
<1>3. CASE o \in Genuine
  <2>1. PICK c \in Certs : o \in GenuineResponses(c) \cup GenuineLists(c)
    BY <1>3 DEF Genuine
  <2>2. CASE o \in GenuineResponses(c)
    BY <2>2, GenuineTyped DEF Objects
  <2>3. CASE o \in GenuineLists(c)
    <3>1. PICK revoked \in SUBSET {x \in Certs : revokedAt[x] # None}, this \in 0..clock :
            o = [kind |-> "crl", issuer |-> c, revoked |-> revoked, this |-> this,
                 next |-> this + StatusLife, signer |-> c]
      BY <2>3 DEF GenuineLists
    <3>2. this \in Times /\ this + StatusLife \in Times
      BY <3>1, CollateralAssumption DEF Times
    <3> QED
      BY <3>1, <3>2 DEF Objects, Lists
  <2> QED
    BY <2>1, <2>2, <2>3
<1> QED
  BY <1>2, <1>3

LEMMA TypedInit == CollateralInit => Typed
<1> SUFFICES ASSUME CollateralInit PROVE Typed
  OBVIOUS
<1>1. HeldDevices = {} /\ HeldManifests = {}
  BY DEF CollateralInit, HeldDevices, HeldManifests, Subjects
<1>2. /\ IsFiniteSet(HeldDevices) /\ Cardinality(HeldDevices) <= MAX_OBJECTS
      /\ IsFiniteSet(HeldManifests) /\ Cardinality(HeldManifests) <= MAX_MANIFESTS
  BY <1>1, FS_EmptySet, CollateralAssumption
<1>3. cache \in [Subjects -> (SUBSET Objects) \cup {None}]
  <2> DEFINE V == (SUBSET Objects) \cup {None}
  <2>1. None \in V
    OBVIOUS
  <2> HIDE DEF V
  <2>2. cache \in [Subjects -> V]
    BY <2>1 DEF CollateralInit
  <2> QED
    BY <2>2 DEF V
<1>4. /\ clock \in 0..MaxClock /\ now \in 0..MaxClock /\ asked \in 0..MaxClock
      /\ tampered \in 0..MaxTampered /\ revokedAt \in [Certs -> 0..MaxClock \cup {None}]
      /\ imports \in 0..MaxImports
  BY CollateralAssumption DEF CollateralInit
<1>5. /\ pc \in Stages /\ bundle \in Bundles \cup {<< >>} /\ devicesLeft \in Seq(Devices)
      /\ manifestsLeft \in SUBSET Manifests /\ target \in Subjects \cup {None}
      /\ output \in SUBSET Objects /\ fetched \in Seq(Responses) /\ imported \in SUBSET Objects
      /\ evidence \in Evidences \cup {None} /\ verdict \in 0..MaxClock \cup {None}
  BY DEF CollateralInit, Stages
<1> QED
  BY <1>2, <1>3, <1>4, <1>5 DEF Typed, CollateralTypeOK, HeldDevices, HeldManifests
-----------------------------------------------------------------------------
\* A new entry is one more than there was room for.
LEMMA StoreFits ==
    ASSUME Typed, NEW s \in Subjects, HasRoom(s), NEW value \in SUBSET Objects,
           cache' = [cache EXCEPT ![s] = value]
    PROVE  /\ cache' \in [Subjects -> (SUBSET Objects) \cup {None}]
           /\ IsFiniteSet(HeldDevices)' /\ IsFiniteSet(HeldManifests)'
           /\ (Cardinality({d \in Devices : cache[d] # None}) <= MAX_OBJECTS)'
           /\ (Cardinality({m \in Manifests : cache[m] # None}) <= MAX_MANIFESTS)'
<1>1. cache \in [Subjects -> (SUBSET Objects) \cup {None}]
  BY DEF Typed, CollateralTypeOK
<1>2. cache' \in [Subjects -> (SUBSET Objects) \cup {None}]
  BY <1>1
<1>3. /\ IsFiniteSet(HeldDevices) /\ Cardinality(HeldDevices) <= MAX_OBJECTS
      /\ IsFiniteSet(HeldManifests) /\ Cardinality(HeldManifests) <= MAX_MANIFESTS
  BY DEF Typed, CollateralTypeOK, HeldDevices, HeldManifests
<1>4. /\ Cardinality(HeldDevices) \in Nat /\ Cardinality(HeldManifests) \in Nat
      /\ MAX_OBJECTS \in Nat /\ MAX_MANIFESTS \in Nat
  BY <1>3, FS_CardinalityType, CollateralAssumption
<1>5. CASE s \in Devices
  <2>1. HeldManifests' = HeldManifests
    BY <1>1, <1>5, CollateralAssumption DEF HeldManifests, Subjects
  <2>2. HeldDevices' \subseteq HeldDevices \cup {s}
    BY <1>1, <1>5 DEF HeldDevices, Subjects
  <2>3. CASE s \in HeldDevices
    <3>1. HeldDevices' \subseteq HeldDevices
      BY <2>2, <2>3
    <3>2. IsFiniteSet(HeldDevices') /\ Cardinality(HeldDevices') <= Cardinality(HeldDevices)
      BY <1>3, <3>1, FS_Subset
    <3>3. Cardinality(HeldDevices') \in Nat
      BY <3>2, FS_CardinalityType
    <3>4. Cardinality(HeldDevices') <= MAX_OBJECTS
      BY <1>3, <1>4, <3>2, <3>3
    <3> QED
      BY <1>2, <1>3, <2>1, <3>2, <3>4 DEF HeldDevices, HeldManifests
  <2>4. CASE s \notin HeldDevices
    <3>1. /\ IsFiniteSet(HeldDevices \cup {s})
          /\ Cardinality(HeldDevices \cup {s}) = Cardinality(HeldDevices) + 1
      BY <1>3, <2>4, FS_AddElement
    <3>2. Cardinality(HeldDevices) < MAX_OBJECTS
      BY <1>5, <2>4 DEF HasRoom, HeldDevices
    <3>3. IsFiniteSet(HeldDevices') /\ Cardinality(HeldDevices') <= Cardinality(HeldDevices \cup {s})
      BY <2>2, <3>1, FS_Subset
    <3>4. Cardinality(HeldDevices') \in Nat
      BY <3>3, FS_CardinalityType
    <3>5. Cardinality(HeldDevices') <= MAX_OBJECTS
      BY <1>4, <3>1, <3>2, <3>3, <3>4
    <3> QED
      BY <1>2, <1>3, <2>1, <3>3, <3>5 DEF HeldDevices, HeldManifests
  <2> QED
    BY <2>3, <2>4
<1>6. CASE s \in Manifests
  <2>1. HeldDevices' = HeldDevices
    BY <1>1, <1>6, CollateralAssumption DEF HeldDevices, Subjects
  <2>2. HeldManifests' \subseteq HeldManifests \cup {s}
    BY <1>1, <1>6 DEF HeldManifests, Subjects
  <2>3. CASE s \in HeldManifests
    <3>1. HeldManifests' \subseteq HeldManifests
      BY <2>2, <2>3
    <3>2. IsFiniteSet(HeldManifests') /\ Cardinality(HeldManifests') <= Cardinality(HeldManifests)
      BY <1>3, <3>1, FS_Subset
    <3>3. Cardinality(HeldManifests') \in Nat
      BY <3>2, FS_CardinalityType
    <3>4. Cardinality(HeldManifests') <= MAX_MANIFESTS
      BY <1>3, <1>4, <3>2, <3>3
    <3> QED
      BY <1>2, <1>3, <2>1, <3>2, <3>4 DEF HeldDevices, HeldManifests
  <2>4. CASE s \notin HeldManifests
    <3>1. /\ IsFiniteSet(HeldManifests \cup {s})
          /\ Cardinality(HeldManifests \cup {s}) = Cardinality(HeldManifests) + 1
      BY <1>3, <2>4, FS_AddElement
    <3>2. Cardinality(HeldManifests) < MAX_MANIFESTS
      BY <1>6, <2>4, CollateralAssumption DEF HasRoom, HeldManifests
    <3>3. /\ IsFiniteSet(HeldManifests')
          /\ Cardinality(HeldManifests') <= Cardinality(HeldManifests \cup {s})
      BY <2>2, <3>1, FS_Subset
    <3>4. Cardinality(HeldManifests') \in Nat
      BY <3>3, FS_CardinalityType
    <3>5. Cardinality(HeldManifests') <= MAX_MANIFESTS
      BY <1>4, <3>1, <3>2, <3>3, <3>4
    <3> QED
      BY <1>2, <1>3, <2>1, <3>3, <3>5 DEF HeldDevices, HeldManifests
  <2> QED
    BY <2>3, <2>4
<1> QED
  BY <1>5, <1>6 DEF Subjects
-----------------------------------------------------------------------------
\* The parts of the type that belong to an acquisition.
AcquisitionTyped ==
    /\ pc \in Stages /\ now \in 0..MaxClock
    /\ bundle \in Bundles \cup {<< >>} /\ devicesLeft \in Seq(Devices)
    /\ manifestsLeft \in SUBSET Manifests
    /\ target \in Subjects \cup {None}
    /\ output \in SUBSET Objects /\ fetched \in Seq(Responses)
    /\ asked \in 0..MaxClock

CacheTyped ==
    /\ imports \in 0..MaxImports /\ imported \in SUBSET Objects
    /\ cache \in [Subjects -> (SUBSET Objects) \cup {None}]
    /\ IsFiniteSet(HeldDevices) /\ IsFiniteSet(HeldManifests)
    /\ Cardinality({d \in Devices : cache[d] # None}) <= MAX_OBJECTS
    /\ Cardinality({m \in Manifests : cache[m] # None}) <= MAX_MANIFESTS

OthersTyped ==
    /\ clock \in 0..MaxClock
    /\ revokedAt \in [Certs -> 0..MaxClock \cup {None}]
    /\ evidence \in Evidences \cup {None}
    /\ tampered \in 0..MaxTampered
    /\ verdict \in 0..MaxClock \cup {None}

LEMMA TypedParts == Typed <=> AcquisitionTyped /\ CacheTyped /\ OthersTyped
BY DEF Typed, CollateralTypeOK, AcquisitionTyped, CacheTyped, OthersTyped

LEMMA AcquisitionFrame == UNCHANGED acquisition /\ AcquisitionTyped => AcquisitionTyped'
BY DEF acquisition, AcquisitionTyped

LEMMA CacheFrame == UNCHANGED store /\ CacheTyped => CacheTyped'
BY DEF store, CacheTyped, HeldDevices, HeldManifests

LEMMA OthersFrame ==
    UNCHANGED <<clock, revokedAt, evidence, tampered, verdict>> /\ OthersTyped => OthersTyped'
BY DEF OthersTyped

LEMMA HaltTyped ==
    ASSUME AcquisitionTyped, NEW stage \in Stages, Halt(stage) PROVE AcquisitionTyped'
BY DEF AcquisitionTyped, Halt

LEMMA MergeTyped ==
    ASSUME AcquisitionTyped, NEW s \in Subjects, s \in Devices => devicesLeft # << >>,
           NEW objects \in SUBSET Objects, Merge(s, objects)
    PROVE  AcquisitionTyped'
<1>1. CASE Halt("rejected")
  BY <1>1, HaltTyped DEF Stages
<1>2. CASE ~Halt("rejected")
  <2>1. /\ pc' = "next" /\ output' = output \cup objects
        /\ devicesLeft' = IF s \in Devices THEN Tail(devicesLeft) ELSE devicesLeft
        /\ manifestsLeft' = IF s \in Devices THEN manifestsLeft \cup Selectors[s]
                            ELSE manifestsLeft \ {s}
        /\ target' = None /\ fetched' = << >> /\ UNCHANGED <<now, bundle, asked>>
    BY <1>2 DEF Merge
  <2>2. devicesLeft' \in Seq(Devices)
    BY <2>1 DEF AcquisitionTyped
  <2>3. manifestsLeft' \in SUBSET Manifests
    BY <2>1, CollateralAssumption DEF AcquisitionTyped
  <2>4. output' \in SUBSET Objects
    BY <2>1 DEF AcquisitionTyped
  <2> QED
    BY <2>1, <2>2, <2>3, <2>4 DEF AcquisitionTyped, Stages
<1> QED
  BY <1>1, <1>2

\* A fetch is for the subject whose turn it is, and ends with its path.
Targeted ==
    /\ pc # "idle" => bundle \in Bundles
    /\ pc \in {"fetch", "insert"} => target \in Subjects /\ Current(target)
    /\ pc = "fetch" => Len(fetched) < Len(Path[target])

LEMMA CurrentDevice ==
    ASSUME AcquisitionTyped, NEW s \in Devices, Current(s) PROVE devicesLeft # << >>
BY CollateralAssumption DEF Current, AcquisitionTyped

LEMMA PathTyped ==
    ASSUME NEW s \in Subjects
    PROVE  Path[s] \in Seq(Certs) /\ Len(Path[s]) \in Nat \ {0}
<1>1. Path[s] \in Seq(Certs) /\ Path[s] # << >>
  BY CollateralAssumption
<1> QED
  BY <1>1

LEMMA MergeTargeted ==
    ASSUME Targeted, pc # "idle", NEW s, NEW objects, Merge(s, objects) PROVE Targeted'
BY DEF Merge, Halt, Targeted

\* Storing merges what was stored, or stops.
LEMMA StoreTyped ==
    ASSUME Typed, Targeted, NEW s \in Subjects, Store(s)
    PROVE  AcquisitionTyped' /\ CacheTyped' /\ Targeted'
<1>1. AcquisitionTyped /\ CacheTyped
  BY TypedParts
<1>2. pc = "insert" /\ s = target /\ Current(s)
  BY DEF Store, Targeted
<1>3. Elements(fetched) \in SUBSET Objects /\ UNCHANGED <<imports, imported>>
  BY <1>1 DEF AcquisitionTyped, Elements, Objects, Store
<1>4. CASE HasRoom(s) /\ cache' = [cache EXCEPT ![s] = Elements(fetched)]
                      /\ Merge(s, Elements(fetched))
  <2>1. CacheTyped'
    BY <1>1, <1>3, <1>4, StoreFits DEF CacheTyped
  <2>2. s \in Devices => devicesLeft # << >>
    BY <1>1, <1>2, CurrentDevice
  <2>3. AcquisitionTyped'
    BY <1>1, <1>3, <1>4, <2>2, MergeTyped
  <2> QED
    BY <1>2, <1>4, <2>1, <2>3, MergeTargeted
<1>5. CASE Halt("rejected") /\ UNCHANGED cache
  <2>1. AcquisitionTyped'
    BY <1>1, <1>5, HaltTyped DEF Stages
  <2> QED
    BY <1>1, <1>2, <1>3, <1>5, <2>1, CacheFrame DEF Halt, Targeted, store
<1> QED
  BY <1>4, <1>5 DEF Store

\* An import changes one entry, and is refused when there are too many.
LEMMA ImportTyped ==
    ASSUME Typed, NEW s \in Subjects, NEW c, from_json(s, c) PROVE CacheTyped'
<1>1. CacheTyped /\ clock \in 0..MaxClock /\ imports < MaxImports /\ imports' = imports + 1
  BY TypedParts DEF from_json, OthersTyped
<1>2. PICK value \in (SUBSET Objects) \cup {None} : cache' = [cache EXCEPT ![s] = value]
  <2>1. CASE cache' = [cache EXCEPT ![s] = None] \/ cache' = [cache EXCEPT ![s] = {}]
    BY <2>1
  <2>2. CASE \E o \in Genuine \cup Forgeries :
               cache[s] # None /\ cache' = [cache EXCEPT ![s] = @ \cup {o}]
    <3>1. PICK o \in Genuine \cup Forgeries :
            cache[s] # None /\ cache' = [cache EXCEPT ![s] = @ \cup {o}]
      BY <2>2
    <3>2. cache[s] \cup {o} \in SUBSET Objects
      BY <1>1, <3>1, TamperTyped DEF CacheTyped
    <3> QED
      BY <3>1, <3>2
  <2> QED
    BY <2>1, <2>2 DEF from_json
<1>3. cache' \in [Subjects -> (SUBSET Objects) \cup {None}]
  BY <1>1, <1>2 DEF CacheTyped
<1>4. imported' \in SUBSET Objects
  <2>1. UNCHANGED imported \/ \E o \in Genuine \cup Forgeries : imported' = imported \cup {o}
    BY DEF from_json
  <2> QED
    BY <1>1, <2>1, TamperTyped DEF CacheTyped
<1>5. HeldDevices' \subseteq HeldDevices \cup {s} /\ HeldManifests' \subseteq HeldManifests \cup {s}
  BY <1>1, <1>2 DEF CacheTyped, HeldDevices, HeldManifests, Subjects
<1>6. IsFiniteSet(HeldDevices \cup {s}) /\ IsFiniteSet(HeldManifests \cup {s})
  BY <1>1, FS_AddElement DEF CacheTyped
<1>7. IsFiniteSet(HeldDevices') /\ IsFiniteSet(HeldManifests')
  BY <1>5, <1>6, FS_Subset
<1>8. imports' \in 0..MaxImports
  BY <1>1, CollateralAssumption DEF CacheTyped
<1>9. /\ Cardinality({d \in Devices : cache'[d] # None}) <= MAX_OBJECTS
      /\ Cardinality({m \in Manifests : cache'[m] # None}) <= MAX_MANIFESTS
  BY DEF from_json
<1> QED
  BY <1>3, <1>4, <1>7, <1>8, <1>9 DEF CacheTyped, HeldDevices, HeldManifests

LEMMA TypedStep == Typed /\ Targeted /\ [CollateralNext]_collateralVars => Typed' /\ Targeted'
<1> SUFFICES ASSUME Typed, Targeted, [CollateralNext]_collateralVars PROVE Typed' /\ Targeted'
  OBVIOUS
<1>1. AcquisitionTyped /\ CacheTyped /\ OthersTyped
  BY TypedParts
<1> DEFINE Goal == AcquisitionTyped /\ CacheTyped /\ OthersTyped /\ Targeted
<1> SUFFICES Goal'
  BY TypedParts DEF Typed, CollateralTypeOK, AcquisitionTyped, CacheTyped, OthersTyped
<1>2. ASSUME UNCHANGED acquisition PROVE AcquisitionTyped' /\ Targeted'
  BY <1>1, <1>2, AcquisitionFrame DEF acquisition, Targeted, Current
<1>3. CASE CollateralTick
  BY <1>1, <1>2, <1>3, CacheFrame, CollateralAssumption DEF CollateralTick, OthersTyped
<1>4. ASSUME NEW c \in Revocable, Revoke(c) PROVE Goal'
  <2>1. OthersTyped'
    BY <1>1, <1>4, CollateralAssumption DEF Revoke, OthersTyped
  <2> QED
    BY <1>1, <1>2, <1>4, <2>1, CacheFrame DEF Revoke
<1>5. ASSUME NEW b \in Bundles, acquire_for_bundle(b) PROVE Goal'
  <2>1. AcquisitionTyped' /\ Targeted'
    BY <1>1, <1>5, CollateralAssumption
    DEF acquire_for_bundle, AcquisitionTyped, OthersTyped, Stages, Targeted
  <2>2. OthersTyped'
    BY <1>1, <1>5, CollateralAssumption DEF acquire_for_bundle, OthersTyped
  <2> QED
    BY <1>1, <1>5, <2>1, <2>2, CacheFrame DEF acquire_for_bundle
<1>6. ASSUME NEW s \in Subjects, UseCached(s) PROVE Goal'
  <2>1. cache[s] \in SUBSET Objects
    BY <1>1, <1>6 DEF UseCached, CachedIsCurrent, CacheTyped
  <2>2. s \in Devices => devicesLeft # << >>
    BY <1>1, <1>6, CurrentDevice DEF UseCached
  <2>3. AcquisitionTyped'
    BY <1>1, <1>6, <2>1, <2>2, MergeTyped DEF UseCached
  <2> QED
    BY <1>1, <1>6, <2>3, MergeTargeted, CacheFrame, OthersFrame DEF UseCached
<1>7. ASSUME NEW s \in Subjects, BeginFetch(s) PROVE Goal'
  <2>1. AcquisitionTyped'
    BY <1>1, <1>7 DEF BeginFetch, AcquisitionTyped, OthersTyped, Stages
  <2>2. Targeted'
    BY <1>7, PathTyped DEF BeginFetch, Targeted, Current
  <2> QED
    BY <1>1, <1>7, <2>1, <2>2, CacheFrame, OthersFrame DEF BeginFetch
<1>8. ASSUME NEW s \in Subjects, Receive(s) PROVE Goal'
  <2> DEFINE c == Path[s][Len(fetched) + 1]
  <2>1. PICK o \in Answers(c) :
          IF check_ocsp(o, {}, clock)
          THEN /\ fetched' = Append(fetched, o) /\ asked' = clock
               /\ pc' = IF Len(fetched) + 1 = Len(Path[s]) THEN "insert" ELSE "fetch"
               /\ UNCHANGED <<now, bundle, devicesLeft, manifestsLeft, output, target>>
          ELSE Halt(IF Usable(o) THEN "rejected" ELSE "unanswered")
    BY <1>8 DEF Receive
  <2>2. CASE ~check_ocsp(o, {}, clock)
    <3>1. AcquisitionTyped'
      BY <1>1, <2>1, <2>2, HaltTyped DEF Stages
    <3> QED
      BY <1>1, <1>8, <2>1, <2>2, <3>1, CacheFrame, OthersFrame DEF Receive, Halt, Targeted
  <2>3. CASE check_ocsp(o, {}, clock)
    <3>0. s \in Subjects /\ s = target /\ pc = "fetch" /\ Len(fetched) < Len(Path[s])
      BY <1>8 DEF Receive, Targeted
    <3>1. o \in Responses
      <4>1. Len(fetched) \in Nat
        BY <1>1 DEF AcquisitionTyped
      <4>2. c \in Certs
        BY <3>0, <4>1, PathTyped
      <4> QED
        BY <1>1, <2>1, <4>2, GenuineTyped DEF OthersTyped, Answers
    <3>2. AcquisitionTyped'
      <4>1. fetched' \in Seq(Responses)
        BY <1>1, <2>1, <2>3, <3>1, SMTT(30) DEF AcquisitionTyped
      <4>2. pc' \in Stages /\ asked' \in 0..MaxClock
        BY <1>1, <2>1, <2>3 DEF OthersTyped, Stages
      <4> QED
        BY <1>1, <2>1, <2>3, <4>1, <4>2 DEF AcquisitionTyped
    <3>3. Targeted'
      <4>1. Len(fetched) \in Nat /\ Len(fetched') = Len(fetched) + 1
        BY <1>1, <2>1, <2>3, <3>1 DEF AcquisitionTyped
      <4> QED
        BY <2>1, <2>3, <3>0, <4>1, PathTyped DEF Targeted, Current
    <3> QED
      BY <1>1, <1>8, <3>2, <3>3, CacheFrame, OthersFrame DEF Receive
  <2> QED
    BY <2>2, <2>3
<1>9. ASSUME NEW s \in Subjects, Store(s) PROVE Goal'
  BY <1>1, <1>9, StoreTyped, OthersFrame DEF Store
<1>10. ASSUME NEW s \in Subjects, Expired(s) PROVE Goal'
  <2>1. AcquisitionTyped'
    BY <1>1, <1>10, HaltTyped DEF Expired, Stages
  <2> QED
    BY <1>1, <1>10, <2>1, CacheFrame, OthersFrame DEF Expired, Halt, Targeted
<1>11. CASE Unanswered
  <2>1. AcquisitionTyped'
    BY <1>1, <1>11, HaltTyped DEF Unanswered, Stages
  <2> QED
    BY <1>1, <1>11, <2>1, CacheFrame, OthersFrame DEF Unanswered, Halt, Targeted
<1>12. CASE Finish
  <2>1. AcquisitionTyped' /\ Targeted'
    BY <1>1, <1>12 DEF Finish, AcquisitionTyped, Stages, Targeted
  <2>2. evidence' \in Evidences \cup {None}
    <3>1. output \in SUBSET Objects
      BY <1>1 DEF AcquisitionTyped
    <3>2. bundle \in Bundles
      BY <1>12 DEF Finish, Targeted
    <3> QED
      BY <1>12, <3>1, <3>2 DEF Finish, Evidences
  <2> QED
    BY <1>1, <1>12, <2>1, <2>2, CacheFrame DEF Finish, OthersTyped
<1>13. CASE Tamper
  <2>1. evidence' \in Evidences \cup {None}
    <3>1. evidence \in Evidences
      BY <1>1, <1>13 DEF Tamper, OthersTyped
    <3>2. \A o \in Genuine \cup Forgeries : o \in Objects
      BY <1>1, TamperTyped DEF OthersTyped
    <3>3. PICK objects \in SUBSET Objects : evidence' = [evidence EXCEPT !.objects = objects]
      BY <1>13, <3>1, <3>2 DEF Tamper, Evidences
    <3> QED
      BY <3>1, <3>3 DEF Evidences
  <2>2. OthersTyped'
    BY <1>1, <1>13, <2>1, CollateralAssumption DEF Tamper, OthersTyped
  <2> QED
    BY <1>1, <1>2, <1>13, <2>2, CacheFrame DEF Tamper
<1>14. CASE VerifyStatus
  BY <1>1, <1>2, <1>14, CacheFrame DEF VerifyStatus, OthersTyped
<1>15. CASE UNCHANGED collateralVars
  BY <1>1, <1>2, <1>15, CacheFrame, OthersFrame DEF collateralVars
<1>16. ASSUME NEW i \in Imports, from_json(i[1], i[2]) PROVE Goal'
  <2>1. i[1] \in Subjects
    BY CollateralAssumption
  <2>2. AcquisitionTyped' /\ Targeted'
    BY <1>16, CollateralAssumption DEF from_json, AcquisitionTyped, Stages, Targeted
  <2>3. OthersTyped'
    BY <1>1, <1>16, CollateralAssumption DEF from_json, OthersTyped
  <2> QED
    BY <1>16, <2>1, <2>2, <2>3, ImportTyped
<1> QED
  BY <1>3, <1>4, <1>5, <1>6, <1>7, <1>8, <1>9, <1>10, <1>11, <1>12, <1>13, <1>14, <1>15, <1>16
  DEF CollateralNext
-----------------------------------------------------------------------------
(* What a vendor signature means *)

\* A status object of the CA: not made before its time, valid for StatusLife, and
\* a certificate it does not call revoked had not been revoked before thisUpdate.
Stated(o) ==
    /\ o.this \in Nat /\ o.this <= clock /\ o.next = o.this + StatusLife
    /\ o.kind = "ocsp" /\ o.status = "good" => TruthfullyGood(o.cert, o.this)
    /\ o.kind = "crl" =>
          \A c \in Certs : Issuer[c] = o.issuer /\ c \notin o.revoked => TruthfullyGood(c, o.this)

Believable(o) == o.kind = "garbage" \/ o.signer = Stranger \/ Stated(o)

\* How the CA's world moves: time passes, revocations are made now and stay.
WorldStep ==
    /\ clock \in Nat /\ clock' \in Nat /\ clock <= clock'
    /\ \A c \in Certs : \/ revokedAt'[c] = revokedAt[c]
                        \/ revokedAt[c] = None /\ revokedAt'[c] = clock

LEMMA WorldMoves == Typed /\ [CollateralNext]_collateralVars => WorldStep
<1> SUFFICES ASSUME Typed, [CollateralNext]_collateralVars PROVE WorldStep
  OBVIOUS
<1>1. clock \in Nat /\ revokedAt \in [Certs -> 0..MaxClock \cup {None}]
  BY CollateralAssumption DEF Typed, CollateralTypeOK
<1>2. CASE CollateralTick
  BY <1>1, <1>2 DEF CollateralTick, WorldStep
<1>3. CASE \E c \in Revocable : Revoke(c)
  BY <1>1, <1>3, CollateralAssumption DEF Revoke, WorldStep
<1>4. CASE UNCHANGED <<clock, revokedAt>>
  BY <1>1, <1>4 DEF WorldStep
<1> QED
  BY <1>2, <1>3, <1>4
  DEF CollateralNext, collateralVars, from_json, acquire_for_bundle, UseCached, BeginFetch, Receive,
      Store, Expired, Unanswered, Finish, Tamper, VerifyStatus

\* A revocation is never dated before a status that has already been stated.
LEMMA StatedStays ==
    ASSUME WorldStep, NEW o, Stated(o), o.kind = "ocsp" => o.cert \in Certs
    PROVE  Stated(o)'
<1>1. ASSUME NEW c \in Certs, TruthfullyGood(c, o.this) PROVE TruthfullyGood(c, o.this)'
  BY <1>1 DEF WorldStep, Stated, TruthfullyGood
<1>2. o.this <= clock'
  BY DEF WorldStep, Stated
<1> QED
  BY <1>1, <1>2 DEF Stated

LEMMA GenuineIsStated ==
    ASSUME clock \in Nat, NEW c \in Certs, NEW o \in GenuineResponses(c) \cup GenuineLists(c)
    PROVE  Stated(o)
<1>1. CASE o \in GenuineResponses(c)
  <2>1. PICK status \in {"good", "revoked", "unknown"}, this \in 0..clock, produced \in 0..clock,
           signer \in {Issuer[c]} \cup Delegates[Issuer[c]] :
        o = [kind |-> "ocsp", cert |-> c, status |-> status, this |-> this,
             next |-> this + StatusLife, produced |-> produced, signer |-> signer]
    BY <1>1 DEF GenuineResponses
  <2>2. o.status = "good" => TruthfullyGood(c, o.this)
    BY <1>1 DEF GenuineResponses
  <2> QED
    BY <2>1, <2>2 DEF Stated
<1>2. CASE o \in GenuineLists(c)
  <2>1. PICK revoked \in SUBSET {x \in Certs : revokedAt[x] # None}, this \in 0..clock :
            o = [kind |-> "crl", issuer |-> c, revoked |-> revoked, this |-> this,
                 next |-> this + StatusLife, signer |-> c]
    BY <1>2 DEF GenuineLists
  <2>2. \A x \in Certs : Issuer[x] = c /\ x \notin o.revoked => TruthfullyGood(x, o.this)
    BY <1>2 DEF GenuineLists
  <2> QED
    BY <2>1, <2>2 DEF Stated
<1> QED
  BY <1>1, <1>2

LEMMA TamperBelievable ==
    ASSUME clock \in Nat, NEW o \in Genuine \cup Forgeries PROVE Believable(o)
<1>1. CASE o \in Genuine
  BY <1>1, GenuineIsStated DEF Genuine, Believable
<1>2. CASE o \in Forgeries
  BY <1>2 DEF Forgeries, Believable
<1> QED
  BY <1>1, <1>2

\* The responder's own standing needs no CRL.
Direct(o) == o.signer = Issuer[o.cert] \/ o.signer \in NoCheck

\* What fetch_chain brings for a subject: about its path, by such a responder.
OwnFor(o, s) == o \in Responses /\ o.cert \in Elements(Path[s]) /\ Direct(o)

\* Whatever is kept, gathered or shown is the CA's, or visibly is not; and what
\* was not imported is about the certificates of the path it is kept for.
CacheSourced ==
    \A s \in Subjects : cache[s] # None =>
        \A o \in cache[s] : Believable(o) /\ (o \notin imported => OwnFor(o, s))

GatheredSourced ==
    /\ \A o \in output : Believable(o)
    /\ \A o \in Elements(fetched) : Stated(o) /\ OwnFor(o, target)

EvidenceSourced == evidence # None => \A o \in evidence.objects : Believable(o)

Sourced == CacheSourced /\ GatheredSourced /\ EvidenceSourced

LEMMA SourcedInit == CollateralInit => Sourced
BY DEF CollateralInit, Sourced, CacheSourced, GatheredSourced, EvidenceSourced, Elements

\* Objects keep their meaning while the world moves.
LEMMA ResponsesStay ==
    ASSUME WorldStep, NEW o \in Responses, Stated(o) PROVE Stated(o)'
BY StatedStays DEF Responses

LEMMA ObjectsStay ==
    ASSUME WorldStep, NEW o \in Objects, Believable(o) PROVE Believable(o)'
<1>1. CASE Stated(o)
  <2>1. CASE o \in Responses
    BY <1>1, <2>1, ResponsesStay DEF Believable
  <2>2. CASE o \in Lists
    BY <1>1, <2>2, StatedStays DEF Lists, Believable
  <2>3. CASE o \in [kind : {"garbage"}]
    BY <2>3 DEF Believable
  <2> QED
    BY <2>1, <2>2, <2>3 DEF Objects
<1>2. CASE o.kind = "garbage" \/ o.signer = Stranger
  BY <1>2 DEF Believable
<1> QED
  BY <1>1, <1>2 DEF Believable

LEMMA CacheSourcedFrame ==
    ASSUME Typed, WorldStep, CacheSourced, UNCHANGED <<cache, imported>> PROVE CacheSourced'
<1>1. ASSUME NEW s \in Subjects, cache[s] # None, NEW o \in cache[s]
      PROVE  Believable(o)' /\ (o \notin imported => OwnFor(o, s))
  <2>1. o \in Objects
    BY <1>1 DEF Typed, CollateralTypeOK
  <2> QED
    BY <1>1, <2>1, ObjectsStay DEF CacheSourced
<1> QED
  BY <1>1 DEF CacheSourced, OwnFor, Direct

LEMMA OutputStays ==
    ASSUME Typed, WorldStep, GatheredSourced PROVE \A o \in output : Believable(o)'
BY ObjectsStay DEF Typed, CollateralTypeOK, GatheredSourced

LEMMA GatheredSourcedFrame ==
    ASSUME Typed, WorldStep, GatheredSourced, UNCHANGED <<output, target, fetched>>
    PROVE  GatheredSourced'
<1>1. \A o \in output : Believable(o)'
  BY OutputStays
<1>2. ASSUME NEW o \in Elements(fetched) PROVE Stated(o)'
  <2>1. o \in Responses
    BY <1>2 DEF Typed, CollateralTypeOK, Elements
  <2> QED
    BY <1>2, <2>1, ResponsesStay DEF GatheredSourced
<1> QED
  BY <1>1, <1>2 DEF GatheredSourced, Elements, OwnFor, Direct

LEMMA EvidenceSourcedFrame ==
    ASSUME Typed, WorldStep, EvidenceSourced, UNCHANGED evidence PROVE EvidenceSourced'
<1>1. ASSUME evidence # None, NEW o \in evidence.objects PROVE Believable(o)'
  <2>1. o \in Objects
    BY <1>1 DEF Typed, CollateralTypeOK, Evidences
  <2> QED
    BY <1>1, <2>1, ObjectsStay DEF EvidenceSourced
<1> QED
  BY <1>1 DEF EvidenceSourced

\* Merging adds objects of known origin.
LEMMA MergeSourced ==
    ASSUME Typed, WorldStep, GatheredSourced, NEW s, NEW objects \in SUBSET Objects,
           \A o \in objects : Believable(o), Merge(s, objects)
    PROVE  GatheredSourced'
<1>1. CASE Halt("rejected")
  BY <1>1, GatheredSourcedFrame DEF Halt
<1>2. CASE output' = output \cup objects /\ fetched' = << >>
  <2>1. \A o \in objects : Believable(o)'
    BY ObjectsStay
  <2>2. \A o \in output' : Believable(o)'
    BY <1>2, <2>1, OutputStays
  <2>3. Elements(fetched)' = {}
    BY <1>2 DEF Elements
  <2> QED
    BY <2>2, <2>3 DEF GatheredSourced
<1> QED
  BY <1>1, <1>2 DEF Merge

\* A program that reads a cache may find in it what anybody could have made.
LEMMA ImportSourced ==
    ASSUME Typed, CacheSourced, NEW s \in Subjects, NEW c, from_json(s, c) PROVE Sourced'
<1>0. imported \subseteq imported' /\ UNCHANGED <<clock, revokedAt>>
  BY DEF from_json
<1>1. /\ cache \in [Subjects -> (SUBSET Objects) \cup {None}] /\ clock \in Nat
      /\ imported \subseteq imported' /\ UNCHANGED <<clock, revokedAt>>
  <2>1. cache \in [Subjects -> (SUBSET Objects) \cup {None}] /\ clock \in 0 .. MaxClock
    BY DEF Typed, CollateralTypeOK
  <2>2. clock \in Nat
    BY <2>1, CollateralAssumption
  <2> QED
    BY <1>0, <2>1, <2>2
<1>2. ASSUME NEW u \in Subjects, cache'[u] # None, NEW o \in cache'[u]
      PROVE  Believable(o) /\ (o \notin imported' => OwnFor(o, u))
  <2>1. \/ cache[u] # None /\ o \in cache[u]
        \/ o \in Genuine \cup Forgeries /\ o \in imported'
    <3>1. CASE cache' = [cache EXCEPT ![s] = None] \/ cache' = [cache EXCEPT ![s] = {}]
      BY <1>1, <1>2, <3>1
    <3>2. CASE \E x \in Genuine \cup Forgeries :
                 /\ cache[s] # None
                 /\ cache' = [cache EXCEPT ![s] = @ \cup {x}] /\ imported' = imported \cup {x}
      BY <1>1, <1>2, <3>2
    <3> QED
      BY <3>1, <3>2 DEF from_json
  <2>2. CASE cache[u] # None /\ o \in cache[u]
    BY <1>1, <2>2 DEF CacheSourced
  <2>3. CASE o \in Genuine \cup Forgeries /\ o \in imported'
    BY <1>1, <2>3, TamperBelievable
  <2> QED
    BY <2>1, <2>2, <2>3
<1>3. CacheSourced'
  BY <1>1, <1>2 DEF CacheSourced, Believable, Stated, TruthfullyGood, OwnFor, Direct
<1> QED
  BY <1>3 DEF from_json, Sourced, GatheredSourced, EvidenceSourced, Elements

LEMMA SourcedStep ==
    Typed /\ Targeted /\ Sourced /\ [CollateralNext]_collateralVars => Sourced'
<1> SUFFICES ASSUME Typed, Targeted, Sourced, [CollateralNext]_collateralVars PROVE Sourced'
  OBVIOUS
<1>1. WorldStep
  BY WorldMoves
<1>2. CacheSourced /\ GatheredSourced /\ EvidenceSourced
  BY DEF Sourced
<1>3. clock \in 0..MaxClock /\ clock \in Nat /\ fetched \in Seq(Responses)
  BY CollateralAssumption DEF Typed, CollateralTypeOK
<1>4. ASSUME UNCHANGED <<cache, imported, output, target, fetched, evidence>> PROVE Sourced'
  BY <1>1, <1>2, <1>4, CacheSourcedFrame, GatheredSourcedFrame, EvidenceSourcedFrame DEF Sourced
<1>5. ASSUME NEW b \in Bundles, acquire_for_bundle(b) PROVE Sourced'
  BY <1>1, <1>2, <1>5, CacheSourcedFrame
  DEF acquire_for_bundle, store, Sourced, GatheredSourced, EvidenceSourced, Elements
<1>6. ASSUME NEW s \in Subjects, UseCached(s) PROVE Sourced'
  <2>1. cache[s] # None /\ cache[s] \in SUBSET Objects
    BY <1>6 DEF UseCached, CachedIsCurrent, Typed, CollateralTypeOK
  <2>2. \A o \in cache[s] : Believable(o)
    BY <1>2, <2>1 DEF CacheSourced
  <2>3. GatheredSourced'
    BY <1>1, <1>2, <1>6, <2>1, <2>2, MergeSourced DEF UseCached
  <2> QED
    BY <1>1, <1>2, <1>6, <2>3, CacheSourcedFrame, EvidenceSourcedFrame DEF UseCached, store, Sourced
<1>7. ASSUME NEW s \in Subjects, BeginFetch(s) PROVE Sourced'
  <2>1. \A o \in output : Believable(o)'
    BY <1>1, <1>2, OutputStays
  <2>2. GatheredSourced'
    BY <1>7, <2>1 DEF BeginFetch, GatheredSourced, Elements
  <2> QED
    BY <1>1, <1>2, <1>7, <2>2, CacheSourcedFrame, EvidenceSourcedFrame DEF BeginFetch, store, Sourced
<1>8. ASSUME NEW s \in Subjects, Receive(s) PROVE Sourced'
  <2> DEFINE c == Path[s][Len(fetched) + 1]
  <2>1. PICK o \in Answers(c) :
          \/ /\ check_ocsp(o, {}, clock)
             /\ fetched' = Append(fetched, o) /\ UNCHANGED <<output, target>>
          \/ UNCHANGED <<output, target, fetched>>
    BY <1>8 DEF Receive, Halt
  <2>2. s = target /\ Len(fetched) \in Nat /\ Len(fetched) < Len(Path[s])
    BY <1>3, <1>8 DEF Receive, Targeted
  <2>3. c \in Certs /\ c \in Elements(Path[s])
    BY <2>2, PathTyped DEF Elements
  <2>4. o \in GenuineResponses(c)
    BY <2>1 DEF Answers
  <2>5. o \in Responses /\ Stated(o) /\ o.cert = c
    <3>1. o.cert = c
      BY <2>4 DEF GenuineResponses
    <3> QED
      BY <1>3, <2>3, <2>4, <3>1, GenuineTyped, GenuineIsStated
  <2>6. CASE UNCHANGED <<output, target, fetched>>
    BY <1>4, <1>8, <2>6 DEF Receive, store
  <2>7. CASE /\ check_ocsp(o, {}, clock)
             /\ fetched' = Append(fetched, o) /\ UNCHANGED <<output, target>>
    <3>1. \A x \in output : Believable(x)'
      BY <1>1, <1>2, OutputStays
    <3>2. ASSUME NEW x \in Elements(fetched)' PROVE Stated(x)' /\ OwnFor(x, target)
      <4>1. CASE x = o
        <5>1. Direct(o)
          BY <2>7 DEF check_ocsp, Authorised, Direct
        <5> QED
          BY <1>1, <2>2, <2>3, <2>5, <4>1, <5>1, ResponsesStay DEF OwnFor
      <4>2. CASE x \in Elements(fetched)
        <5>1. x \in Responses
          BY <1>3, <4>2 DEF Elements
        <5> QED
          BY <1>1, <1>2, <4>2, <5>1, ResponsesStay DEF GatheredSourced
      <4>3. x = o \/ x \in Elements(fetched)
        <5>1. PICK i \in 1..Len(fetched') : x = fetched'[i]
          BY <3>2 DEF Elements
        <5> QED
          BY <1>3, <2>5, <2>7, <5>1 DEF Elements
      <4> QED
        BY <4>1, <4>2, <4>3
    <3>3. GatheredSourced'
      BY <2>7, <3>1, <3>2 DEF GatheredSourced, OwnFor, Direct
    <3> QED
      BY <1>1, <1>2, <1>8, <3>3, CacheSourcedFrame, EvidenceSourcedFrame DEF Receive, store, Sourced
  <2> QED
    BY <2>1, <2>6, <2>7
<1>9. ASSUME NEW s \in Subjects, Store(s) PROVE Sourced'
  <2>1. s = target /\ Elements(fetched) \in SUBSET Objects /\ UNCHANGED <<imported, evidence>>
    BY <1>3, <1>9 DEF Store, Elements, Objects
  <2>2. \A o \in Elements(fetched) : Believable(o) /\ OwnFor(o, s)
    BY <1>2, <2>1 DEF GatheredSourced, Believable
  <2>3. CASE Halt("rejected") /\ UNCHANGED cache
    BY <1>4, <2>1, <2>3 DEF Halt
  <2>4. CASE cache' = [cache EXCEPT ![s] = Elements(fetched)] /\ Merge(s, Elements(fetched))
    <3>1. GatheredSourced'
      BY <1>1, <1>2, <2>1, <2>2, <2>4, MergeSourced
    <3>2. CacheSourced'
      <4>1. ASSUME NEW u \in Subjects, cache'[u] # None, NEW o \in cache'[u]
            PROVE  Believable(o)' /\ (o \notin imported => OwnFor(o, u))
        <5>1. o \in Objects /\ Believable(o) /\ (o \notin imported => OwnFor(o, u))
          <6>1. CASE u = s
            <7>1. cache'[u] = Elements(fetched)
              BY <2>4, <6>1 DEF Typed, CollateralTypeOK
            <7> QED
              BY <2>1, <2>2, <4>1, <6>1, <7>1
          <6>2. CASE u # s
            <7>1. cache'[u] = cache[u] /\ cache[u] \in (SUBSET Objects) \cup {None}
              BY <2>4, <6>2 DEF Typed, CollateralTypeOK
            <7> QED
              BY <1>2, <4>1, <7>1 DEF CacheSourced
          <6> QED
            BY <6>1, <6>2
        <5> QED
          BY <1>1, <5>1, ObjectsStay
      <4> QED
        BY <2>1, <4>1 DEF CacheSourced, OwnFor, Direct
    <3> QED
      BY <1>1, <1>2, <2>1, <3>1, <3>2, EvidenceSourcedFrame DEF Sourced
  <2> QED
    BY <1>9, <2>3, <2>4 DEF Store
<1>10. CASE Finish
  <2>1. \A o \in output : Believable(o)'
    BY <1>1, <1>2, OutputStays
  <2>2. EvidenceSourced'
    BY <1>10, <2>1 DEF Finish, EvidenceSourced
  <2> QED
    BY <1>1, <1>2, <1>10, <2>2, CacheSourcedFrame, GatheredSourcedFrame DEF Finish, store, Sourced
<1>11. CASE Tamper
  <2>1. evidence \in Evidences /\ UNCHANGED <<clock, revokedAt>>
    BY <1>11 DEF Tamper, Typed, CollateralTypeOK
  <2>2. \A o \in evidence'.objects : o \in evidence.objects \/ o \in Genuine \cup Forgeries
    BY <1>11, <2>1 DEF Tamper, Evidences
  <2>3. \A o \in evidence'.objects : Believable(o)
    BY <1>2, <1>3, <1>11, <2>2, TamperBelievable DEF Tamper, EvidenceSourced
  <2>4. EvidenceSourced'
    BY <2>1, <2>3 DEF EvidenceSourced, Believable, Stated, TruthfullyGood
  <2> QED
    BY <1>1, <1>2, <1>11, <2>4, CacheSourcedFrame, GatheredSourcedFrame
    DEF Tamper, acquisition, store, Sourced
<1>12. ASSUME NEW i \in Imports, from_json(i[1], i[2]) PROVE Sourced'
  <2>1. i[1] \in Subjects
    BY CollateralAssumption
  <2> QED
    BY <1>2, <1>12, <2>1, ImportSourced
<1> QED
  BY <1>4, <1>5, <1>6, <1>7, <1>8, <1>9, <1>10, <1>11, <1>12
  DEF CollateralNext, collateralVars, acquisition, store, CollateralTick, Revoke, Expired, Unanswered,
      Halt, VerifyStatus
-----------------------------------------------------------------------------
(* What a verdict and an acquisition rest on *)

\* A verdict stands for the evidence shown, at the moment it was reached.
Judged ==
    /\ pc \in {"next", "fetch", "insert"} => evidence = None
    /\ verdict # None => evidence # None /\ StatusVerified(evidence, verdict)

\* A subject's certificates all have a status among what was gathered.
Covered(s) ==
    /\ PathValid(s, now)
    /\ \A c \in Elements(Path[s]) : \E o \in output : Concerns(o, c)

Gathered ==
    pc \in {"next", "fetch", "insert", "done"} =>
        /\ Cardinality(output) <= MAX_OBJECTS
        /\ \A o \in output \ imported : o \in Responses /\ check_ocsp(o, {}, now)
        /\ \A d \in Elements(bundle) :
              \/ d \in Elements(devicesLeft)
              \/ /\ Covered(d)
                 /\ \A m \in Selectors[d] : m \in manifestsLeft \/ Covered(m)
        /\ pc = "done" => devicesLeft = << >> /\ manifestsLeft = {}

LEMMA JudgedStep ==
    Typed /\ Judged /\ [CollateralNext]_collateralVars => Judged'
<1> SUFFICES ASSUME Typed, Judged, [CollateralNext]_collateralVars PROVE Judged'
  OBVIOUS
<1>1. ASSUME UNCHANGED <<evidence, verdict>>,
             pc' \in {"next", "fetch", "insert"} => pc \in {"next", "fetch", "insert"}
      PROVE  Judged'
  BY <1>1 DEF Judged, StatusVerified
<1>2. CASE \E b \in Bundles : acquire_for_bundle(b)
  BY <1>2 DEF acquire_for_bundle, Judged
<1>3. CASE \E s \in Subjects :
             UseCached(s) \/ BeginFetch(s) \/ Receive(s) \/ Store(s) \/ Expired(s)
  BY <1>1, <1>3 DEF UseCached, BeginFetch, Receive, Store, Expired, Merge, Halt
<1>4. CASE Finish
  <2>1. evidence = None /\ verdict = None
    BY <1>4 DEF Finish, Judged
  <2> QED
    BY <1>4, <2>1 DEF Finish, Judged
<1>5. CASE Tamper
  BY <1>5 DEF Tamper, acquisition, Judged
<1>6. CASE VerifyStatus
  BY <1>6 DEF VerifyStatus, acquisition, Judged, StatusVerified
<1>7. CASE Unanswered
  BY <1>1, <1>7 DEF Unanswered, Halt
<1>8. CASE CollateralTick \/ (\E c \in Revocable : Revoke(c)) \/ UNCHANGED collateralVars
  BY <1>1, <1>8 DEF CollateralTick, Revoke, collateralVars, acquisition
<1>9. CASE \E i \in Imports : from_json(i[1], i[2])
  BY <1>9 DEF from_json, Judged
<1> QED
  BY <1>2, <1>3, <1>4, <1>5, <1>6, <1>7, <1>8, <1>9 DEF CollateralNext

\* Of what passes check_chain, a response that was fetched for the path passes
\* on its own, and every certificate of the path has a status.
LEMMA ChainOfResponses ==
    ASSUME NEW s \in Subjects, NEW objects, NEW t,
           \A o \in objects \ imported : OwnFor(o, s), check_chain(s, objects, t)
    PROVE  /\ PathValid(s, t)
           /\ \A o \in objects \ imported : o \in Responses /\ check_ocsp(o, {}, t)
           /\ \A c \in Elements(Path[s]) : \E o \in objects : Concerns(o, c)
<1>1. \A c \in Elements(Path[s]) : StatusOf(c, objects, t)
  BY DEF check_chain, Elements
<1>2. \A c \in Elements(Path[s]) : \E o \in objects : Concerns(o, c)
  BY <1>1 DEF StatusOf, Concerns, ResponsesIn, ListsIn
<1>3. ASSUME NEW o \in objects \ imported PROVE o \in Responses /\ check_ocsp(o, {}, t)
  <2>1. o \in Responses /\ o.cert \in Elements(Path[s]) /\ Direct(o)
    BY <1>3 DEF OwnFor
  <2>2. o \in ResponsesIn(objects)
    BY <2>1 DEF ResponsesIn, Responses
  <2>3. check_ocsp(o, ListsIn(objects), t)
    BY <1>1, <2>1, <2>2 DEF StatusOf
  <2>4. Authorised(o, {}, t)
    BY <2>1, <2>3 DEF check_ocsp, Authorised, Direct
  <2> QED
    BY <2>1, <2>3, <2>4 DEF check_ocsp
<1> QED
  BY <1>2, <1>3 DEF check_chain

LEMMA MergeGathered ==
    ASSUME Typed, Gathered, pc \in {"next", "insert"}, NEW s \in Subjects, Current(s),
           NEW objects, \A o \in objects \ imported : OwnFor(o, s),
           check_chain(s, objects, now), Merge(s, objects), UNCHANGED imported
    PROVE  Gathered'
<1>1. CASE Halt("rejected")
  BY <1>1 DEF Halt, Gathered
<1>2. CASE ~Halt("rejected")
  <2>1. /\ Cardinality(output \cup objects) <= MAX_OBJECTS
        /\ pc' = "next" /\ output' = output \cup objects
        /\ devicesLeft' = IF s \in Devices THEN Tail(devicesLeft) ELSE devicesLeft
        /\ manifestsLeft' = IF s \in Devices THEN manifestsLeft \cup Selectors[s]
                            ELSE manifestsLeft \ {s}
        /\ UNCHANGED <<now, bundle>>
    BY <1>2 DEF Merge
  <2>2. /\ PathValid(s, now)
        /\ \A o \in objects \ imported : o \in Responses /\ check_ocsp(o, {}, now)
        /\ \A c \in Elements(Path[s]) : \E o \in objects : Concerns(o, c)
    BY ChainOfResponses
  <2>3. Covered(s)' /\ \A u : Covered(u) => Covered(u)'
    BY <2>1, <2>2 DEF Covered, Concerns, PathValid, check_certificate
  <2>4. \A o \in output' \ imported' : o \in Responses /\ check_ocsp(o, {}, now')
    BY <2>1, <2>2 DEF Gathered
  <2>5. ASSUME NEW d \in Elements(bundle)
        PROVE  \/ d \in Elements(devicesLeft')
               \/ /\ Covered(d)'
                  /\ \A m \in Selectors[d] : m \in manifestsLeft' \/ Covered(m)'
    <3>1. \/ d \in Elements(devicesLeft)
          \/ Covered(d) /\ \A m \in Selectors[d] : m \in manifestsLeft \/ Covered(m)
      BY <2>5 DEF Gathered
    <3>2. devicesLeft \in Seq(Devices) /\ manifestsLeft \in SUBSET Manifests
      BY DEF Typed, CollateralTypeOK
    <3>3. CASE s \in Devices
      <4>1. devicesLeft # << >> /\ s = Head(devicesLeft)
        BY <3>2, <3>3, CollateralAssumption DEF Current
      <4>2. CASE d = s
        BY <2>1, <2>3, <3>3, <4>2
      <4>3. CASE d # s /\ d \in Elements(devicesLeft)
        <5>1. PICK i \in 1..Len(devicesLeft) : d = devicesLeft[i]
          BY <4>3 DEF Elements
        <5>2. i # 1
          BY <3>2, <4>1, <4>3, <5>1
        <5>3. i - 1 \in 1..Len(Tail(devicesLeft)) /\ d = Tail(devicesLeft)[i - 1]
          BY <3>2, <4>1, <5>1, <5>2
        <5> QED
          BY <2>1, <3>3, <5>3 DEF Elements
      <4>4. CASE d \notin Elements(devicesLeft)
        BY <2>1, <2>3, <3>1, <3>3, <4>4
      <4> QED
        BY <4>2, <4>3, <4>4
    <3>4. CASE s \notin Devices
      BY <2>1, <2>3, <3>1, <3>4
    <3> QED
      BY <3>3, <3>4
  <2> QED
    BY <2>1, <2>4, <2>5 DEF Gathered
<1> QED
  BY <1>1, <1>2

LEMMA GatheredStep ==
    Typed /\ Targeted /\ Sourced /\ Gathered /\ [CollateralNext]_collateralVars => Gathered'
<1> SUFFICES ASSUME Typed, Targeted, Sourced, Gathered, [CollateralNext]_collateralVars
             PROVE  Gathered'
  OBVIOUS
<1>1. ASSUME UNCHANGED <<imported, now, bundle, devicesLeft, manifestsLeft, output>>,
             pc' \in {"next", "fetch", "insert"} => pc \in {"next", "fetch", "insert"},
             pc' = "done" => pc = "done"
      PROVE  Gathered'
  BY <1>1 DEF Gathered, Covered, Concerns, PathValid, check_certificate
<1>2. ASSUME NEW b \in Bundles, acquire_for_bundle(b) PROVE Gathered'
  <2>1. Cardinality({}) <= MAX_OBJECTS
    BY FS_EmptySet, CollateralAssumption
  <2> QED
    BY <1>2, <2>1 DEF acquire_for_bundle, Gathered
<1>3. ASSUME NEW s \in Subjects, UseCached(s) PROVE Gathered'
  <2>1. cache[s] # None /\ check_chain(s, cache[s], now)
    BY <1>3 DEF UseCached, CachedIsCurrent
  <2>2. \A o \in cache[s] \ imported : OwnFor(o, s)
    BY <2>1 DEF Sourced, CacheSourced
  <2> QED
    BY <1>3, <2>1, <2>2, MergeGathered DEF UseCached, store
<1>4. ASSUME NEW s \in Subjects, Store(s) PROVE Gathered'
  <2>1. s = target /\ pc = "insert" /\ Current(s) /\ UNCHANGED imported
    BY <1>4 DEF Store, Targeted
  <2>2. CASE Halt("rejected")
    BY <1>1, <2>1, <2>2 DEF Halt
  <2>3. CASE check_chain(s, Elements(fetched), now) /\ Merge(s, Elements(fetched))
    <3>1. \A o \in Elements(fetched) : OwnFor(o, s)
      BY <2>1 DEF Sourced, GatheredSourced
    <3> QED
      BY <2>1, <2>3, <3>1, MergeGathered
  <2> QED
    BY <1>4, <2>2, <2>3 DEF Store
<1>5. CASE \E s \in Subjects : BeginFetch(s) \/ Receive(s) \/ Expired(s)
  BY <1>1, <1>5 DEF BeginFetch, Receive, Expired, Halt, store
<1>6. CASE Finish
  BY <1>6 DEF Finish, Gathered, Covered, Concerns, PathValid, check_certificate, store
<1>7. CASE Unanswered
  BY <1>1, <1>7 DEF Unanswered, Halt, store
<1>8. CASE UNCHANGED <<acquisition, store>>
  BY <1>1, <1>8 DEF acquisition, store
<1>9. CASE \E i \in Imports : from_json(i[1], i[2])
  BY <1>9 DEF from_json, Gathered
<1> QED
  BY <1>2, <1>3, <1>4, <1>5, <1>6, <1>7, <1>8, <1>9
  DEF CollateralNext, collateralVars, CollateralTick, Revoke, Tamper, VerifyStatus
-----------------------------------------------------------------------------
CollateralIInv == Typed /\ Targeted /\ Sourced /\ Judged /\ Gathered

\* The inductive invariant holds in every reachable state: types and limits,
\* the meaning of what is kept and shown, and what verdicts and outputs rest on.
THEOREM CollateralInvariant == CollateralSpec => []CollateralIInv
<1>1. CollateralInit => CollateralIInv
  <2> SUFFICES ASSUME CollateralInit PROVE CollateralIInv
    OBVIOUS
  <2>1. Targeted /\ Judged /\ Gathered
    BY DEF CollateralInit, Targeted, Judged, Gathered
  <2> QED
    BY <2>1, TypedInit, SourcedInit DEF CollateralIInv
<1>2. CollateralIInv /\ [CollateralNext]_collateralVars => CollateralIInv'
  BY TypedStep, SourcedStep, JudgedStep, GatheredStep DEF CollateralIInv
<1> QED
  BY <1>1, <1>2, PTL DEF CollateralSpec

\* The caches never outgrow their limits (RevocationCache::insert, manifest),
\* and every other variable keeps its type.
THEOREM CollateralTypeCorrect == CollateralSpec => []CollateralTypeOK
<1>1. CollateralIInv => CollateralTypeOK
  BY DEF CollateralIInv, Typed
<1> QED
  BY <1>1, CollateralInvariant, PTL

\* A revocation takes effect within the life of one status, however the status
\* objects were cached, merged, dropped, added or forged (check_chain).
THEOREM CollateralRevocation == CollateralSpec => []RevocationTakesEffect
<1>1. CollateralIInv => RevocationTakesEffect
  <2> SUFFICES ASSUME CollateralIInv, verdict # None, NEW s \in Appraised(evidence.bundle),
                      NEW c \in Elements(Path[s]), revokedAt[c] # None
               PROVE  verdict < revokedAt[c] + StatusLife
    BY DEF RevocationTakesEffect
  <2>1. /\ evidence \in Evidences /\ verdict \in Nat
        /\ revokedAt \in [Certs -> 0..MaxClock \cup {None}]
    BY CollateralAssumption DEF CollateralIInv, Judged, Typed, CollateralTypeOK
  <2>2. s \in Subjects
    <3>1. evidence.bundle \in Seq(Devices)
      BY <2>1, CollateralAssumption DEF Evidences
    <3>2. Elements(evidence.bundle) \subseteq Devices
      BY <3>1 DEF Elements
    <3> QED
      BY <3>2, CollateralAssumption DEF Appraised, Subjects
  <2>3. c \in Certs
    BY <2>2, PathTyped DEF Elements
  <2>4. revokedAt[c] \in Nat /\ Issuer[c] \in Certs /\ StatusLife \in Nat
    BY <2>1, <2>3, CollateralAssumption
  <2>5. StatusOf(c, evidence.objects, verdict)
    BY DEF CollateralIInv, Judged, StatusVerified, check_chain, Elements
  <2>6. PICK o \in evidence.objects :
          \/ o.kind = "ocsp" /\ o.cert = c /\ check_ocsp(o, ListsIn(evidence.objects), verdict)
          \/ o.kind = "crl" /\ o.issuer = Issuer[c] /\ check_crl(o, c, verdict)
    BY <2>5 DEF StatusOf, ResponsesIn, ListsIn
  <2>7. o.signer # Stranger
    BY <2>3, <2>4, <2>6, CollateralAssumption DEF check_ocsp, Authorised, check_crl, Stranger
  <2>8. Stated(o)
    <3>1. evidence # None
      BY DEF CollateralIInv, Judged
    <3>2. Believable(o)
      BY <3>1 DEF CollateralIInv, Sourced, EvidenceSourced
    <3> QED
      BY <2>6, <2>7, <3>2 DEF Believable
  <2>9. TruthfullyGood(c, o.this)
    BY <2>3, <2>6, <2>8 DEF Stated, check_ocsp, check_crl
  <2>10. verdict < o.this + StatusLife
    BY <2>6, <2>8 DEF Stated, check_ocsp, check_crl, check_dates
  <2>11. o.this \in Nat /\ o.this <= revokedAt[c]
    BY <2>8, <2>9 DEF Stated, TruthfullyGood
  <2> QED
    BY <2>1, <2>4, <2>10, <2>11
<1> QED
  BY <1>1, CollateralInvariant, PTL

\* A verdict never stands beside a signed statement that one of its certificates
\* is revoked (check_chain: every matching status must pass).
THEOREM CollateralRevokedWins == CollateralSpec => []RevokedWins
<1>1. CollateralIInv => RevokedWins
  <2> SUFFICES ASSUME CollateralIInv, verdict # None, NEW s \in Appraised(evidence.bundle),
                      NEW c \in Elements(Path[s]), NEW o \in evidence.objects \cap Genuine
               PROVE  /\ ~(o.kind = "ocsp" /\ o.cert = c /\ o.status = "revoked")
                      /\ ~(o.kind = "crl" /\ o.issuer = Issuer[c] /\ c \in o.revoked)
    BY DEF RevokedWins
  <2>1. StatusOf(c, evidence.objects, verdict)
    BY DEF CollateralIInv, Judged, StatusVerified, check_chain, Elements
  <2> QED
    BY <2>1 DEF StatusOf, ResponsesIn, ListsIn, check_ocsp, check_crl
<1> QED
  BY <1>1, CollateralInvariant, PTL

\* A response that passes now passes until it or its signer expires.
LEMMA PassesLater ==
    ASSUME NEW o \in Responses, NEW t \in Nat, now \in Nat, now <= t, check_ocsp(o, {}, now),
           t = now \/ (t < o.next /\ check_certificate(o.signer, t))
    PROVE  check_ocsp(o, {}, t)
<1>1. o.this \in Nat /\ o.next \in Nat /\ o.produced \in Nat
  BY CollateralAssumption DEF Responses, Times
<1>2. CASE t = now
  BY <1>2
<1>3. CASE t < o.next /\ check_certificate(o.signer, t)
  <2>1. o.produced <= t /\ check_dates(o.this, o.next, t)
    BY <1>1, <1>3 DEF check_ocsp, check_dates
  <2>2. Authorised(o, {}, t)
    BY <1>3 DEF check_ocsp, Authorised
  <2> QED
    BY <2>1, <2>2 DEF check_ocsp
<1> QED
  BY <1>2, <1>3

\* What acquire_for_bundle returns verifies as a whole from the moment it is
\* judged at until the first of its parts expires, when nothing in it was imported
\* (from_json); otherwise only a status that was imported can spoil it.
THEOREM CollateralUsable == CollateralSpec => []AcquiredIsUsable
<1>1. CollateralIInv => AcquiredIsUsable
  <2> SUFFICES ASSUME CollateralIInv, pc = "done", NEW t \in now..MaxClock, t = now \/ StillValid(t)
               PROVE  /\ output \cap imported = {} =>
                            StatusVerified([bundle |-> bundle, objects |-> output], t)
                      /\ validate_limits(output)
                      /\ \A s \in Appraised(bundle) : \A c \in Elements(Path[s]) :
                            LET about == {o \in output : Concerns(o, c)}
                            IN  about # {} /\ \A o \in about \ imported : Passes(o, c, output, t)
    BY DEF AcquiredIsUsable
  <2>1. now \in Nat /\ t \in Nat /\ now <= t
    BY CollateralAssumption DEF CollateralIInv, Typed, CollateralTypeOK
  <2>2. \A o \in output \ imported : o \in Responses /\ check_ocsp(o, {}, now)
    BY DEF CollateralIInv, Gathered
  <2>3. \A o \in output \ imported : check_ocsp(o, {}, t)
    BY <2>1, <2>2, PassesLater DEF StillValid
  <2>4. \A s \in Appraised(bundle) : Covered(s)
    <3>1. devicesLeft = << >> /\ manifestsLeft = {}
      BY DEF CollateralIInv, Gathered
    <3>2. Elements(devicesLeft) = {}
      BY <3>1 DEF Elements
    <3> QED
      BY <3>1, <3>2 DEF CollateralIInv, Gathered, Appraised
  <2>5. \A s \in Appraised(bundle) : PathValid(s, t)
    BY <2>4 DEF Covered, StillValid
  <2>6. validate_limits(output)
    BY DEF CollateralIInv, Gathered, validate_limits
  <2>7. ASSUME NEW o \in output \ imported PROVE o.kind = "ocsp" /\ check_ocsp(o, ListsIn(output), t)
    <3>1. Authorised(o, ListsIn(output), t)
      BY <2>3, <2>7 DEF check_ocsp, Authorised
    <3> QED
      BY <2>2, <2>3, <2>7, <3>1 DEF check_ocsp, Responses
  <2>8. ASSUME NEW s \in Appraised(bundle), NEW c \in Elements(Path[s])
        PROVE  LET about == {o \in output : Concerns(o, c)}
               IN  about # {} /\ \A o \in about \ imported : Passes(o, c, output, t)
    BY <2>4, <2>7, <2>8 DEF Covered, Passes
  <2>9. ASSUME output \cap imported = {}, NEW s \in Appraised(bundle)
        PROVE  check_chain(s, output, t)
    <3>1. ListsIn(output) = {} /\ ResponsesIn(output) = output /\ \A o \in output : o.kind # "garbage"
      BY <2>7, <2>9 DEF ListsIn, ResponsesIn
    <3>2. \A c \in Elements(Path[s]) : \E o \in output : o.cert = c
      BY <2>4, <2>7, <2>9 DEF Covered, Concerns
    <3>3. \A c \in Elements(Path[s]) : StatusOf(c, output, t)
      BY <2>3, <2>9, <3>1, <3>2 DEF StatusOf
    <3>4. \A i \in 1..Len(Path[s]) : StatusOf(Path[s][i], output, t)
      BY <3>3 DEF Elements
    <3> QED
      BY <2>5, <2>6, <3>1, <3>4 DEF check_chain
  <2> QED
    BY <2>5, <2>6, <2>8, <2>9 DEF StatusVerified
<1> QED
  BY <1>1, CollateralInvariant, PTL

\* A revoked certificate is refused, at once or within one validity period.
THEOREM CollateralRevokedIsRefused == CollateralSpec => []RevokedIsRefused
  BY CollateralRevocation, CollateralRevokedWins, PTL DEF RevokedIsRefused

-----------------------------------------------------------------------------
(* Why an acquisition is refused *)

\* What is gathered or kept is finite and within its limits.
Bounded ==
    /\ IsFiniteSet(output)
    /\ IsFiniteSet(manifestsLeft) /\ Cardinality(manifestsLeft) <= MAX_MANIFESTS
    /\ \A s \in Subjects : cache[s] # None => IsFiniteSet(cache[s])

\* Only subjects of the bundle are worked on, and requests are sent after the call.
Wanted ==
    /\ now <= clock
    /\ Elements(devicesLeft) \subseteq Elements(bundle) /\ manifestsLeft \subseteq Appraised(bundle)
    /\ pc \in {"fetch", "insert"} => now <= asked /\ PathValid(target, now)

\* What was fetched is about the path, certificate by certificate, and as long as
\* the clock has not moved it was judged at the moment of the call.
Fetched ==
    pc \in {"fetch", "insert"} =>
       /\ pc = "insert" => Len(fetched) = Len(Path[target])
       /\ \A i \in 1..Len(fetched) : fetched[i].cert = Path[target][i]
       /\ clock = now => \A i \in 1..Len(fetched) : check_ocsp(fetched[i], {}, now)

ForCause == Bounded /\ Wanted /\ Fetched /\ RefusedForCause

LEMMA ElementsBounded ==
    ASSUME NEW S, NEW s \in Seq(S)
    PROVE  IsFiniteSet(Elements(s)) /\ Cardinality(Elements(s)) <= Len(s)
<1> DEFINE f == [i \in 1..Len(s) |-> s[i]]
<1>1. f \in [1..Len(s) -> Elements(s)] /\ \A x \in Elements(s) : \E i \in 1..Len(s) : f[i] = x
  BY DEF Elements
<1>2. f \in Surjection(1..Len(s), Elements(s))
  BY <1>1 DEF Surjection
<1>3. IsFiniteSet(1..Len(s)) /\ Cardinality(1..Len(s)) = Len(s)
  <2>1. Len(s) \in Nat
    OBVIOUS
  <2>2. IsFiniteSet(1..Len(s)) /\ Cardinality(1..Len(s)) =
          IF 1 > Len(s) THEN 0 ELSE Len(s) - 1 + 1
    BY <2>1, FS_Interval, SMT
  <2> QED
    BY <2>1, <2>2
<1> QED
  BY <1>2, <1>3, FS_Surjection

LEMMA CurrentWanted ==
    ASSUME AcquisitionTyped, Wanted, NEW s \in Subjects, Current(s)
    PROVE  s \in Appraised(bundle) /\ (s \in Devices => s \in Elements(bundle))
<1>1. CASE devicesLeft # << >>
  <2>1. s = devicesLeft[1] /\ Len(devicesLeft) \in Nat \ {0}
    BY <1>1 DEF Current, AcquisitionTyped
  <2>2. s \in Elements(devicesLeft)
    BY <2>1 DEF Elements
  <2> QED
    BY <2>2 DEF Wanted, Appraised
<1>2. CASE devicesLeft = << >>
  <2>1. s \in manifestsLeft
    BY <1>2 DEF Current
  <2> QED
    BY <2>1, CollateralAssumption DEF Wanted, AcquisitionTyped
<1> QED
  BY <1>1, <1>2

LEMMA MergeForCause ==
    ASSUME Typed, ForCause, pc \in {"next", "insert"}, NEW s \in Subjects, Current(s), NEW objects,
           cache'[s] = objects, IsFiniteSet(objects),
           objects # None \/ objects = Elements(fetched),
           Merge(s, objects), UNCHANGED <<clock, revokedAt>>,
           \A u \in Subjects : cache'[u] # None => IsFiniteSet(cache'[u])
    PROVE  ForCause'
<1> DEFINE wanted == IF s \in Devices THEN manifestsLeft \cup Selectors[s] ELSE manifestsLeft \ {s}
<1>0. AcquisitionTyped /\ Bounded /\ Wanted /\ MAX_OBJECTS \in Nat /\ MAX_MANIFESTS \in Nat
  BY TypedParts, CollateralAssumption DEF ForCause
<1>1. /\ IsFiniteSet(output) /\ IsFiniteSet(manifestsLeft) /\ Cardinality(output) \in Nat
      /\ Cardinality(manifestsLeft) \in Nat /\ Cardinality(manifestsLeft) <= MAX_MANIFESTS
  BY <1>0, FS_CardinalityType DEF Bounded
<1>2. IsFiniteSet(output \cup objects) /\ Cardinality(output \cup objects) \in Nat
  BY <1>1, FS_Union, FS_CardinalityType
<1>3. IsFiniteSet(wanted) /\ Cardinality(wanted) \in Nat
      /\ (s \notin Devices => Cardinality(wanted) <= MAX_MANIFESTS)
  <2>1. CASE s \in Devices
    <3>1. IsFiniteSet(Selectors[s])
      BY <2>1, CollateralAssumption
    <3> QED
      BY <1>1, <2>1, <3>1, FS_Union, FS_CardinalityType
  <2>2. CASE s \notin Devices
    <3>1. IsFiniteSet(manifestsLeft \ {s}) /\ Cardinality(manifestsLeft \ {s}) <= Cardinality(manifestsLeft)
      BY <1>1, FS_Subset
    <3> QED
      BY <1>0, <1>1, <2>2, <3>1, FS_CardinalityType
  <2> QED
    BY <2>1, <2>2
<1>4. CASE Cardinality(output \cup objects) <= MAX_OBJECTS /\ Cardinality(wanted) <= MAX_MANIFESTS
  <2>1. /\ pc' = "next" /\ output' = output \cup objects
        /\ devicesLeft' = IF s \in Devices THEN Tail(devicesLeft) ELSE devicesLeft
        /\ manifestsLeft' = wanted /\ UNCHANGED <<now, bundle>>
    BY <1>4 DEF Merge
  <2>2. Elements(devicesLeft') \subseteq Elements(devicesLeft)
    <3>1. CASE s \in Devices
      <4>1. devicesLeft # << >> /\ devicesLeft \in Seq(Devices)
        BY <1>0, <3>1, CurrentDevice DEF AcquisitionTyped
      <4>2. ASSUME NEW i \in 1..Len(Tail(devicesLeft)) PROVE Tail(devicesLeft)[i] \in Elements(devicesLeft)
        <5>1. i + 1 \in 1..Len(devicesLeft) /\ Tail(devicesLeft)[i] = devicesLeft[i + 1]
          BY <4>1
        <5> QED
          BY <5>1 DEF Elements
      <4> QED
        BY <2>1, <3>1, <4>2 DEF Elements
    <3>2. CASE s \notin Devices
      BY <2>1, <3>2
    <3> QED
      BY <3>1, <3>2
  <2>3. wanted \subseteq Appraised(bundle)
    <3>1. s \in Devices => s \in Elements(bundle)
      BY <1>0, CurrentWanted
    <3>2. s \in Devices => Selectors[s] \subseteq Appraised(bundle)
      BY <3>1 DEF Appraised
    <3> QED
      BY <1>0, <3>2 DEF Wanted
  <2>4. Bounded'
    BY <1>2, <1>3, <1>4, <2>1 DEF Bounded
  <2>5. Wanted'
    BY <1>0, <2>1, <2>2, <2>3 DEF Wanted, Appraised
  <2> QED
    BY <2>1, <2>4, <2>5 DEF ForCause, Fetched, RefusedForCause
<1>5. CASE ~(Cardinality(output \cup objects) <= MAX_OBJECTS /\ Cardinality(wanted) <= MAX_MANIFESTS)
  <2>1. /\ pc' = "rejected"
        /\ UNCHANGED <<now, bundle, devicesLeft, manifestsLeft, output, target, fetched, asked>>
    BY <1>5 DEF Merge, Halt
  <2>2. \/ Cardinality(output \cup objects) > MAX_OBJECTS
        \/ s \in Devices /\ Cardinality(manifestsLeft \cup Selectors[s]) > MAX_MANIFESTS
    <3>2. CASE ~(Cardinality(output \cup objects) <= MAX_OBJECTS)
      BY <1>0, <1>2, <3>2
    <3>3. CASE ~(Cardinality(wanted) <= MAX_MANIFESTS)
      BY <1>0, <1>3, <3>3
    <3> QED
      BY <1>5, <3>2, <3>3
  <2>3. Current(s)'
    BY <2>1 DEF Current
  <2>4. RefusedForCause'
    BY <2>1, <2>2, <2>3 DEF RefusedForCause
  <2> QED
    BY <1>0, <2>1, <2>4 DEF ForCause, Bounded, Wanted, Fetched, Appraised
<1> QED
  BY <1>4, <1>5

\* Nothing but the world moves.
LEMMA ForCauseFrame ==
    ASSUME Typed, ForCause, WorldStep, UNCHANGED <<acquisition, cache>> PROVE ForCause'
<1>1. /\ UNCHANGED <<pc, now, bundle, devicesLeft, manifestsLeft, output, target, fetched, asked, cache>>
      /\ now \in Nat
  BY CollateralAssumption DEF acquisition, Typed, CollateralTypeOK
<1>2. now <= clock' /\ (clock' = now => clock = now)
  BY <1>1 DEF WorldStep, ForCause, Wanted
<1>3. Bounded' /\ Wanted' /\ Fetched'
  BY <1>1, <1>2 DEF ForCause, Bounded, Wanted, Fetched, Appraised, PathValid, check_certificate, check_ocsp,
        Authorised
<1>4. RefusedForCause'
  <2> SUFFICES ASSUME pc = "rejected", clock' = now,
                      ~ \E u \in Subjects :
                           /\ Current(u)
                           /\ \/ ~HasRoom(u)
                              \/ Len(Path[u]) > MAX_OBJECTS
                              \/ cache[u] # None /\ Cardinality(output \cup cache[u]) > MAX_OBJECTS
                              \/ /\ cache[u] = Elements(fetched)
                                 /\ Cardinality(output \cup Elements(fetched)) > MAX_OBJECTS
                              \/ u \in Devices /\ Cardinality(manifestsLeft \cup Selectors[u]) > MAX_MANIFESTS
               PROVE  \E s \in Appraised(bundle) : \E c \in PathCerts(s) :
                         revokedAt'[c] # None \/ ~check_certificate(c, now)
    BY <1>1 DEF RefusedForCause, Current, HasRoom, Appraised
  <2>1. PICK s \in Appraised(bundle) : \E c \in PathCerts(s) :
               revokedAt[c] # None \/ ~check_certificate(c, now)
    BY <1>2 DEF ForCause, RefusedForCause
  <2>2. PICK c \in PathCerts(s) : revokedAt[c] # None \/ ~check_certificate(c, now)
    BY <2>1
  <2>3. s \in Subjects
    <3>1. Elements(bundle) \subseteq Devices
      BY CollateralAssumption DEF Typed, CollateralTypeOK, Elements
    <3> QED
      BY <3>1, CollateralAssumption DEF Appraised, Subjects
  <2>4. c \in Certs
    <3>1. Elements(Path[s]) \subseteq Certs
      BY <2>3, PathTyped DEF Elements
    <3> QED
      BY <3>1, CollateralAssumption DEF PathCerts
  <2>5. revokedAt[c] # None => revokedAt'[c] # None
    BY <2>4 DEF WorldStep
  <2> QED
    BY <2>2, <2>5
<1> QED
  BY <1>3, <1>4 DEF ForCause

\* A stage that is not "rejected", reached without a change to what is gathered.
LEMMA ForCausePasses ==
    ASSUME ForCause, pc' \notin {"rejected", "fetch", "insert"},
           UNCHANGED <<clock, cache, now, bundle, devicesLeft, manifestsLeft, output>>
    PROVE  ForCause'
BY DEF ForCause, Bounded, Wanted, Fetched, RefusedForCause, Appraised

LEMMA ForCauseInitial == CollateralInit => ForCause
<1> SUFFICES ASSUME CollateralInit PROVE ForCause
  OBVIOUS
<1>1. IsFiniteSet({}) /\ Cardinality({}) = 0 /\ MAX_MANIFESTS \in Nat
  BY FS_EmptySet, CollateralAssumption
<1>4. Bounded
  BY <1>1 DEF Bounded, CollateralInit
<1>5. Wanted /\ Fetched /\ RefusedForCause
  BY DEF CollateralInit, Wanted, Fetched, RefusedForCause, Elements
<1> QED
  BY <1>4, <1>5 DEF ForCause

\* A usable answer that fails while the clock stands still says "revoked".
LEMMA RefusedAnswer ==
    ASSUME Typed, Targeted, Wanted, pc = "fetch", clock = now,
           NEW o \in Answers(Path[target][Len(fetched) + 1]), Usable(o), ~check_ocsp(o, {}, clock)
    PROVE  \E s \in Appraised(bundle) : \E c \in PathCerts(s) : revokedAt[c] # None
<1> DEFINE c == Path[target][Len(fetched) + 1]
<1>1. target \in Subjects /\ Current(target) /\ Len(fetched) < Len(Path[target])
  BY DEF Targeted
<1>2. c \in Certs /\ c \in Elements(Path[target])
  <2>1. Len(fetched) + 1 \in 1..Len(Path[target])
    BY <1>1, PathTyped DEF Typed, CollateralTypeOK
  <2> QED
    BY <1>1, <2>1, PathTyped DEF Elements
<1>3. clock \in Nat /\ asked \in Nat /\ now \in Nat /\ Lag \in Nat /\ StatusLife \in Nat /\ Lag < StatusLife
  BY CollateralAssumption DEF Typed, CollateralTypeOK
<1> HIDE DEF c
<1>4. o \in GenuineResponses(c) /\ asked <= o.produced
  BY DEF Answers, c
<1>5. PICK status \in {"good", "revoked", "unknown"}, this \in 0..clock, produced \in 0..clock,
           signer \in {Issuer[c]} \cup Delegates[Issuer[c]] :
        o = [kind |-> "ocsp", cert |-> c, status |-> status, this |-> this,
             next |-> this + StatusLife, produced |-> produced, signer |-> signer]
  BY <1>4 DEF GenuineResponses
<1>6. /\ o.this <= o.produced /\ o.produced <= o.this + Lag
      /\ o.status = "revoked" => TruthfullyRevoked(c, o.this)
  BY <1>4 DEF GenuineResponses
<1>7. now <= asked /\ PathValid(target, now)
  BY DEF Wanted
<1>8. CASE o.status = "revoked"
  <2>1. revokedAt[c] # None
    BY <1>6, <1>8 DEF TruthfullyRevoked
  <2>2. target \in Appraised(bundle)
    BY <1>1, TypedParts, CurrentWanted
  <2>3. c \in PathCerts(target)
    BY <1>2 DEF PathCerts
  <2> QED
    BY <2>1, <2>2, <2>3
<1>9. CASE o.status # "revoked"
  <2>1. o.status = "good"
    BY <1>5, <1>9 DEF Usable
  <2>2. /\ this \in Nat /\ produced \in Nat /\ this <= produced /\ produced <= this + Lag
        /\ produced <= clock /\ clock <= produced
    BY <1>3, <1>4, <1>5, <1>6, <1>7
  <2>3. check_dates(o.this, o.next, clock) /\ o.produced <= clock /\ o.this <= o.produced
        /\ o.produced < o.next
    BY <1>3, <1>5, <2>2 DEF check_dates
  <2>4. Authorised(o, {}, clock)
    BY DEF Usable
  <2>5. check_certificate(o.signer, clock)
    <3>1. CASE o.signer = Issuer[c]
      <4>1. Issuer[c] \in PathCerts(target)
        BY <1>2 DEF PathCerts
      <4> QED
        BY <1>7, <3>1, <4>1 DEF PathValid
    <3>2. CASE o.signer # Issuer[c]
      BY <1>5, <2>4, <3>2 DEF Authorised
    <3> QED
      BY <3>1, <3>2
  <2>6. o.signer \in Certs
    BY <1>2, <1>5, CollateralAssumption
  <2>7. o.produced <= NotAfter[o.signer]
    <3>1. NotAfter[o.signer] \in Nat
      BY <2>6, CollateralAssumption
    <3> QED
      BY <1>3, <1>5, <2>2, <2>5, <3>1 DEF check_certificate
  <2> QED
    BY <2>1, <2>3, <2>4, <2>7 DEF check_ocsp
<1> QED
  BY <1>8, <1>9

LEMMA ReceiveForCause ==
    ASSUME Typed, Targeted, ForCause, NEW s \in Subjects, Receive(s) PROVE ForCause'
<1> DEFINE c == Path[s][Len(fetched) + 1]
<1>1. /\ pc = "fetch" /\ s = target /\ Len(fetched) < Len(Path[s])
      /\ UNCHANGED <<clock, revokedAt, cache>>
  BY DEF Receive, Targeted, store
<1>2. fetched \in Seq(Responses) /\ Len(fetched) \in Nat /\ Len(Path[s]) \in Nat
      /\ clock \in Nat /\ now \in Nat
  BY PathTyped, CollateralAssumption DEF Typed, CollateralTypeOK
<1>3. Bounded /\ Wanted /\ Fetched
  BY DEF ForCause
<1>4. PICK o \in Answers(c) :
          IF check_ocsp(o, {}, clock)
          THEN /\ fetched' = Append(fetched, o) /\ asked' = clock
               /\ pc' = IF Len(fetched) + 1 = Len(Path[s]) THEN "insert" ELSE "fetch"
               /\ UNCHANGED <<now, bundle, devicesLeft, manifestsLeft, output, target>>
          ELSE Halt(IF Usable(o) THEN "rejected" ELSE "unanswered")
  BY DEF Receive
<1>5. CASE check_ocsp(o, {}, clock)
  <2>1. /\ fetched' = Append(fetched, o) /\ asked' = clock
        /\ pc' \in {"fetch", "insert"} /\ (pc' = "insert" => Len(fetched) + 1 = Len(Path[s]))
        /\ UNCHANGED <<now, bundle, devicesLeft, manifestsLeft, output, target>>
    BY <1>4, <1>5
  <2>2. Bounded'
    BY <1>1, <1>3, <2>1 DEF Bounded
  <2>3. Wanted'
    BY <1>1, <1>3, <2>1 DEF Wanted, Appraised, PathValid, check_certificate
  <2>4. o.cert = c
    BY DEF Answers, GenuineResponses
  <2>5. ASSUME NEW i \in 1..Len(fetched')
        PROVE  /\ fetched'[i].cert = Path[s][i]
               /\ clock = now => check_ocsp(fetched'[i], {}, now)
    <3>1. CASE i = Len(fetched) + 1
      <4>1. fetched'[i] = o
        BY <1>2, <2>1, <3>1
      <4> QED
        BY <1>5, <2>4, <3>1, <4>1
    <3>2. CASE i # Len(fetched) + 1
      <4>1. i \in 1..Len(fetched) /\ fetched'[i] = fetched[i]
        BY <1>2, <2>1, <3>2
      <4> QED
        BY <1>1, <1>3, <4>1 DEF Fetched
    <3> QED
      BY <3>1, <3>2
  <2>6. Len(fetched') = Len(fetched) + 1
    BY <1>2, <2>1
  <2>7. Fetched'
    BY <1>1, <2>1, <2>5, <2>6 DEF Fetched, check_ocsp, Authorised
  <2> QED
    BY <2>1, <2>2, <2>3, <2>7 DEF ForCause, RefusedForCause
<1>6. CASE ~check_ocsp(o, {}, clock) /\ ~Usable(o)
  <2>1. Halt("unanswered")
    BY <1>4, <1>6
  <2> QED
    BY <1>1, <2>1, ForCausePasses DEF Halt
<1>7. CASE ~check_ocsp(o, {}, clock) /\ Usable(o)
  <2>1. Halt("rejected")
    BY <1>4, <1>7
  <2>2. clock = now => \E u \in Appraised(bundle) : \E d \in PathCerts(u) : revokedAt[d] # None
    BY <1>1, <1>3, <1>7, RefusedAnswer
  <2>3. RefusedForCause'
    BY <1>1, <2>1, <2>2 DEF Halt, RefusedForCause, Appraised
  <2> QED
    BY <1>1, <1>3, <2>1, <2>3 DEF Halt, ForCause, Bounded, Wanted, Fetched, Appraised
<1> QED
  BY <1>5, <1>6, <1>7

\* While the clock stands still, what was fetched passes as a chain.
LEMMA FetchedPasses ==
    ASSUME Typed, Targeted, Wanted, Fetched, pc = "insert", clock = now, Len(Path[target]) <= MAX_OBJECTS
    PROVE  check_chain(target, Elements(fetched), now)
<1>1. target \in Subjects /\ fetched \in Seq(Responses) /\ Len(fetched) = Len(Path[target])
  BY DEF Targeted, Typed, CollateralTypeOK, Fetched
<1>2. Len(fetched) \in Nat /\ MAX_OBJECTS \in Nat
  BY <1>1, CollateralAssumption
<1>3. validate_limits(Elements(fetched))
  <2>1. IsFiniteSet(Elements(fetched)) /\ Cardinality(Elements(fetched)) <= Len(fetched)
    BY <1>1, ElementsBounded
  <2> QED
    BY <1>1, <1>2, <2>1, FS_CardinalityType DEF validate_limits
<1>4. Elements(fetched) \subseteq Responses
  BY <1>1 DEF Elements
<1>5. ListsIn(Elements(fetched)) = {} /\ ResponsesIn(Elements(fetched)) = Elements(fetched)
      /\ \A o \in Elements(fetched) : o.kind # "garbage"
  BY <1>4 DEF ListsIn, ResponsesIn, Responses
<1>6. PathValid(target, now)
  BY DEF Wanted
<1>7. \A o \in Elements(fetched) : check_ocsp(o, {}, now)
  BY DEF Fetched, Elements
<1>8. ASSUME NEW i \in 1..Len(Path[target]) PROVE StatusOf(Path[target][i], Elements(fetched), now)
  <2>1. fetched[i] \in Elements(fetched) /\ fetched[i].cert = Path[target][i]
    BY <1>1 DEF Elements, Fetched
  <2> QED
    BY <1>5, <1>7, <2>1 DEF StatusOf
<1> QED
  BY <1>3, <1>5, <1>6, <1>8 DEF check_chain

LEMMA StoreForCause ==
    ASSUME Typed, Targeted, ForCause, NEW s \in Subjects, Store(s) PROVE ForCause'
<1>1. pc = "insert" /\ s = target /\ Current(s) /\ UNCHANGED <<clock, revokedAt>>
  BY DEF Store, Targeted
<1>2. Bounded /\ Wanted /\ Fetched /\ fetched \in Seq(Responses)
  BY DEF ForCause, Typed, CollateralTypeOK
<1>3. CASE /\ cache' = [cache EXCEPT ![s] = Elements(fetched)]
           /\ Merge(s, Elements(fetched))
  <2>1. IsFiniteSet(Elements(fetched))
    BY <1>2, ElementsBounded
  <2>3. cache \in [Subjects -> (SUBSET Objects) \cup {None}] /\ cache'[s] = Elements(fetched)
    BY <1>3 DEF Typed, CollateralTypeOK
  <2>4. ASSUME NEW u \in Subjects, cache'[u] # None PROVE IsFiniteSet(cache'[u])
    <3>1. CASE u = s
      BY <2>1, <2>3, <3>1
    <3>2. CASE u # s
      <4>1. cache'[u] = cache[u]
        BY <1>3, <2>3, <3>2
      <4> QED
        BY <1>2, <2>4, <4>1 DEF Bounded
    <3> QED
      BY <3>1, <3>2
  <2> QED
    BY <1>1, <1>3, <2>1, <2>3, <2>4, MergeForCause
<1>4. CASE /\ ~( check_chain(s, Elements(fetched), clock) /\ check_chain(s, Elements(fetched), now)
                 /\ HasRoom(s) )
           /\ Halt("rejected") /\ UNCHANGED cache
  <2>1. clock = now => ~HasRoom(s) \/ Len(Path[s]) > MAX_OBJECTS
    <3> SUFFICES ASSUME clock = now, HasRoom(s) PROVE Len(Path[s]) > MAX_OBJECTS
      OBVIOUS
    <3>1. ~(Len(Path[s]) <= MAX_OBJECTS)
      BY <1>1, <1>2, <1>4, FetchedPasses
    <3>2. Len(Path[s]) \in Nat /\ MAX_OBJECTS \in Nat
      BY PathTyped, CollateralAssumption
    <3> QED
      BY <3>1, <3>2
  <2>2. RefusedForCause'
    BY <1>1, <1>4, <2>1 DEF Halt, RefusedForCause, Current, HasRoom
  <2> QED
    BY <1>1, <1>2, <1>4, <2>2 DEF Halt, ForCause, Bounded, Wanted, Fetched, Appraised
<1> QED
  BY <1>3, <1>4 DEF Store

LEMMA ImportForCause ==
    ASSUME Typed, ForCause, NEW s \in Subjects, NEW c, from_json(s, c) PROVE ForCause'
<1>1. /\ IsFiniteSet({}) /\ Cardinality({}) = 0 /\ MAX_MANIFESTS \in Nat /\ clock \in Nat
      /\ cache \in [Subjects -> (SUBSET Objects) \cup {None}]
  BY FS_EmptySet, CollateralAssumption DEF Typed, CollateralTypeOK
<1>2. /\ pc' = "idle" /\ now' = 0 /\ bundle' = << >> /\ devicesLeft' = << >>
      /\ manifestsLeft' = {} /\ output' = {} /\ clock' = clock
  BY DEF from_json
<1>3. ASSUME NEW u \in Subjects, cache'[u] # None PROVE IsFiniteSet(cache'[u])
  <2>1. cache[u] # None => IsFiniteSet(cache[u])
    BY DEF ForCause, Bounded
  <2>2. \/ cache'[u] = cache[u] \/ cache'[u] = None \/ cache'[u] = {}
        \/ \E o : cache[u] # None /\ cache'[u] = cache[u] \cup {o}
    <3>1. CASE cache' = [cache EXCEPT ![s] = None] \/ cache' = [cache EXCEPT ![s] = {}]
      BY <1>1, <3>1
    <3>2. CASE \E o \in Genuine \cup Forgeries :
                 cache[s] # None /\ cache' = [cache EXCEPT ![s] = @ \cup {o}]
      BY <1>1, <3>2
    <3> QED
      BY <3>1, <3>2 DEF from_json
  <2>3. ASSUME NEW o, cache[u] # None, cache'[u] = cache[u] \cup {o} PROVE IsFiniteSet(cache'[u])
    <3>1. IsFiniteSet(cache[u] \cup {o})
      BY <2>1, <2>3, FS_AddElement
    <3> QED
      BY <2>3, <3>1
  <2>4. CASE cache'[u] = {}
    BY <1>1, <2>4
  <2> QED
    BY <1>3, <2>1, <2>2, <2>3, <2>4
<1>4. Bounded'
  BY <1>1, <1>2, <1>3 DEF Bounded
<1>5. Wanted' /\ Fetched' /\ RefusedForCause'
  BY <1>1, <1>2 DEF Wanted, Fetched, RefusedForCause, Elements
<1> QED
  BY <1>4, <1>5 DEF ForCause

LEMMA ForCauseStep ==
    Typed /\ Targeted /\ ForCause /\ [CollateralNext]_collateralVars => ForCause'
<1> SUFFICES ASSUME Typed, Targeted, ForCause, [CollateralNext]_collateralVars PROVE ForCause'
  OBVIOUS
<1>1. ASSUME NEW b \in Bundles, acquire_for_bundle(b) PROVE ForCause'
  <2>1. IsFiniteSet({}) /\ Cardinality({}) = 0 /\ MAX_MANIFESTS \in Nat /\ clock \in Nat
    BY FS_EmptySet, CollateralAssumption DEF Typed, CollateralTypeOK
  <2>2. Bounded'
    BY <1>1, <2>1 DEF acquire_for_bundle, store, ForCause, Bounded
  <2>3. Wanted' /\ Fetched' /\ RefusedForCause'
    BY <1>1, <2>1 DEF acquire_for_bundle, Wanted, Fetched, RefusedForCause
  <2> QED
    BY <2>2, <2>3 DEF ForCause
<1>2. ASSUME NEW s \in Subjects, UseCached(s) PROVE ForCause'
  <2>1. cache[s] # None /\ pc = "next" /\ Current(s) /\ Merge(s, cache[s])
        /\ UNCHANGED <<clock, revokedAt, cache>>
    BY <1>2 DEF UseCached, CachedIsCurrent, store
  <2>2. \A u \in Subjects : cache[u] # None => IsFiniteSet(cache[u])
    BY DEF ForCause, Bounded
  <2> QED
    BY <2>1, <2>2, MergeForCause
<1>3. ASSUME NEW s \in Subjects, BeginFetch(s) PROVE ForCause'
  <2>1. /\ pc' = "fetch" /\ target' = s /\ fetched' = << >> /\ asked' = clock /\ PathValid(s, now)
        /\ UNCHANGED <<clock, cache, now, bundle, devicesLeft, manifestsLeft, output>>
    BY <1>3 DEF BeginFetch, store
  <2>2. Bounded' /\ Wanted'
    BY <2>1 DEF ForCause, Bounded, Wanted, Appraised, PathValid, check_certificate
  <2>3. Fetched' /\ RefusedForCause'
    BY <2>1 DEF Fetched, RefusedForCause
  <2> QED
    BY <2>2, <2>3 DEF ForCause
<1>4. ASSUME NEW s \in Subjects, Expired(s) PROVE ForCause'
  <2>1. /\ pc = "next" /\ Current(s) /\ ~PathValid(s, now) /\ Halt("rejected")
        /\ UNCHANGED <<clock, revokedAt, cache>>
    BY <1>4 DEF Expired, store
  <2>2. s \in Appraised(bundle)
    BY <2>1, TypedParts, CurrentWanted DEF ForCause
  <2>3. \E c \in PathCerts(s) : ~check_certificate(c, now)
    BY <2>1 DEF PathValid
  <2>4. RefusedForCause'
    BY <2>1, <2>2, <2>3 DEF Halt, RefusedForCause, Appraised, check_certificate
  <2> QED
    BY <2>1, <2>4 DEF Halt, ForCause, Bounded, Wanted, Fetched, Appraised
<1>5. CASE Unanswered \/ Finish
  BY <1>5, ForCausePasses DEF Unanswered, Finish, Halt, store
<1>6. CASE UNCHANGED <<acquisition, cache>>
  BY <1>6, ForCauseFrame, WorldMoves
<1>7. ASSUME NEW i \in Imports, from_json(i[1], i[2]) PROVE ForCause'
  <2>1. i[1] \in Subjects
    BY CollateralAssumption
  <2> QED
    BY <1>7, <2>1, ImportForCause
<1> QED
  BY <1>1, <1>2, <1>3, <1>4, <1>5, <1>6, <1>7, ReceiveForCause, StoreForCause
  DEF CollateralNext, collateralVars, store, CollateralTick, Revoke, Tamper, VerifyStatus

\* An acquisition whose requests are answered is refused only for a revoked or
\* expired certificate, a limit, or a clock that has moved on: stale entries of
\* the cache are refreshed (acquire_for_bundle, fetch_chain).
THEOREM CollateralRefusedForCause == CollateralSpec => []RefusedForCause
<1>1. CollateralInit => ForCause
  BY ForCauseInitial
<1>2. CollateralIInv /\ ForCause /\ [CollateralNext]_collateralVars => ForCause'
  BY ForCauseStep DEF CollateralIInv
<1>3. ForCause => RefusedForCause
  BY DEF ForCause
<1> QED
  BY <1>1, <1>2, <1>3, CollateralInvariant, PTL DEF CollateralSpec
-----------------------------------------------------------------------------
(* Collecting: the machine and the collection.                              *)

GpuReadings == [uuid : Gpus, cert : Nat, report : Nat]
SwitchReadings == [uuid : Switches, cert : Nat, report : Nat]

AtSwitch == {"mode", "chain", "quote", "modeAgain", "chainAgain"}
AfterRecheck == AtSwitch \cup {"listed", "switches", "inventoryAgain", "cpu", "done"}

Collections ==
    [pc : {"start", "device", "certificate", "report", "recount", "recheck", "failed"} \cup AfterRecheck,
     what : {"status", "token"}, topology : {"Independent", "ProtectedPcie", "AutoDetect"},
     count : Nat, cc : {0, 1}, next : Nat, cur : Gpus \cup Switches \cup {NoDevice},
     read : Nat, signed : Nat, mode : {0, 1}, gpus : Seq(GpuReadings),
     inventory : SUBSET Switches, todo : SUBSET Switches, switches : SUBSET SwitchReadings]

CollectTyped ==
    /\ slots \in Seq(Gpus) /\ cc \in {0, 1} /\ fabric \subseteq Switches
    /\ tnvl \in [Switches -> {0, 1}] /\ key \in [Gpus \cup Switches -> Nat]
    /\ gone \subseteq Gpus \cup Switches /\ changes \in Nat
    /\ col \in Collections /\ present \subseteq Gpus

\* The indices name different GPUs and none that left.
Enumerated ==
    /\ \A i, j \in DOMAIN slots : slots[i] = slots[j] => i = j
    /\ Elems(slots) \cap gone = {}

Met == Elems(slots) \cup gone

\* Every GPU taken was enumerated at some time, no two are the same, and there
\* are never more than were counted.
TakenOnce ==
    /\ \A i \in DOMAIN col.gpus : col.gpus[i].uuid \in Met
    /\ \A i, j \in DOMAIN col.gpus : col.gpus[i].uuid = col.gpus[j].uuid => i = j
    /\ col.pc = "start" => col.gpus = <<>>
    /\ col.pc \in {"certificate", "report"} => col.cur \in Met
    /\ col.pc \in {"device", "certificate", "report"} => Len(col.gpus) < col.count
    /\ col.pc \in {"recount", "recheck"} \cup AfterRecheck => Len(col.gpus) = col.count

\* What was enumerated at the recount is one inventory of that size; a GPU taken
\* that is not of it has left, so that an index that still has its UUID is of it.
Recounted ==
    /\ col.pc \in {"recheck"} \cup AfterRecheck =>
          /\ IsFiniteSet(present) /\ Cardinality(present) = col.count
          /\ \A i \in DOMAIN col.gpus : col.gpus[i].uuid \in present \cup gone
    /\ col.pc = "recheck" =>
          /\ col.next \in 1 .. col.count
          /\ \A i \in 1 .. col.next - 1 : col.gpus[i].uuid \in present
    /\ col.pc \in AfterRecheck => \A i \in DOMAIN col.gpus : col.gpus[i].uuid \in present

\* Keys only get newer: a chain read before the report and again after it is of
\* the key that signed.
KeysOrdered ==
    /\ col.pc \in AtSwitch => col.cur \in Switches
    /\ col.pc = "quote" => col.read <= key[col.cur]
    /\ col.pc \in {"modeAgain", "chainAgain"} => col.read <= col.signed /\ col.signed <= key[col.cur]
    /\ \A s \in col.switches : s.cert = s.report

CollectInv == CollectTyped /\ Enumerated /\ TakenOnce /\ Recounted /\ KeysOrdered

\* A sequence without repetitions has as many elements as it is long.
LEMMA ElemsCounted ==
    ASSUME NEW S, NEW s \in Seq(S), \A i, j \in DOMAIN s : s[i] = s[j] => i = j
    PROVE  IsFiniteSet(Elems(s)) /\ Cardinality(Elems(s)) = Len(s)
<1>1. DOMAIN s = 1 .. Len(s) /\ Len(s) \in Nat
  OBVIOUS
<1>2. s \in [1 .. Len(s) -> Elems(s)] /\ \A x \in Elems(s) : \E i \in 1 .. Len(s) : s[i] = x
  BY <1>1 DEF Elems
<1>3. s \in Injection(1 .. Len(s), Elems(s)) /\ s \in Surjection(1 .. Len(s), Elems(s))
  BY <1>1, <1>2 DEF Injection, Surjection, IsInjective
<1>4. ExistsBijection(1 .. Len(s), Elems(s))
  BY <1>3 DEF Bijection, ExistsBijection
<1> QED
  BY <1>1, <1>4, FS_NatBijection, FS_CountingElements

LEMMA Unplugged ==
    ASSUME NEW S, NEW s \in Seq(S), NEW i \in DOMAIN s, \A j, k \in DOMAIN s : s[j] = s[k] => j = k
    PROVE  /\ RemoveAt(s, i) \in Seq(S)
           /\ \A j, k \in DOMAIN RemoveAt(s, i) : RemoveAt(s, i)[j] = RemoveAt(s, i)[k] => j = k
           /\ Elems(RemoveAt(s, i)) = Elems(s) \ {s[i]}
<1> DEFINE a == SubSeq(s, 1, i - 1)
           b == SubSeq(s, i + 1, Len(s))
           r == RemoveAt(s, i)
<1>1. i \in 1 .. Len(s) /\ DOMAIN s = 1 .. Len(s) /\ Len(s) \in Nat
  OBVIOUS
<1>0. \A j \in 1 .. Len(s) : s[j] \in S
  OBVIOUS
<1>2. a \in Seq(S) /\ Len(a) = i - 1 /\ \A j \in 1 .. i - 1 : a[j] = s[j]
  BY <1>0, <1>1, SubSeqProperties
<1>3. b \in Seq(S) /\ Len(b) = Len(s) - i /\ \A j \in 1 .. Len(s) - i : b[j] = s[i + j]
  <2>1. /\ b \in Seq(S)
        /\ Len(b) = IF i + 1 <= Len(s) THEN Len(s) - (i + 1) + 1 ELSE 0
        /\ \A j \in 1 .. Len(s) - (i + 1) + 1 : b[j] = s[(i + 1) + j - 1]
    BY <1>0, <1>1, SubSeqProperties
  <2> HIDE DEF b
  <2>2. Len(b) = Len(s) - i
    BY <1>1, <2>1
  <2>3. ASSUME NEW j \in 1 .. Len(s) - i PROVE b[j] = s[i + j]
    <3>1. j \in 1 .. Len(s) - (i + 1) + 1 /\ (i + 1) + j - 1 = i + j
      BY <1>1
    <3> QED
      BY <2>1, <3>1
  <2> QED
    BY <2>1, <2>2, <2>3
<1>4. r = a \o b
  BY DEF RemoveAt
<1> HIDE DEF a, b, r
<1>10. /\ r \in Seq(S) /\ Len(r) = Len(a) + Len(b)
      /\ \A j \in 1 .. Len(a) + Len(b) : r[j] = IF j <= Len(a) THEN a[j] ELSE b[j - Len(a)]
  <2>1. a \in Seq(S) /\ b \in Seq(S)
    BY <1>2, <1>3
  <2>2. /\ a \o b \in Seq(S) /\ Len(a \o b) = Len(a) + Len(b)
        /\ \A j \in 1 .. Len(a) + Len(b) : (a \o b)[j] = IF j <= Len(a) THEN a[j] ELSE b[j - Len(a)]
    BY <2>1, ConcatProperties, ZenonT(30)
  <2> QED
    BY <1>4, <2>2
<1>5. r \in Seq(S) /\ Len(r) = Len(s) - 1 /\ DOMAIN r = 1 .. Len(s) - 1
  BY <1>1, <1>2, <1>3, <1>10
<1>6. ASSUME NEW j \in 1 .. Len(s) - 1 PROVE r[j] = IF j < i THEN s[j] ELSE s[j + 1]
  <2>1. CASE j < i
    BY <2>1, <1>1, <1>2, <1>3, <1>10
  <2>2. CASE ~(j < i)
    <3>1. r[j] = b[j - (i - 1)] /\ j - (i - 1) \in 1 .. Len(s) - i
      BY <2>2, <1>1, <1>2, <1>3, <1>10, SMTT(30)
    <3>2. b[j - (i - 1)] = s[i + (j - (i - 1))] /\ i + (j - (i - 1)) = j + 1
      BY <3>1, <1>1, <1>3
    <3> QED
      BY <3>1, <3>2, <2>2
  <2> QED
    BY <2>1, <2>2
<1>7. ASSUME NEW j \in DOMAIN r, NEW k \in DOMAIN r, r[j] = r[k] PROVE j = k
  <2>1. /\ r[j] = IF j < i THEN s[j] ELSE s[j + 1] 
        /\ r[k] = IF k < i THEN s[k] ELSE s[k + 1]
        /\ j \in 1 .. Len(s) - 1 /\ k \in 1 .. Len(s) - 1
    BY <1>5, <1>6
  <2>2. /\ j \in DOMAIN s /\ j + 1 \in DOMAIN s /\ k \in DOMAIN s /\ k + 1 \in DOMAIN s
    BY <1>1, <2>1
  <2>3. (IF j < i THEN s[j] ELSE s[j + 1]) = IF k < i THEN s[k] ELSE s[k + 1]
    BY <1>7, <2>1
  <2>4. CASE j < i /\ k < i
    BY <2>2, <2>3, <2>4
  <2>5. CASE j < i /\ ~(k < i)
    <3>1. j = k + 1
      BY <2>2, <2>3, <2>5
    <3> QED
      BY <1>1, <2>1, <2>5, <3>1
  <2>6. CASE ~(j < i) /\ k < i
    <3>1. j + 1 = k
      BY <2>2, <2>3, <2>6
    <3> QED
      BY <1>1, <2>1, <2>6, <3>1
  <2>7. CASE ~(j < i) /\ ~(k < i)
    <3>1. j + 1 = k + 1
      BY <2>2, <2>3, <2>7
    <3> QED
      BY <1>1, <2>1, <3>1
  <2> QED
    BY <2>4, <2>5, <2>6, <2>7
<1>8. ASSUME NEW x \in Elems(r) PROVE x \in Elems(s) \ {s[i]}
  BY <1>1, <1>5, <1>6 DEF Elems
<1>9. ASSUME NEW x \in Elems(s) \ {s[i]} PROVE x \in Elems(r)
  <2>1. PICK k \in DOMAIN s : x = s[k] /\ k # i
    BY DEF Elems
  <2>2. CASE k < i
    BY <2>1, <2>2, <1>1, <1>5, <1>6 DEF Elems
  <2>3. CASE k > i
    <3>1. k - 1 \in DOMAIN r /\ r[k - 1] = s[k]
      BY <2>1, <2>3, <1>1, <1>5, <1>6
    <3> QED
      BY <3>1, <2>1 DEF Elems
  <2> QED
    BY <1>1, <2>1, <2>2, <2>3
<1> QED
  BY <1>5, <1>7, <1>8, <1>9 DEF r

LEMMA Reversed ==
    ASSUME NEW S, NEW s \in Seq(S), \A j, k \in DOMAIN s : s[j] = s[k] => j = k
    PROVE  /\ Reverse(s) \in Seq(S)
           /\ \A j, k \in DOMAIN Reverse(s) : Reverse(s)[j] = Reverse(s)[k] => j = k
           /\ Elems(Reverse(s)) = Elems(s)
<1>1. DOMAIN s = 1 .. Len(s) /\ Len(s) \in Nat /\ \A j \in 1 .. Len(s) : s[j] \in S
  OBVIOUS
<1>2. DOMAIN Reverse(s) = 1 .. Len(s) /\ Len(Reverse(s)) = Len(s) /\ Reverse(s) \in Seq(S)
  BY <1>1 DEF Reverse
<1>3. \A j \in 1 .. Len(s) : Reverse(s)[j] = s[(Len(s) - j) + 1]
  BY <1>1 DEF Reverse
<1>4. ASSUME NEW j \in DOMAIN Reverse(s), NEW k \in DOMAIN Reverse(s), Reverse(s)[j] = Reverse(s)[k]
      PROVE  j = k
  <2>1. (Len(s) - j) + 1 \in DOMAIN s /\ (Len(s) - k) + 1 \in DOMAIN s
    BY <1>1, <1>2
  <2> QED
    BY <2>1, <1>1, <1>2, <1>3, <1>4
<1>5. \A x \in Elems(Reverse(s)) : x \in Elems(s)
  BY <1>1, <1>2, <1>3 DEF Elems
<1>6. ASSUME NEW x \in Elems(s) PROVE x \in Elems(Reverse(s))
  <2>1. PICK k \in DOMAIN s : x = s[k]
    BY DEF Elems
  <2>2. (Len(s) - k) + 1 \in DOMAIN Reverse(s) /\ Reverse(s)[(Len(s) - k) + 1] = s[k]
    BY <1>1, <1>2, <1>3
  <2> QED
    BY <2>1, <2>2 DEF Elems
<1> QED
  BY <1>2, <1>4, <1>5, <1>6

\* Whatever happens to the machine, nothing that was met is forgotten and no key
\* gets older.
LEMMA MachineGrows ==
    ASSUME CollectTyped, Enumerated, MachineNext
    PROVE  /\ CollectTyped' /\ Enumerated' /\ UNCHANGED <<col, present>>
           /\ Met \subseteq Met' /\ gone \subseteq gone'
           /\ \A d \in Gpus \cup Switches : key[d] <= key'[d]
<1>1. changes' \in Nat /\ UNCHANGED <<col, present>>
  BY CollectAssumption DEF MachineNext, Change, CollectTyped
<1>2. DOMAIN slots = 1 .. Len(slots) /\ Len(slots) \in Nat /\ Elems(slots) \subseteq Gpus
  BY DEF CollectTyped, Elems
<1>3. CASE Replace
  <2>1. PICK i \in DOMAIN slots, g \in Gpus \ (Elems(slots) \cup gone) :
           /\ slots' = [slots EXCEPT ![i] = g]
           /\ gone' = gone \cup {slots[i]}
           /\ UNCHANGED <<cc, fabric, tnvl, key>>
    BY <1>3 DEF Replace
  <2>2. slots' \in Seq(Gpus) /\ DOMAIN slots' = DOMAIN slots
    BY <2>1 DEF CollectTyped
  <2>3. \A j \in DOMAIN slots : slots'[j] = IF j = i THEN g ELSE slots[j]
    BY <2>1 DEF CollectTyped
  <2>4. slots[i] \in Elems(slots) /\ \A j \in DOMAIN slots : slots[j] \in Elems(slots)
    BY DEF Elems
  <2>5. \A x : x \in Elems(slots') <=> \E j \in DOMAIN slots : x = slots'[j]
    BY <2>2 DEF Elems
  <2>6. \A x : x \in Elems(slots) <=> \E j \in DOMAIN slots : x = slots[j]
    BY DEF Elems
  <2>7. \A j, k \in DOMAIN slots' : slots'[j] = slots'[k] => j = k
    BY <2>1, <2>2, <2>3, <2>4 DEF Enumerated
  <2>8. Elems(slots') \cap gone' = {}
    <3> SUFFICES ASSUME NEW x \in Elems(slots') PROVE x \notin gone'
      OBVIOUS
    <3>1. PICK j \in DOMAIN slots : x = slots'[j]
      BY <2>5
    <3>2. CASE j = i
      BY <3>1, <3>2, <2>1, <2>3, <2>4
    <3>3. CASE j # i
      BY <3>1, <3>3, <2>1, <2>3, <2>4 DEF Enumerated
    <3> QED
      BY <3>2, <3>3
  <2>9. \A x \in Elems(slots) : x \in Elems(slots') \/ x \in gone'
    BY <2>1, <2>3, <2>5, <2>6
  <2>10. gone \subseteq gone' /\ gone' \subseteq Gpus \cup Switches
    BY <1>2, <2>1, <2>4 DEF CollectTyped
  <2>11. CollectTyped' /\ UNCHANGED key
    BY <1>1, <2>1, <2>2, <2>10 DEF CollectTyped
  <2>12. Enumerated' /\ Met \subseteq Met'
    BY <2>7, <2>8, <2>9, <2>10 DEF Enumerated, Met
  <2> QED
    BY <1>1, <2>10, <2>11, <2>12 DEF CollectTyped
<1>4. CASE Unplug
  <2>1. PICK i \in DOMAIN slots : /\ slots' = RemoveAt(slots, i)
                                  /\ gone' = gone \cup {slots[i]}
                                  /\ UNCHANGED <<cc, fabric, tnvl, key>>
    BY <1>4 DEF Unplug
  <2>2. /\ slots' \in Seq(Gpus) /\ \A j, k \in DOMAIN slots' : slots'[j] = slots'[k] => j = k
        /\ Elems(slots') = Elems(slots) \ {slots[i]}
    BY <2>1, Unplugged DEF CollectTyped, Enumerated
  <2>3. slots[i] \in Elems(slots)
    BY DEF Elems
  <2> QED
    BY <1>1, <1>2, <2>1, <2>2, <2>3 DEF CollectTyped, Enumerated, Met
<1>5. CASE Add
  <2>1. PICK g \in Gpus \ (Elems(slots) \cup gone) :
           slots' = Append(slots, g) /\ UNCHANGED <<cc, fabric, tnvl, key, gone>>
    BY <1>5 DEF Add
  <2>2. /\ slots' \in Seq(Gpus) /\ DOMAIN slots' = 1 .. Len(slots) + 1
        /\ \A j \in 1 .. Len(slots) + 1 : slots'[j] = IF j = Len(slots) + 1 THEN g ELSE slots[j]
    BY <2>1, <1>2 DEF CollectTyped
  <2>3. \A j \in DOMAIN slots : slots[j] \in Elems(slots)
    BY DEF Elems
  <2>4. \A j, k \in DOMAIN slots' : slots'[j] = slots'[k] => j = k
    BY <1>2, <2>2, <2>3 DEF Enumerated
  <2>5. Elems(slots') = Elems(slots) \cup {g}
    BY <1>2, <2>2 DEF Elems
  <2> QED
    BY <1>1, <1>2, <2>1, <2>2, <2>4, <2>5 DEF CollectTyped, Enumerated, Met
<1>6. CASE Reorder
  <2>1. /\ slots' \in Seq(Gpus) /\ \A j, k \in DOMAIN slots' : slots'[j] = slots'[k] => j = k
        /\ Elems(slots') = Elems(slots) /\ UNCHANGED <<cc, fabric, tnvl, key, gone>>
    BY <1>6, Reversed DEF CollectTyped, Enumerated, Reorder
  <2> QED
    BY <1>1, <2>1 DEF CollectTyped, Enumerated, Met
<1>7. CASE Reset
  <2>1. PICK d \in Elems(slots) \cup fabric :
           key' = [key EXCEPT ![d] = @ + 1] /\ UNCHANGED <<slots, cc, fabric, tnvl, gone>>
    BY <1>7 DEF Reset
  <2>2. d \in Gpus \cup Switches
    BY <1>2 DEF CollectTyped
  <2>3. key' \in [Gpus \cup Switches -> Nat] /\ \A x \in Gpus \cup Switches : key[x] <= key'[x]
    BY <2>1, <2>2 DEF CollectTyped
  <2> QED
    BY <1>1, <2>1, <2>3 DEF CollectTyped, Enumerated, Met, Elems
<1>8. CASE Toggle
  <2>1. UNCHANGED <<slots, fabric, key, gone>> /\ cc' \in {0, 1} /\ tnvl' \in [Switches -> {0, 1}]
    BY <1>8 DEF Toggle, CollectTyped
  <2> QED
    BY <1>1, <2>1 DEF CollectTyped, Enumerated, Met, Elems
<1>9. CASE SwitchLeaves
  <2>1. PICK s \in fabric : /\ fabric' = fabric \ {s} /\ gone' = gone \cup {s}
                            /\ UNCHANGED <<slots, cc, tnvl, key>>
    BY <1>9 DEF SwitchLeaves
  <2>2. s \in Switches /\ s \notin Elems(slots)
    BY <1>2, CollectAssumption DEF CollectTyped
  <2> QED
    BY <1>1, <2>1, <2>2 DEF CollectTyped, Enumerated, Met, Elems
<1> QED
  BY <1>3, <1>4, <1>5, <1>6, <1>7, <1>8, <1>9 DEF MachineNext

LEMMA CollectInitial == CollectInit => CollectInv
<1> SUFFICES ASSUME CollectInit PROVE CollectInv
  OBVIOUS
<1>1. PICK what \in {"status", "token"}, topology \in {"Independent", "ProtectedPcie", "AutoDetect"} :
         CollectFrom(what, topology)
  BY DEF CollectInit
<1>2. slots \in Seq(Gpus) /\ Enumerated
  BY <1>1, CollectAssumption DEF CollectFrom, Enumerated, Elems
<1>3. CollectTyped
  BY <1>1, <1>2 DEF CollectFrom, CollectTyped, Collections
<1> QED
  BY <1>1, <1>2, <1>3 DEF CollectFrom, CollectInv, TakenOnce, Recounted, KeysOrdered, AtSwitch, AfterRecheck

LEMMA MachineKeeps == CollectInv /\ MachineNext => CollectInv'
<1> SUFFICES ASSUME CollectInv, MachineNext PROVE CollectInv'
  OBVIOUS
<1> USE DEF CollectInv
<1>1. /\ CollectTyped' /\ Enumerated' /\ UNCHANGED <<col, present>>
      /\ Met \subseteq Met' /\ gone \subseteq gone'
      /\ \A d \in Gpus \cup Switches : key[d] <= key'[d]
  BY MachineGrows
<1>2. TakenOnce'
  BY <1>1 DEF TakenOnce
<1>3. Recounted'
  BY <1>1 DEF Recounted
<1>4. KeysOrdered'
  <2>1. \A d \in Switches : key[d] \in Nat /\ key'[d] \in Nat /\ key[d] <= key'[d]
    BY <1>1 DEF CollectTyped
  <2>2. col.read \in Nat /\ col.signed \in Nat /\ col'= col
    BY <1>1 DEF CollectTyped, Collections
  <2>3. col.pc = "quote" => col.read <= key'[col.cur]
    BY <2>1, <2>2 DEF KeysOrdered, AtSwitch
  <2>4. col.pc \in {"modeAgain", "chainAgain"} => col.read <= col.signed /\ col.signed <= key'[col.cur]
    BY <2>1, <2>2 DEF KeysOrdered, AtSwitch
  <2> QED
    BY <2>2, <2>3, <2>4 DEF KeysOrdered
<1> QED
  BY <1>1, <1>2, <1>3, <1>4

\* A step that only moves the collection, without touching what the invariant
\* says of the GPUs taken.
LEMMA FailsKeeps == CollectInv /\ Give => CollectInv'
<1> SUFFICES ASSUME CollectInv, Give PROVE CollectInv'
  OBVIOUS
<1>1. UNCHANGED <<slots, cc, fabric, tnvl, key, gone, changes, present>> /\ col' = [col EXCEPT !.pc = "failed"]
  BY DEF Give, Goto, machine
<1>2. CollectTyped'
  BY <1>1 DEF CollectInv, CollectTyped, Collections
<1>3. /\ col'.pc = "failed" /\ col'.gpus = col.gpus /\ col'.switches = col.switches /\ Met' = Met
      /\ Elems(slots)' = Elems(slots)
  BY <1>1 DEF CollectInv, CollectTyped, Collections, Met, Elems
<1> QED
  BY <1>1, <1>2, <1>3 DEF CollectInv, Enumerated, TakenOnce, Recounted, KeysOrdered, AtSwitch, AfterRecheck

\* Taking a GPU that was met and is not among those taken.
LEMMA TakeKeeps ==
    ASSUME CollectInv, NEW gpu \in GpuReadings, gpu.uuid \in Met,
           col.pc \in {"device", "report"}, Take(gpu), UNCHANGED <<machine, present>>
    PROVE  CollectInv'
<1> USE DEF CollectInv
<1> DEFINE n == Len(col.gpus)
<1>1. UNCHANGED <<slots, cc, fabric, tnvl, key, gone, changes, present>>
  BY DEF machine
<1>2. /\ col.gpus \in Seq(GpuReadings) /\ n \in Nat /\ DOMAIN col.gpus = 1 .. n /\ col.count \in Nat
      /\ n < col.count
  BY DEF CollectTyped, Collections, TakenOnce
<1>3. /\ col' = [col EXCEPT !.gpus = Append(@, gpu), !.cur = NoDevice,
                            !.pc = IF n + 1 = col.count THEN "recount" ELSE "device"]
      /\ \A i \in 1 .. n : col.gpus[i].uuid # gpu.uuid
  BY <1>2 DEF Take, Index
<1>4. /\ Append(col.gpus, gpu) \in Seq(GpuReadings) /\ DOMAIN Append(col.gpus, gpu) = 1 .. n + 1
      /\ Len(Append(col.gpus, gpu)) = n + 1
      /\ \A i \in 1 .. n + 1 : Append(col.gpus, gpu)[i] = IF i = n + 1 THEN gpu ELSE col.gpus[i]
  BY <1>2
<1> HIDE DEF n
<1>5. CollectTyped'
  <2> DEFINE p == IF n + 1 = col.count THEN "recount" ELSE "device"
             taken == Append(col.gpus, gpu)
  <2>1. p \in {"start", "device", "certificate", "report", "recount", "recheck", "failed"} \cup AfterRecheck
    OBVIOUS
  <2>2. col' = [col EXCEPT !.gpus = taken, !.cur = NoDevice, !.pc = p]
    BY <1>3
  <2>3. taken \in Seq(GpuReadings)
    BY <1>4
  <2> HIDE DEF p, taken
  <2>4. col' \in Collections
    BY <2>1, <2>2, <2>3 DEF CollectTyped, Collections
  <2> QED
    BY <1>1, <2>4 DEF CollectTyped
<1>6. /\ col'.gpus = Append(col.gpus, gpu) /\ col'.count = col.count /\ col'.switches = col.switches
      /\ col'.pc = IF n + 1 = col.count THEN "recount" ELSE "device"
  BY <1>3 DEF CollectTyped, Collections
<1>7. TakenOnce'
  <2>1. ASSUME NEW i \in DOMAIN col'.gpus PROVE col'.gpus[i].uuid \in Met'
    <3>1. i \in 1 .. n + 1 /\ (i # n + 1 => i \in 1 .. n) /\ col'.gpus[i] = IF i = n + 1 THEN gpu ELSE col.gpus[i]
      BY <1>2, <1>4, <1>6
    <3>2. col'.gpus[i].uuid \in Met
      BY <3>1, <1>2 DEF TakenOnce
    <3> QED
      BY <3>2, <1>1 DEF Met, Elems
  <2>2. ASSUME NEW i \in DOMAIN col'.gpus, NEW j \in DOMAIN col'.gpus, col'.gpus[i].uuid = col'.gpus[j].uuid
        PROVE  i = j
    <3>1. /\ i \in 1 .. n + 1 /\ (i # n + 1 => i \in 1 .. n) /\ col'.gpus[i] = IF i = n + 1 THEN gpu ELSE col.gpus[i]
          /\ j \in 1 .. n + 1 /\ (j # n + 1 => j \in 1 .. n) /\ col'.gpus[j] = IF j = n + 1 THEN gpu ELSE col.gpus[j]
      BY <1>2, <1>4, <1>6
    <3> QED
      BY <2>2, <3>1, <1>2, <1>3 DEF TakenOnce
  <2>3. Len(col'.gpus) = n + 1 /\ (n + 1 = col.count \/ n + 1 < col.count)
    BY <1>2, <1>4, <1>6
  <2> QED
    BY <1>6, <2>1, <2>2, <2>3 DEF TakenOnce, AtSwitch, AfterRecheck
<1> QED
  BY <1>1, <1>5, <1>6, <1>7 DEF Enumerated, Recounted, KeysOrdered, Elems, AtSwitch, AfterRecheck

LEMMA NvmlKeeps == CollectInv /\ NvmlNext => CollectInv'
<1> SUFFICES ASSUME CollectInv, NvmlNext PROVE CollectInv'
  OBVIOUS
<1> USE DEF CollectInv
<1>0. /\ slots \in Seq(Gpus) /\ Len(slots) \in Nat /\ DOMAIN slots = 1 .. Len(slots)
      /\ \A i \in DOMAIN slots : slots[i] \in Gpus /\ slots[i] \in Elems(slots) /\ slots[i] \in Met
      /\ \A g \in Elems(slots) : g \in Met /\ g \in Gpus /\ key[g] \in Nat
  BY DEF CollectTyped, Elems, Met
<1>16. /\ col.gpus \in Seq(GpuReadings) /\ Len(col.gpus) \in Nat /\ DOMAIN col.gpus = 1 .. Len(col.gpus)
       /\ col.count \in Nat /\ col.next \in Nat /\ col.read \in Nat
  BY DEF CollectTyped, Collections
<1>1. CASE CollectStart
  <2>1. UNCHANGED <<slots, cc, fabric, tnvl, key, gone, changes, present>> /\ col.gpus = <<>>
    BY <1>1 DEF CollectStart, machine, TakenOnce
  <2>2. CollectTyped'
    BY <1>0, <1>1, <2>1, ZenonT(30) DEF CollectStart, CollectTyped, Collections
  <2>3. /\ col'.gpus = <<>> /\ col'.switches = col.switches
        /\ col'.pc \in {"failed", "recount", "device"}
        /\ col'.pc = "recount" => col'.count = 0
        /\ col'.pc = "device" => 0 < col'.count
    BY <1>0, <1>1, <2>1 DEF CollectStart, CollectTyped, Collections
  <2> QED
    BY <2>1, <2>2, <2>3 DEF Enumerated, TakenOnce, Recounted, KeysOrdered, Elems, AtSwitch, AfterRecheck
<1>2. CASE DeviceOpen
  <2>0. col.pc = "device" /\ Index \in DOMAIN slots /\ UNCHANGED <<machine, present>>
    BY <1>0, <1>16, <1>2 DEF DeviceOpen, Index
  <2>1. CASE col.what = "status"
    <3>1. [uuid |-> slots[Index], cert |-> 0, report |-> 0] \in GpuReadings
      BY <1>0, <2>0 DEF GpuReadings
    <3> QED
      BY <1>0, <1>2, <2>0, <2>1, <3>1, TakeKeeps DEF DeviceOpen
  <2>2. CASE col.what # "status"
    <3>1. /\ UNCHANGED <<slots, cc, fabric, tnvl, key, gone, changes, present>>
          /\ col' = [col EXCEPT !.cur = slots[Index], !.pc = "certificate"] /\ slots[Index] \in Gpus
      BY <1>0, <1>2, <2>0, <2>2 DEF DeviceOpen, machine
    <3>2. CollectTyped'
      BY <3>1 DEF CollectTyped, Collections
    <3>3. /\ col'.gpus = col.gpus /\ col'.switches = col.switches /\ col'.count = col.count
          /\ col'.pc = "certificate" /\ col'.cur \in Met /\ Met' = Met
      BY <1>0, <2>0, <3>1 DEF CollectTyped, Collections, Met, Elems
    <3> QED
      BY <2>0, <3>1, <3>2, <3>3 DEF Enumerated, TakenOnce, Recounted, KeysOrdered, Elems, AtSwitch, AfterRecheck
  <2> QED
    BY <2>1, <2>2
<1>3. CASE DeviceCertificate
  <2>1. /\ UNCHANGED <<slots, cc, fabric, tnvl, key, gone, changes, present>>
        /\ col' = [col EXCEPT !.pc = "report", !.read = key[col.cur]] /\ col.cur \in Elems(slots)
        /\ col.pc = "certificate"
    BY <1>3 DEF DeviceCertificate, machine
  <2>2. CollectTyped'
    BY <1>0, <2>1 DEF CollectTyped, Collections
  <2>3. /\ col'.gpus = col.gpus /\ col'.switches = col.switches /\ col'.count = col.count
        /\ col'.pc = "report" /\ col'.cur \in Met /\ Met' = Met
    BY <1>0, <2>1 DEF CollectTyped, Collections, Met, Elems
  <2> QED
    BY <2>1, <2>2, <2>3 DEF Enumerated, TakenOnce, Recounted, KeysOrdered, Elems, AtSwitch, AfterRecheck
<1>4. CASE collect_device
  <2>1. [uuid |-> col.cur, cert |-> col.read, report |-> key[col.cur]] \in GpuReadings /\ col.cur \in Met
    BY <1>0, <1>16, <1>4 DEF collect_device, GpuReadings
  <2> QED
    BY <1>4, <2>1, TakeKeeps DEF collect_device
<1>5. CASE Recount
  <2>1. /\ UNCHANGED <<slots, cc, fabric, tnvl, key, gone, changes>> /\ col.pc = "recount"
        /\ col' = [col EXCEPT !.pc = IF col.count = 0 THEN "listed" ELSE "recheck", !.next = 1]
        /\ present' = Elems(slots) /\ Len(slots) = col.count
    BY <1>5 DEF Recount, machine
  <2>2. CollectTyped'
    BY <1>0, <2>1 DEF CollectTyped, Collections, AfterRecheck
  <2>3. /\ col'.gpus = col.gpus /\ col'.switches = col.switches /\ col'.count = col.count /\ Met' = Met
        /\ col'.next = 1 /\ col'.pc = IF col.count = 0 THEN "listed" ELSE "recheck"
    BY <1>0, <2>1 DEF CollectTyped, Collections, Met, Elems
  <2>4. IsFiniteSet(present') /\ Cardinality(present') = col'.count
    BY <1>0, <2>1, <2>3, ElemsCounted DEF Enumerated
  <2>5. \A i \in DOMAIN col'.gpus : col'.gpus[i].uuid \in present' \cup gone'
    BY <2>1, <2>3 DEF TakenOnce, Met
  <2>6. Len(col.gpus) = col.count
    BY <2>1 DEF TakenOnce
  <2>7. Recounted'
    BY <1>16, <2>3, <2>4, <2>5, <2>6 DEF Recounted, AtSwitch, AfterRecheck
  <2> QED
    BY <2>1, <2>2, <2>3, <2>6, <2>7 DEF Enumerated, TakenOnce, KeysOrdered, Elems, AtSwitch, AfterRecheck
<1>6. CASE Recheck
  <2>1. /\ UNCHANGED <<slots, cc, fabric, tnvl, key, gone, changes, present>> /\ col.pc = "recheck"
        /\ col' = [col EXCEPT !.next = @ + 1, !.pc = IF col.next = col.count THEN "listed" ELSE @]
        /\ col.next <= Len(slots) /\ slots[col.next] = col.gpus[col.next].uuid
    BY <1>6 DEF Recheck, machine
  <2>10. col.next + 1 \in Nat /\ (IF col.next = col.count THEN "listed" ELSE col.pc) \in {"listed", "recheck"}
    BY <1>16, <2>1
  <2>11. col' \in Collections
    BY <2>1, <2>10 DEF CollectTyped, Collections, AfterRecheck
  <2>2. CollectTyped'
    BY <2>1, <2>11 DEF CollectTyped
  <2>3. /\ col'.gpus = col.gpus /\ col'.switches = col.switches /\ col'.count = col.count /\ Met' = Met
        /\ col'.next = col.next + 1 /\ col'.pc = IF col.next = col.count THEN "listed" ELSE "recheck"
    BY <1>0, <2>1 DEF CollectTyped, Collections, Met, Elems
  <2>4. col.next \in 1 .. col.count /\ Len(col.gpus) = col.count
    BY <2>1 DEF Recounted, TakenOnce
  <2>5. col.gpus[col.next].uuid \in present
    <3>1. col.gpus[col.next].uuid \in Elems(slots)
      BY <1>0, <2>1, <2>4
    <3>2. col.gpus[col.next].uuid \in present \cup gone
      BY <1>16, <2>1, <2>4 DEF Recounted
    <3> QED
      BY <3>1, <3>2 DEF Enumerated
  <2>6. \A i \in 1 .. col'.next - 1 : col'.gpus[i].uuid \in present'
    <3> SUFFICES ASSUME NEW i \in 1 .. col.next PROVE col.gpus[i].uuid \in present
      BY <2>1, <2>3, <2>4
    <3>1. i = col.next \/ i \in 1 .. col.next - 1
      BY <2>4
    <3> QED
      BY <2>1, <2>5, <3>1 DEF Recounted
  <2>7. Recounted'
    <3>1. CASE col.next = col.count
      <4>1. col'.pc = "listed" /\ \A i \in DOMAIN col'.gpus : i \in 1 .. col'.next - 1
        BY <1>16, <2>3, <2>4, <3>1
      <4> QED
        BY <2>1, <2>3, <2>6, <4>1 DEF Recounted, AtSwitch, AfterRecheck
    <3>2. CASE col.next # col.count
      <4>1. col'.pc = "recheck" /\ col'.next \in 1 .. col'.count
        BY <1>16, <2>3, <2>4, <3>2
      <4> QED
        BY <2>1, <2>3, <2>6, <4>1 DEF Recounted, AtSwitch, AfterRecheck
    <3> QED
      BY <3>1, <3>2
  <2> QED
    BY <2>1, <2>2, <2>3, <2>4, <2>7 DEF Enumerated, TakenOnce, KeysOrdered, Elems, AtSwitch, AfterRecheck
<1>7. CASE NvmlFails
  BY <1>7, FailsKeeps DEF NvmlFails
<1> QED
  BY <1>1, <1>2, <1>3, <1>4, <1>5, <1>6, <1>7 DEF NvmlNext

\* A step past the recheck leaves the GPUs taken as they are.
LEMMA SettledKeeps ==
    ASSUME CollectInv, UNCHANGED <<slots, cc, fabric, tnvl, key, gone, changes, present>>,
           col' \in Collections, col.pc \in AfterRecheck, col'.pc \in AfterRecheck,
           col'.gpus = col.gpus, col'.count = col.count, KeysOrdered'
    PROVE  CollectInv'
<1>1. CollectTyped' /\ Met' = Met
  BY DEF CollectInv, CollectTyped, Met, Elems
<1> QED
  BY <1>1 DEF CollectInv, Enumerated, TakenOnce, Recounted, Elems, AtSwitch, AfterRecheck

LEMMA NscqKeeps == CollectInv /\ NscqNext => CollectInv'
<1> SUFFICES ASSUME CollectInv, NscqNext PROVE CollectInv'
  OBVIOUS
<1> USE DEF CollectInv
<1>0. /\ col \in Collections /\ fabric \subseteq Switches /\ tnvl \in [Switches -> {0, 1}]
      /\ \A s \in Switches : key[s] \in Nat /\ tnvl[s] \in {0, 1}
  BY DEF CollectTyped
<1>1. CASE Inventory
  <2>1. PICK s \in fabric : 
         col' = [col EXCEPT !.inventory = fabric, !.todo = fabric \ {s}, !.cur = s, !.pc = "mode"]
    BY <1>1 DEF Inventory
  <2>2. UNCHANGED <<slots, cc, fabric, tnvl, key, gone, changes, present>> /\ col.pc = "switches"
    BY <1>1 DEF Inventory, machine
  <2>3. /\ col' \in Collections /\ col'.pc = "mode" /\ col'.gpus = col.gpus /\ col'.count = col.count
        /\ col'.switches = col.switches /\ col'.cur \in Switches
    BY <1>0, <2>1 DEF Collections, AfterRecheck, AtSwitch
  <2> QED
    BY <2>2, <2>3, SettledKeeps DEF KeysOrdered, AfterRecheck, AtSwitch
<1>2. CASE SwitchMode
  <2>1. /\ UNCHANGED <<slots, cc, fabric, tnvl, key, gone, changes, present>> /\ col.pc = "mode"
        /\ col' = [col EXCEPT !.mode = tnvl[col.cur], !.pc = "chain"] /\ col.cur \in Switches
    BY <1>2 DEF SwitchMode, machine, KeysOrdered, AtSwitch
  <2>2. /\ col' \in Collections /\ col'.pc = "chain" /\ col'.gpus = col.gpus /\ col'.count = col.count
        /\ col'.switches = col.switches /\ col'.cur = col.cur
    BY <1>0, <2>1 DEF Collections, AfterRecheck, AtSwitch
  <2> QED
    BY <2>1, <2>2, SettledKeeps DEF KeysOrdered, AfterRecheck, AtSwitch
<1>3. CASE SwitchCertificate
  <2>1. /\ UNCHANGED <<slots, cc, fabric, tnvl, key, gone, changes, present>> /\ col.pc = "chain"
        /\ col' = [col EXCEPT !.read = key[col.cur], !.pc = "quote"] /\ col.cur \in Switches
    BY <1>3 DEF SwitchCertificate, machine, KeysOrdered, AtSwitch
  <2>2. /\ col' \in Collections /\ col'.pc = "quote" /\ col'.gpus = col.gpus /\ col'.count = col.count
        /\ col'.switches = col.switches /\ col'.cur = col.cur /\ col'.read = key[col.cur]
    BY <1>0, <2>1 DEF Collections, AfterRecheck, AtSwitch
  <2>3. col'.read <= key'[col'.cur]
    BY <1>0, <2>1, <2>2
  <2> QED
    BY <2>1, <2>2, <2>3, SettledKeeps DEF KeysOrdered, AfterRecheck, AtSwitch
<1>4. CASE SwitchReport
  <2>1. /\ UNCHANGED <<slots, cc, fabric, tnvl, key, gone, changes, present>> /\ col.pc = "quote"
        /\ col' = [col EXCEPT !.signed = key[col.cur], !.pc = "modeAgain"] /\ col.cur \in Switches
        /\ col.read <= key[col.cur]
    BY <1>4 DEF SwitchReport, machine, KeysOrdered, AtSwitch
  <2>2. /\ col' \in Collections /\ col'.pc = "modeAgain" /\ col'.gpus = col.gpus /\ col'.count = col.count
        /\ col'.switches = col.switches /\ col'.cur = col.cur /\ col'.signed = key[col.cur]
        /\ col'.read = col.read
    BY <1>0, <2>1 DEF Collections, AfterRecheck, AtSwitch
  <2>3. col'.read <= col'.signed /\ col'.signed <= key'[col'.cur]
    BY <1>0, <2>1, <2>2
  <2> QED
    BY <2>1, <2>2, <2>3, SettledKeeps DEF KeysOrdered, AfterRecheck, AtSwitch
<1>5. CASE SwitchModeAgain
  <2>1. /\ UNCHANGED <<slots, cc, fabric, tnvl, key, gone, changes, present>> /\ col.pc = "modeAgain"
        /\ col' = [col EXCEPT !.pc = "chainAgain"] /\ col.cur \in Switches
    BY <1>5 DEF SwitchModeAgain, Goto, machine, KeysOrdered, AtSwitch
  <2>2. /\ col' \in Collections /\ col'.pc = "chainAgain" /\ col'.gpus = col.gpus /\ col'.count = col.count
        /\ col'.switches = col.switches /\ col'.cur = col.cur /\ col'.signed = col.signed
        /\ col'.read = col.read
    BY <1>0, <2>1 DEF Collections, AfterRecheck, AtSwitch
  <2> QED
    BY <2>1, <2>2, SettledKeeps DEF KeysOrdered, AfterRecheck, AtSwitch
<1>6. CASE SwitchTaken
  <2>1. PICK pick \in IF col.todo = {} THEN {NoDevice} ELSE col.todo :
          col' = [col EXCEPT
              !.switches = @ \cup {[uuid |-> col.cur, cert |-> col.read, report |-> col.signed]},
              !.todo = @ \ {pick}, !.cur = pick,
              !.pc = IF pick = NoDevice THEN "inventoryAgain" ELSE "mode"]
    BY <1>6 DEF SwitchTaken
  <2>2. /\ UNCHANGED <<slots, cc, fabric, tnvl, key, gone, changes, present>> /\ col.pc = "chainAgain"
        /\ key[col.cur] = col.read /\ col.cur \in Switches
        /\ col.read <= col.signed /\ col.signed <= key[col.cur]
    BY <1>6 DEF SwitchTaken, machine, KeysOrdered, AtSwitch
  <2>3. col.signed \in Nat /\ col.read \in Nat /\ col.todo \subseteq Switches
    BY <1>0 DEF Collections
  <2>4. col.read = col.signed
    BY <2>2, <2>3
  <2>5. pick \in Switches \cup {NoDevice} /\ (pick # NoDevice => pick \in Switches)
    BY <2>3
  <2>10. /\ [uuid |-> col.cur, cert |-> col.read, report |-> col.signed] \in SwitchReadings
        /\ (IF pick = NoDevice THEN "inventoryAgain" ELSE "mode") \in {"inventoryAgain", "mode"}
        /\ pick \in Gpus \cup Switches \cup {NoDevice}
    BY <2>2, <2>3, <2>5 DEF SwitchReadings
  <2>6. /\ col' \in Collections /\ col'.pc = (IF pick = NoDevice THEN "inventoryAgain" ELSE "mode")
        /\ col'.gpus = col.gpus /\ col'.count = col.count /\ col'.cur = pick
        /\ col'.switches = col.switches \cup {[uuid |-> col.cur, cert |-> col.read, report |-> col.signed]}
    BY <1>0, <2>1, <2>10 DEF Collections, AfterRecheck, AtSwitch
  <2>7. KeysOrdered'
    BY <2>4, <2>5, <2>6 DEF KeysOrdered, AtSwitch
  <2> QED
    BY <2>2, <2>6, <2>7, SettledKeeps DEF AfterRecheck, AtSwitch
<1>7. CASE InventoryAgain
  <2>1. /\ UNCHANGED <<slots, cc, fabric, tnvl, key, gone, changes, present>> /\ col.pc = "inventoryAgain"
        /\ col' = [col EXCEPT !.pc = "cpu"]
    BY <1>7 DEF InventoryAgain, Goto, machine
  <2>2. /\ col' \in Collections /\ col'.pc = "cpu" /\ col'.gpus = col.gpus /\ col'.count = col.count
        /\ col'.switches = col.switches
    BY <1>0, <2>1 DEF Collections, AfterRecheck, AtSwitch
  <2> QED
    BY <2>1, <2>2, SettledKeeps DEF KeysOrdered, AfterRecheck, AtSwitch
<1>8. CASE NscqFails
  BY <1>8, FailsKeeps DEF NscqFails
<1> QED
  BY <1>1, <1>2, <1>3, <1>4, <1>5, <1>6, <1>7, <1>8 DEF NscqNext

LEMMA GotoKeeps ==
    ASSUME CollectInv, NEW stage \in {"switches", "cpu", "done", "failed"}, col.pc \in {"listed", "cpu"},
           Goto(stage), UNCHANGED <<machine, present>>
    PROVE  CollectInv'
<1>1. CASE stage = "failed"
  BY <1>1, FailsKeeps DEF Give
<1>2. CASE stage # "failed"
  <2>1. UNCHANGED <<slots, cc, fabric, tnvl, key, gone, changes, present>> /\ col' = [col EXCEPT !.pc = stage]
    BY DEF Goto, machine
  <2>2. /\ col' \in Collections /\ col'.pc = stage /\ col'.gpus = col.gpus /\ col'.count = col.count
        /\ col'.switches = col.switches
    BY <1>2, <2>1 DEF CollectInv, CollectTyped, Collections, AfterRecheck, AtSwitch
  <2>3. KeysOrdered'
    BY <1>2, <2>1, <2>2 DEF CollectInv, KeysOrdered, AtSwitch
  <2> QED
    BY <1>2, <2>1, <2>2, <2>3, SettledKeeps DEF AfterRecheck, AtSwitch
<1> QED
  BY <1>1, <1>2

LEMMA CollectKeeps == CollectInv /\ [CollectNext]_collectVars => CollectInv'
<1> SUFFICES ASSUME CollectInv, [CollectNext]_collectVars PROVE CollectInv'
  OBVIOUS
<1>1. CASE NvmlNext
  BY <1>1, NvmlKeeps
<1>2. CASE NscqNext
  BY <1>2, NscqKeeps
<1>3. CASE Topology
  <2>1. col.pc = "listed" /\ UNCHANGED <<machine, present>>
    BY <1>3 DEF Topology
  <2>2. \E stage \in {"switches", "cpu", "done", "failed"} : Goto(stage)
    BY <1>3 DEF Topology
  <2> QED
    BY <2>1, <2>2, GotoKeeps
<1>4. ASSUME NEW ok \in BOOLEAN, CpuQuote(ok) PROVE CollectInv'
  <2>1. col.pc = "cpu" /\ UNCHANGED <<machine, present>> /\ (Goto("done") \/ Goto("failed"))
    BY <1>4 DEF CpuQuote, Goto
  <2> QED
    BY <2>1, GotoKeeps
<1>5. CASE MachineNext
  BY <1>5, MachineKeeps
<1>6. CASE UNCHANGED collectVars
  BY <1>6 DEF collectVars, machine, CollectInv, CollectTyped, Enumerated, TakenOnce, Recounted, KeysOrdered,
        Met, Elems
<1> QED
  BY <1>1, <1>2, <1>3, <1>4, <1>5, <1>6 DEF CollectNext

\* While GPUs and switches come and go under it, a collection has named no GPU
\* twice and only ones that were there, and paired no switch with a newer key.
THEOREM CollectInvariance == CollectSpec => []CollectInv
<1>1. CollectInit => CollectInv
  BY CollectInitial
<1>2. CollectInv /\ [CollectNext]_collectVars => CollectInv'
  BY CollectKeeps
<1> QED
  BY <1>1, <1>2, PTL DEF CollectSpec

\* However GPUs are exchanged, added, removed and renumbered while a collection
\* reads them index by index, the GPUs it names are the ones enumerated at its
\* recount: the index-wise comparison in NvmlCollector suffices.
THEOREM CollectOneInventory == CollectSpec => []InventorySnapshot
<1>1. CollectInv => InventorySnapshot
  <2> SUFFICES ASSUME CollectInv, col.pc \in {"switches", "cpu", "done"}
               PROVE  /\ {col.gpus[i].uuid : i \in DOMAIN col.gpus} = present
                      /\ Len(col.gpus) = Cardinality(present)
    BY DEF InventorySnapshot
  <2> DEFINE u == [i \in 1 .. Len(col.gpus) |-> col.gpus[i].uuid]
  <2>0. col.gpus \in Seq(GpuReadings)
    BY DEF CollectInv, CollectTyped, Collections
  <2>8. /\ Len(col.gpus) \in Nat /\ DOMAIN col.gpus = 1 .. Len(col.gpus)
         /\ \A i \in DOMAIN col.gpus : col.gpus[i] \in GpuReadings
    BY <2>0
  <2>1. /\ Len(col.gpus) \in Nat /\ DOMAIN col.gpus = 1 .. Len(col.gpus)
        /\ \A i \in DOMAIN col.gpus : col.gpus[i].uuid \in Gpus
    BY <2>8 DEF GpuReadings
  <2>2. u \in Seq(Gpus) /\ DOMAIN u = DOMAIN col.gpus /\ Len(u) = Len(col.gpus)
    BY <2>1
  <2>3. \A i, j \in DOMAIN u : u[i] = u[j] => i = j
    BY <2>1 DEF CollectInv, TakenOnce
  <2>4. Elems(u) = {col.gpus[i].uuid : i \in DOMAIN col.gpus}
    BY <2>1 DEF Elems
  <2> HIDE DEF u
  <2>5. Cardinality(Elems(u)) = Len(col.gpus)
    BY <2>2, <2>3, ElemsCounted
  <2>6. /\ Len(col.gpus) = col.count /\ IsFiniteSet(present) /\ Cardinality(present) = col.count
        /\ \A i \in DOMAIN col.gpus : col.gpus[i].uuid \in present
    BY DEF CollectInv, TakenOnce, Recounted, AfterRecheck
  <2>7. Elems(u) \subseteq present
    BY <2>4, <2>6
  <2> QED
    BY <2>4, <2>5, <2>6, <2>7, FS_Subset
<1> QED
  BY <1>1, CollectInvariance, PTL

\* However often a switch is reset, no collected report is paired with the chain
\* of another key: reading the chain before and after the report suffices because
\* a device never returns to an earlier key.
THEOREM CollectSwitchesMatch == CollectSpec => []SwitchReportMatches
<1>1. CollectInv => SwitchReportMatches
  BY DEF CollectInv, KeysOrdered, SwitchReportMatches
<1> QED
  BY <1>1, CollectInvariance, PTL

-----------------------------------------------------------------------------
(* Appraising a bundle.                                                     *)

WantedGpu(r) ==
    {<<"GpuDriver", r.model, r.opaque.fields[3]>>, <<"GpuVbios", r.model, r.opaque.fields[6]>>}

Answered(r) == r.nonce = Nonce /\ r.chain /\ r.signed /\ Adverse \cap r.tcb[1].flags = {}

\* The signed peers of a GPU of a fabric, and of a switch, are the enrolled ones.
GpuLinked(pol, r) ==
    \A p \in Enrolled(pol.devices, r.id) :
       p.mode = "Ppcie" => pdi_set(r.opaque, 22) # {} /\ Expected(pdi_set(r.opaque, 22), p, pol.switches)
SwitchLinked(pol, r) ==
    /\ pdi_set(r.opaque, 26) # {}
    /\ \A p \in Enrolled(pol.switches, r.id) :
          r.opaque.fields[22] = p.pdi /\ pdi_set(r.opaque, 26) = p.gpuPdis

Reported(r, rims, i) ==
    \/ \E m \in InSeq(r.measurements) : m.index = i /\ m.value \in Golden(rims, i)
    \/ i = NVDEC /\ r.opaque.fields[11] /\ \E m \in InSeq(r.measurements) : m.index = i
MeasuresCovered(rims, r) ==
    \A i \in ActiveIndices(Chosen(rims, WantedGpu(r))) : Reported(r, Chosen(rims, WantedGpu(r)), i)

AtGpu == {"gpuRims", "gpuMeasure"}
AtNvSwitch == {"switchRims", "switchMeasure"}

AppraiseTyped ==
    /\ Submission(case)
    /\ DOMAIN vf = {"pc", "i", "j", "seen", "edges", "rims", "remaining", "nvdec", "devices", "switches"}
    /\ vf.pc \in {"open", "gpu", "switch", "accepted", "rejected"} \cup AtGpu \cup AtNvSwitch
    /\ vf.i \in Nat \ {0} /\ vf.j \in Nat \ {0}
    /\ vf.devices \in Seq(InSeq(submitted.gpus)) /\ vf.switches \in Seq(InSeq(submitted.switches))

Opened ==
    vf.pc \notin {"open", "rejected"} =>
       /\ validate(policy)
       /\ Len(submitted.gpus) = Len(policy.devices) /\ Len(submitted.switches) = Len(policy.switches)

\* As many reports are appraised as were walked.
Walked ==
    /\ vf.pc = "open" => vf.i = 1 /\ vf.devices = <<>> /\ vf.switches = <<>>
    /\ vf.pc \in {"gpu"} \cup AtGpu =>
          Len(vf.devices) = vf.i - 1 /\ vf.i <= Len(submitted.gpus) + 1 /\ vf.switches = <<>>
    /\ vf.pc \in AtGpu => vf.i <= Len(submitted.gpus)
    /\ vf.pc \in {"switch", "accepted"} \cup AtNvSwitch => Len(vf.devices) = Len(submitted.gpus)
    /\ vf.pc \in {"switch"} \cup AtNvSwitch =>
          Len(vf.switches) = vf.i - 1 /\ vf.i <= Len(submitted.switches) + 1
    /\ vf.pc \in AtNvSwitch => vf.i <= Len(submitted.switches)
    /\ vf.pc = "accepted" => Len(vf.switches) = Len(submitted.switches)

\* No identity is appraised twice, the one at hand included.
Apart ==
    /\ \A k, l \in DOMAIN vf.devices : vf.devices[k].id = vf.devices[l].id => k = l
    /\ \A k, l \in DOMAIN vf.switches : vf.switches[k].id = vf.switches[l].id => k = l
    /\ \A k \in DOMAIN vf.devices : vf.devices[k].id \in vf.seen
    /\ \A k \in DOMAIN vf.switches : vf.switches[k].id \in vf.seen
    /\ vf.pc \in AtGpu => \A k \in DOMAIN vf.devices : vf.devices[k].id # submitted.gpus[vf.i].id
    /\ vf.pc \in AtGpu => submitted.gpus[vf.i].id \in vf.seen
    /\ vf.pc \in AtNvSwitch =>
          \A k \in DOMAIN vf.switches : vf.switches[k].id # submitted.switches[vf.i].id
    /\ vf.pc \in AtNvSwitch => submitted.switches[vf.i].id \in vf.seen

GpuAuthentic(pol, r) == Answered(r) /\ Enrolled(pol.devices, r.id) # {}
SwitchAuthentic(pol, r) == Answered(r) /\ Enrolled(pol.switches, r.id) # {} /\ SwitchLinked(pol, r)
Vouched ==
    /\ \A k \in DOMAIN vf.devices :
          /\ GpuAuthentic(policy, vf.devices[k]) /\ GpuLinked(policy, vf.devices[k])
          /\ MeasuresCovered(submitted.rims, vf.devices[k])
    /\ \A k \in DOMAIN vf.switches : SwitchAuthentic(policy, vf.switches[k])
    /\ vf.pc \in AtGpu => GpuAuthentic(policy, submitted.gpus[vf.i])
    /\ vf.pc \in AtNvSwitch => SwitchAuthentic(policy, submitted.switches[vf.i])

\* Halfway through a GPU's measurements: those seen are disposed of, and only
\* they are no longer awaited.
Halfway ==
    vf.pc = "gpuMeasure" =>
       LET r == submitted.gpus[vf.i] IN
       /\ vf.rims = Chosen(submitted.rims, WantedGpu(r)) /\ (vf.nvdec => r.opaque.fields[11])
       /\ \A i \in ActiveIndices(vf.rims) :
             i \in vf.remaining \/ \E k \in DOMAIN r.measurements : k < vf.j /\ r.measurements[k].index = i
       /\ \A k \in DOMAIN r.measurements : k < vf.j =>
             \/ r.measurements[k].index = NVDEC /\ vf.nvdec
             \/ Disposed(r.measurements[k])

AppraiseInv == AppraiseTyped /\ Opened /\ Walked /\ Apart /\ Vouched /\ Halfway

LEMMA AppraiseInitial == AppraiseFrom(case) => AppraiseInv
<1> SUFFICES ASSUME AppraiseFrom(case) PROVE AppraiseInv
  OBVIOUS
<1>1. AppraiseTyped
  BY DEF AppraiseFrom, AppraiseTyped
<1> QED
  BY <1>1 DEF AppraiseFrom, AppraiseInv, Opened, Walked, Apart, Vouched, Halfway, AtGpu, AtNvSwitch

LEMMA RejectKeeps ==
    ASSUME AppraiseInv, vf' = [vf EXCEPT !.pc = "rejected"], case' = case PROVE AppraiseInv'
<1>0. policy' = policy /\ submitted' = submitted
  BY DEF policy, submitted
<1>1. /\ DOMAIN vf' = DOMAIN vf /\ vf'.pc = "rejected" /\ vf'.i = vf.i /\ vf'.j = vf.j
      /\ vf'.devices = vf.devices /\ vf'.switches = vf.switches /\ vf'.seen = vf.seen
  BY DEF AppraiseInv, AppraiseTyped
<1> QED
  BY <1>0, <1>1 DEF AppraiseInv, AppraiseTyped, Opened, Walked, Apart, Vouched, Halfway, AtGpu, AtNvSwitch

\* What is known of the lists at every step.
LEMMA SubmittedLists ==
    ASSUME AppraiseInv
    PROVE  /\ Len(submitted.gpus) \in Nat /\ DOMAIN submitted.gpus = 1 .. Len(submitted.gpus)
           /\ Len(submitted.switches) \in Nat /\ DOMAIN submitted.switches = 1 .. Len(submitted.switches)
           /\ \A k \in DOMAIN submitted.gpus :
                 LET ms == submitted.gpus[k].measurements IN Len(ms) \in Nat /\ DOMAIN ms = 1 .. Len(ms)
           /\ Len(vf.devices) \in Nat /\ DOMAIN vf.devices = 1 .. Len(vf.devices)
           /\ Len(vf.switches) \in Nat /\ DOMAIN vf.switches = 1 .. Len(vf.switches)
           /\ vf.i \in Nat \ {0} /\ vf.j \in Nat \ {0}
<1>1. /\ submitted.gpus \in Seq(InSeq(submitted.gpus)) /\ submitted.switches \in Seq(InSeq(submitted.switches))
      /\ \A r \in InSeq(submitted.gpus) : r.measurements \in Seq(InSeq(r.measurements))
  BY DEF AppraiseInv, AppraiseTyped, Submission, IsList, submitted
<1>2. \A k \in DOMAIN submitted.gpus : submitted.gpus[k] \in InSeq(submitted.gpus)
  BY DEF InSeq
<1> QED
  BY <1>1, <1>2 DEF AppraiseInv, AppraiseTyped

LEMMA OpenKeeps == AppraiseInv /\ Open => AppraiseInv'
<1> SUFFICES ASSUME AppraiseInv, Open PROVE AppraiseInv'
  OBVIOUS
<1>1. CASE vf' = [vf EXCEPT !.pc = "rejected"]
  BY <1>1, RejectKeeps DEF Open, Proceed
<1>2. CASE vf' # [vf EXCEPT !.pc = "rejected"]
  <2>1. /\ vf.pc = "open" /\ case' = case /\ vf' = [vf EXCEPT !.pc = "gpu"] /\ validate(policy)
        /\ Len(submitted.gpus) = Len(policy.devices) /\ Len(submitted.switches) = Len(policy.switches)
    BY <1>2 DEF Open, Proceed
  <2>2. policy' = policy /\ submitted' = submitted
    BY <2>1 DEF policy, submitted
  <2>3. /\ DOMAIN vf' = DOMAIN vf /\ vf'.pc = "gpu" /\ vf'.i = vf.i /\ vf'.j = vf.j
        /\ vf'.devices = vf.devices /\ vf'.switches = vf.switches /\ vf'.seen = vf.seen
    BY <2>1 DEF AppraiseInv, AppraiseTyped
  <2>4. vf.i = 1 /\ vf.devices = <<>> /\ vf.switches = <<>> /\ Len(submitted.gpus) \in Nat
    BY <2>1, SubmittedLists DEF AppraiseInv, Walked
  <2>5. AppraiseTyped' /\ Opened'
    BY <2>1, <2>2, <2>3 DEF AppraiseInv, AppraiseTyped, Opened, AtGpu, AtNvSwitch
  <2>6. Walked'
    BY <2>2, <2>3, <2>4 DEF Walked, AtGpu, AtNvSwitch
  <2>7. Apart' /\ Vouched' /\ Halfway'
    BY <2>3, <2>4 DEF Apart, Vouched, Halfway, AtGpu, AtNvSwitch
  <2> QED
    BY <2>5, <2>6, <2>7 DEF AppraiseInv
<1> QED
  BY <1>1, <1>2

\* What authenticate, the certificate's identity and its flags establish.
LEMMA AuthenticAnswered ==
    ASSUME NEW r, NEW list, Authentic(r, list)
    PROVE  Answered(r) /\ Enrolled(list, r.id) # {} /\ r.id \notin vf.seen
BY DEF Authentic, authenticate, require_production_security, require_security_flags, Answered, NewIdentity

LEMMA GpuAdmitKeeps == AppraiseInv /\ GpuAdmit => AppraiseInv'
<1> SUFFICES ASSUME AppraiseInv, GpuAdmit PROVE AppraiseInv'
  OBVIOUS
<1>1. CASE vf' = [vf EXCEPT !.pc = "rejected"]
  BY <1>1, RejectKeeps DEF GpuAdmit, Proceed
<1>2. CASE vf' # [vf EXCEPT !.pc = "rejected"]
  <2> DEFINE r == submitted.gpus[vf.i]
  <2>1. /\ vf.pc = "gpu" /\ vf.i <= Len(submitted.gpus) /\ case' = case /\ Authentic(r, policy.devices)
        /\ vf' = [vf EXCEPT !.pc = "gpuRims", !.seen = @ \cup {r.id}]
    BY <1>2 DEF GpuAdmit, Proceed
  <2>2. policy' = policy /\ submitted' = submitted
    BY <2>1 DEF policy, submitted
  <2>3. /\ DOMAIN vf' = DOMAIN vf /\ vf'.pc = "gpuRims" /\ vf'.i = vf.i /\ vf'.j = vf.j
        /\ vf'.devices = vf.devices /\ vf'.switches = vf.switches /\ vf'.seen = vf.seen \cup {r.id}
    BY <2>1 DEF AppraiseInv, AppraiseTyped
  <2>4. Answered(r) /\ Enrolled(policy.devices, r.id) # {} /\ r.id \notin vf.seen
    BY <2>1, AuthenticAnswered
  <2>5. Apart'
    BY <2>1, <2>2, <2>3, <2>4 DEF AppraiseInv, Apart, AtGpu, AtNvSwitch
  <2>6. Vouched'
    BY <2>1, <2>2, <2>3, <2>4 DEF AppraiseInv, Vouched, AtGpu, AtNvSwitch, GpuAuthentic
  <2> QED
    BY <2>1, <2>2, <2>3, <2>5, <2>6
    DEF AppraiseInv, AppraiseTyped, Opened, Walked, Halfway, AtGpu, AtNvSwitch
<1> QED
  BY <1>1, <1>2

LEMMA GpuRimsKeeps == AppraiseInv /\ GpuRims => AppraiseInv'
<1> SUFFICES ASSUME AppraiseInv, GpuRims PROVE AppraiseInv'
  OBVIOUS
<1>1. CASE vf' = [vf EXCEPT !.pc = "rejected"]
  BY <1>1, RejectKeeps DEF GpuRims, Appraise, Proceed
<1>2. CASE vf' # [vf EXCEPT !.pc = "rejected"]
  <2> DEFINE r == submitted.gpus[vf.i]
             rims == Chosen(submitted.rims, WantedGpu(r))
  <2>1. /\ vf.pc = "gpuRims" /\ case' = case
        /\ vf' = [vf EXCEPT !.pc = "gpuMeasure", !.rims = rims, !.remaining = ActiveIndices(rims),
                            !.nvdec = TRUE /\ r.opaque.fields[11], !.j = 1]
        /\ r.opaque.fields[11] \in BOOLEAN
    BY <1>2 DEF GpuRims, Appraise, Proceed, WantedGpu
  <2>2. policy' = policy /\ submitted' = submitted
    BY <2>1 DEF policy, submitted
  <2>3. /\ DOMAIN vf' = DOMAIN vf /\ vf'.pc = "gpuMeasure" /\ vf'.i = vf.i /\ vf'.j = 1
        /\ vf'.devices = vf.devices /\ vf'.switches = vf.switches /\ vf'.seen = vf.seen
        /\ vf'.rims = rims /\ vf'.remaining = ActiveIndices(rims)
        /\ vf'.nvdec = (TRUE /\ r.opaque.fields[11])
    BY <2>1 DEF AppraiseInv, AppraiseTyped
  <2>4. vf.i <= Len(submitted.gpus) /\ \A k \in DOMAIN r.measurements : ~(k < 1)
    BY <2>1, SubmittedLists DEF AppraiseInv, Walked, AtGpu
  <2>5. Halfway'
    BY <2>2, <2>3, <2>4 DEF Halfway
  <2>6. AppraiseTyped' /\ Opened' /\ Walked'
    BY <2>1, <2>2, <2>3 DEF AppraiseInv, AppraiseTyped, Opened, Walked, AtGpu, AtNvSwitch
  <2>7. Apart'
    BY <2>1, <2>2, <2>3 DEF AppraiseInv, Apart, AtGpu, AtNvSwitch
  <2>8. Vouched'
    BY <2>1, <2>2, <2>3 DEF AppraiseInv, Vouched, AtGpu, AtNvSwitch
  <2> QED
    BY <2>5, <2>6, <2>7, <2>8 DEF AppraiseInv
<1> QED
  BY <1>1, <1>2

LEMMA GpuMeasureKeeps == AppraiseInv /\ GpuMeasure => AppraiseInv'
<1> SUFFICES ASSUME AppraiseInv, GpuMeasure PROVE AppraiseInv'
  OBVIOUS
<1>1. CASE vf' = [vf EXCEPT !.pc = "rejected"]
  BY <1>1, RejectKeeps DEF GpuMeasure, appraise_measurements, Proceed
<1>2. CASE vf' # [vf EXCEPT !.pc = "rejected"]
  <2> DEFINE r == submitted.gpus[vf.i]
             m == r.measurements[vf.j]
  <2>1. /\ vf.pc = "gpuMeasure" /\ case' = case /\ vf.j <= Len(r.measurements)
        /\ vf' = [vf EXCEPT !.j = @ + 1, !.remaining = @ \ {m.index}]
        /\ (m.index = NVDEC /\ vf.nvdec) \/ Disposed(m)
    BY <1>2 DEF GpuMeasure, appraise_measurements, Proceed
  <2>2. policy' = policy /\ submitted' = submitted
    BY <2>1 DEF policy, submitted
  <2>3. /\ DOMAIN vf' = DOMAIN vf /\ vf'.pc = vf.pc /\ vf'.i = vf.i /\ vf'.j = vf.j + 1
        /\ vf'.devices = vf.devices /\ vf'.switches = vf.switches /\ vf'.seen = vf.seen
        /\ vf'.rims = vf.rims /\ vf'.remaining = vf.remaining \ {m.index} /\ vf'.nvdec = vf.nvdec
    BY <2>1 DEF AppraiseInv, AppraiseTyped
  <2>4. /\ vf.i \in DOMAIN submitted.gpus /\ DOMAIN r.measurements = 1 .. Len(r.measurements)
        /\ vf.j \in Nat \ {0} /\ vf.j \in DOMAIN r.measurements
    BY <2>1, SubmittedLists, SMTT(30) DEF AppraiseInv, Walked, AtGpu
  <2>5. \A k \in DOMAIN r.measurements : k < vf.j + 1 <=> k < vf.j \/ k = vf.j
    BY <2>4
  <2>6. /\ vf.rims = Chosen(submitted.rims, WantedGpu(r)) /\ (vf.nvdec => r.opaque.fields[11])
        /\ \A i \in ActiveIndices(vf.rims) :
             i \in vf.remaining \/ \E k \in DOMAIN r.measurements : k < vf.j /\ r.measurements[k].index = i
        /\ \A k \in DOMAIN r.measurements : k < vf.j =>
             \/ r.measurements[k].index = NVDEC /\ vf.nvdec
             \/ Disposed(r.measurements[k])
    BY <2>1 DEF AppraiseInv, Halfway
  <2>7. Halfway'
    <3>1. \A i \in ActiveIndices(vf.rims) :
             \/ i \in vf'.remaining
             \/ \E k \in DOMAIN r.measurements : k < vf.j + 1 /\ r.measurements[k].index = i
      BY <2>3, <2>4, <2>5, <2>6
    <3>2. \A k \in DOMAIN r.measurements : k < vf.j + 1 =>
             (r.measurements[k].index = NVDEC /\ vf.nvdec) \/ Disposed(r.measurements[k])
      BY <2>1, <2>5, <2>6
    <3>3. \A k \in DOMAIN r.measurements : k < vf'.j =>
             \/ r.measurements[k].index = NVDEC /\ vf'.nvdec
             \/ IF r.measurements[k].index \in ActiveIndices(vf'.rims)
                THEN r.measurements[k].value \in Golden(vf'.rims, r.measurements[k].index)
                ELSE r.measurements[k].index \in InactiveIndices(vf'.rims)
      BY <2>3, <3>2 DEF Disposed
    <3>4. submitted'.gpus[vf'.i] = r
      BY <2>2, <2>3
    <3>5. /\ vf'.rims = Chosen(submitted'.rims, WantedGpu(r)) /\ (vf'.nvdec => r.opaque.fields[11])
      BY <2>2, <2>3, <2>6
    <3> HIDE DEF r
    <3>6. \A i \in ActiveIndices(vf'.rims) :
             \/ i \in vf'.remaining
             \/ \E k \in DOMAIN r.measurements : k < vf'.j /\ r.measurements[k].index = i
      BY <2>3, <3>1
    <3> QED
      BY <3>3, <3>4, <3>5, <3>6 DEF Halfway, Disposed
  <2>8. AppraiseTyped' /\ Opened' /\ Walked'
    BY <2>1, <2>2, <2>3, <2>4 DEF AppraiseInv, AppraiseTyped, Opened, Walked, AtGpu, AtNvSwitch
  <2>9. Apart'
    BY <2>2, <2>3 DEF AppraiseInv, Apart
  <2>10. Vouched'
    BY <2>2, <2>3 DEF AppraiseInv, Vouched
  <2> QED
    BY <2>7, <2>8, <2>9, <2>10 DEF AppraiseInv
<1> QED
  BY <1>1, <1>2

\* Once nothing is awaited, every active reference was reported.
LEMMA NothingAwaited ==
    ASSUME AppraiseInv, MeasuredAll(submitted.gpus[vf.i], "gpuMeasure"), vf.remaining = {}
    PROVE  MeasuresCovered(submitted.rims, submitted.gpus[vf.i])
<1> DEFINE r == submitted.gpus[vf.i]
           rims == Chosen(submitted.rims, WantedGpu(r))
<1>1. /\ vf.rims = rims /\ (vf.nvdec => r.opaque.fields[11])
      /\ \A i \in ActiveIndices(vf.rims) :
           i \in vf.remaining \/ \E k \in DOMAIN r.measurements : k < vf.j /\ r.measurements[k].index = i
      /\ \A k \in DOMAIN r.measurements : k < vf.j =>
           \/ r.measurements[k].index = NVDEC /\ vf.nvdec
           \/ Disposed(r.measurements[k])
  BY DEF AppraiseInv, Halfway, MeasuredAll
<1>2. ASSUME NEW i \in ActiveIndices(rims) PROVE Reported(r, rims, i)
  <2>1. PICK k \in DOMAIN r.measurements : k < vf.j /\ r.measurements[k].index = i
    BY <1>1
  <2>2. r.measurements[k] \in InSeq(r.measurements)
    BY DEF InSeq
  <2>3. CASE i = NVDEC /\ vf.nvdec
    BY <1>1, <2>1, <2>2, <2>3 DEF Reported
  <2>4. CASE Disposed(r.measurements[k])
    BY <1>1, <2>1, <2>2, <2>4 DEF Reported, Disposed
  <2> QED
    BY <1>1, <2>1, <2>3, <2>4
<1> QED
  BY <1>2 DEF MeasuresCovered

\* The enrolled identities are distinct, so that an identity is enrolled once.
LEMMA ApartEnrolled ==
    ASSUME AppraiseInv, validate(policy)
    PROVE  /\ \A p, q \in InSeq(policy.devices) : p.id = q.id => p = q
           /\ \A p, q \in InSeq(policy.switches) : p.id = q.id => p = q
<1> DEFINE ds == policy.devices
           ss == policy.switches
           ids == {p.id : p \in InSeq(ds) \cup InSeq(ss)}
           a == [i \in DOMAIN ds |-> ds[i].id]
           b == [i \in DOMAIN ss |-> ss[i].id]
<1>1. ds \in Seq(InSeq(ds)) /\ ss \in Seq(InSeq(ss))
  BY DEF AppraiseInv, AppraiseTyped, Submission, IsList, policy
<1>2. /\ Len(ds) \in Nat /\ DOMAIN ds = 1 .. Len(ds) /\ Len(ss) \in Nat /\ DOMAIN ss = 1 .. Len(ss)
  BY <1>1
<1>3. (\A i \in DOMAIN ds : ds[i].id \in ids) /\ \A i \in DOMAIN ss : ss[i].id \in ids
  BY DEF InSeq
<1> HIDE DEF ids
<1>4. a \in Seq(ids) /\ Len(a) = Len(ds) /\ \A i \in 1 .. Len(ds) : a[i] = ds[i].id
  BY <1>2, <1>3
<1>5. b \in Seq(ids) /\ Len(b) = Len(ss) /\ \A i \in 1 .. Len(ss) : b[i] = ss[i].id
  BY <1>2, <1>3
<1>6. Distinct(a \o b)
  BY DEF validate
<1> HIDE DEF a, b
<1>7. /\ a \o b \in Seq(ids) /\ Len(a \o b) = Len(a) + Len(b)
      /\ \A i \in 1 .. Len(a) + Len(b) : (a \o b)[i] = IF i <= Len(a) THEN a[i] ELSE b[i - Len(a)]
  <2>1. a \in Seq(ids) /\ b \in Seq(ids)
    BY <1>4, <1>5
  <2> QED
    BY <2>1, ConcatProperties, Zenon
<1> DEFINE c == a \o b
           n == Len(ds)
           m == Len(ss)
<1>8. /\ c \in Seq(ids) /\ Len(c) = n + m
      /\ \A i \in 1 .. n + m : c[i] = IF i <= n THEN a[i] ELSE b[i - n]
  BY <1>4, <1>5, <1>7
<1>9. n \in Nat /\ m \in Nat /\ DOMAIN ds = 1 .. n /\ DOMAIN ss = 1 .. m
  BY <1>2
<1>10. \A i, j \in DOMAIN c : c[i] = c[j] => i = j
  BY <1>6 DEF Distinct
<1>11. (\A i \in 1 .. n : a[i] = ds[i].id) /\ \A i \in 1 .. m : b[i] = ss[i].id
  BY <1>4, <1>5
<1> HIDE DEF c, n, m
<1>12. DOMAIN c = 1 .. n + m
  BY <1>8, <1>9
<1>13. ASSUME NEW i \in 1 .. n PROVE i \in DOMAIN c /\ c[i] = ds[i].id
  BY <1>8, <1>9, <1>11, <1>12
<1>14. ASSUME NEW i \in 1 .. m PROVE n + i \in DOMAIN c /\ c[n + i] = ss[i].id
  <2>1. n + i \in 1 .. n + m /\ ~(n + i <= n) /\ (n + i) - n = i
    BY <1>9
  <2> QED
    BY <2>1, <1>8, <1>11, <1>12
<1>15. ASSUME NEW p \in InSeq(ds), NEW q \in InSeq(ds), p.id = q.id PROVE p = q
  <2>1. PICK i \in 1 .. n, j \in 1 .. n : p = ds[i] /\ q = ds[j]
    BY <1>9 DEF InSeq
  <2> QED
    BY <1>10, <1>13, <1>15, <2>1
<1>16. ASSUME NEW p \in InSeq(ss), NEW q \in InSeq(ss), p.id = q.id PROVE p = q
  <2>1. PICK i \in 1 .. m, j \in 1 .. m : p = ss[i] /\ q = ss[j]
    BY <1>9 DEF InSeq
  <2>2. n + i = n + j
    BY <1>10, <1>14, <1>16, <2>1
  <2> QED
    BY <1>9, <2>1, <2>2
<1> QED
  BY <1>15, <1>16

LEMMA Appended ==
    ASSUME NEW S, NEW s \in Seq(S), NEW x \in S
    PROVE  /\ Append(s, x) \in Seq(S) /\ Len(s) \in Nat /\ DOMAIN s = 1 .. Len(s)
           /\ Len(Append(s, x)) = Len(s) + 1 /\ DOMAIN Append(s, x) = 1 .. Len(s) + 1
           /\ \A k \in DOMAIN Append(s, x) :
                 (k \in DOMAIN s /\ Append(s, x)[k] = s[k]) \/ (k = Len(s) + 1 /\ Append(s, x)[k] = x)
OBVIOUS

LEMMA GpuDoneKeeps == AppraiseInv /\ GpuDone => AppraiseInv'
<1> SUFFICES ASSUME AppraiseInv, GpuDone PROVE AppraiseInv'
  OBVIOUS
<1>1. CASE vf' = [vf EXCEPT !.pc = "rejected"]
  BY <1>1, RejectKeeps DEF GpuDone, Proceed
<1>2. CASE vf' # [vf EXCEPT !.pc = "rejected"]
  <2> DEFINE r == submitted.gpus[vf.i]
             p == CHOOSE q \in Enrolled(policy.devices, r.id) : TRUE
             peers == pdi_set(r.opaque, 22)
  <2>1. /\ vf.i <= Len(submitted.gpus) /\ MeasuredAll(r, "gpuMeasure") /\ case' = case
        /\ vf.remaining = {} /\ (p.mode = "Ppcie" => peers # {} /\ Expected(peers, p, policy.switches))
        /\ vf' = [vf EXCEPT !.pc = "gpu", !.i = @ + 1, !.devices = Append(@, r),
                       !.edges = IF p.mode = "Ppcie" THEN @ \cup ({p.pdi} \X peers) ELSE @]
    BY <1>2 DEF GpuDone, Proceed
  <2>2. policy' = policy /\ submitted' = submitted
    BY <2>1 DEF policy, submitted
  <2> HIDE DEF p
  <2>3. /\ DOMAIN vf' = DOMAIN vf /\ vf'.pc = "gpu" /\ vf'.i = vf.i + 1 /\ vf'.j = vf.j
        /\ vf'.devices = Append(vf.devices, r) /\ vf'.switches = vf.switches /\ vf'.seen = vf.seen
    BY <2>1 DEF AppraiseInv, AppraiseTyped
  <2>4. vf.pc = "gpuMeasure" /\ vf.i \in DOMAIN submitted.gpus /\ r \in InSeq(submitted.gpus)
    BY <2>1, SubmittedLists DEF MeasuredAll, InSeq
  <2>5. GpuAuthentic(policy, r)
    BY <2>4 DEF AppraiseInv, Vouched, AtGpu
  <2>6. validate(policy)
    BY <2>4 DEF AppraiseInv, Opened
  <2>7. GpuLinked(policy, r)
    <3>1. p \in Enrolled(policy.devices, r.id)
      BY <2>5 DEF p, GpuAuthentic
    <3>2. ASSUME NEW q \in Enrolled(policy.devices, r.id) PROVE q = p
      BY <2>6, <3>1, ApartEnrolled DEF Enrolled
    <3> QED
      BY <2>1, <3>2 DEF GpuLinked
  <2>8. MeasuresCovered(submitted.rims, r)
    BY <2>1, NothingAwaited
  <2>9. /\ vf'.devices \in Seq(InSeq(submitted.gpus)) /\ Len(vf'.devices) = Len(vf.devices) + 1
        /\ \A k \in DOMAIN vf'.devices :
              \/ k \in DOMAIN vf.devices /\ vf'.devices[k] = vf.devices[k]
              \/ k = Len(vf.devices) + 1 /\ vf'.devices[k] = r
        /\ Len(vf.devices) \in Nat /\ DOMAIN vf.devices = 1 .. Len(vf.devices)
    BY <2>3, <2>4, Appended DEF AppraiseInv, AppraiseTyped
  <2>10. AppraiseTyped' /\ Opened'
    BY <2>1, <2>2, <2>3, <2>4, <2>9 DEF AppraiseInv, AppraiseTyped, Opened, AtGpu, AtNvSwitch
  <2>11. Walked'
    <3>1. Len(vf.devices) = vf.i - 1 /\ vf.switches = <<>> /\ vf.i \in Nat /\ Len(submitted.gpus) \in Nat
      BY <2>4, SubmittedLists DEF AppraiseInv, Walked, AtGpu
    <3>2. Len(vf'.devices) = vf'.i - 1 /\ vf'.i <= Len(submitted.gpus) + 1
      BY <2>1, <2>3, <2>9, <3>1
    <3> QED
      BY <2>2, <2>3, <3>1, <3>2 DEF Walked, AtGpu, AtNvSwitch
  <2>12. Apart'
    <3>1. (\A k \in DOMAIN vf.devices : vf.devices[k].id # r.id) /\ r.id \in vf.seen
      BY <2>4 DEF AppraiseInv, Apart, AtGpu
    <3>2. ASSUME NEW k \in DOMAIN vf'.devices, NEW l \in DOMAIN vf'.devices,
                 vf'.devices[k].id = vf'.devices[l].id
          PROVE  k = l
      BY <2>9, <3>1, <3>2 DEF AppraiseInv, Apart
    <3>3. \A k \in DOMAIN vf'.devices : vf'.devices[k].id \in vf.seen
      BY <2>9, <3>1 DEF AppraiseInv, Apart
    <3> QED
      BY <2>2, <2>3, <3>2, <3>3 DEF AppraiseInv, Apart, AtGpu, AtNvSwitch
  <2>13. Vouched'
    <3>1. \A k \in DOMAIN vf'.devices :
             /\ GpuAuthentic(policy, vf'.devices[k]) /\ GpuLinked(policy, vf'.devices[k])
             /\ MeasuresCovered(submitted.rims, vf'.devices[k])
      BY <2>5, <2>7, <2>8, <2>9 DEF AppraiseInv, Vouched
    <3> QED
      BY <2>2, <2>3, <3>1 DEF AppraiseInv, Vouched, AtGpu, AtNvSwitch
  <2> QED
    BY <2>3, <2>10, <2>11, <2>12, <2>13 DEF AppraiseInv, Halfway
<1> QED
  BY <1>1, <1>2

LEMMA GpusDoneKeeps == AppraiseInv /\ GpusDone => AppraiseInv'
<1> SUFFICES ASSUME AppraiseInv, GpusDone PROVE AppraiseInv'
  OBVIOUS
<1>1. /\ vf.pc = "gpu" /\ vf.i > Len(submitted.gpus) /\ case' = case
      /\ vf' = [vf EXCEPT !.pc = "switch", !.i = 1]
  BY DEF GpusDone
<1>2. policy' = policy /\ submitted' = submitted
  BY <1>1 DEF policy, submitted
<1>3. /\ DOMAIN vf' = DOMAIN vf /\ vf'.pc = "switch" /\ vf'.i = 1 /\ vf'.j = vf.j
      /\ vf'.devices = vf.devices /\ vf'.switches = vf.switches /\ vf'.seen = vf.seen
  BY <1>1 DEF AppraiseInv, AppraiseTyped
<1>4. AppraiseTyped' /\ Opened'
  BY <1>1, <1>2, <1>3 DEF AppraiseInv, AppraiseTyped, Opened, AtGpu, AtNvSwitch
<1>5. Walked'
  <2>1. /\ Len(vf.devices) = vf.i - 1 /\ vf.i <= Len(submitted.gpus) + 1 /\ vf.switches = <<>>
        /\ vf.i \in Nat /\ Len(submitted.gpus) \in Nat /\ Len(submitted.switches) \in Nat
    BY <1>1, SubmittedLists DEF AppraiseInv, Walked
  <2>2. Len(vf.devices) = Len(submitted.gpus) /\ Len(vf.switches) = 0
    BY <1>1, <2>1
  <2> QED
    BY <1>2, <1>3, <2>1, <2>2 DEF Walked, AtGpu, AtNvSwitch
<1>6. Apart' /\ Vouched' /\ Halfway'
  BY <1>2, <1>3 DEF AppraiseInv, Apart, Vouched, Halfway, AtGpu, AtNvSwitch
<1> QED
  BY <1>4, <1>5, <1>6 DEF AppraiseInv

LEMMA SwitchAdmitKeeps == AppraiseInv /\ SwitchAdmit => AppraiseInv'
<1> SUFFICES ASSUME AppraiseInv, SwitchAdmit PROVE AppraiseInv'
  OBVIOUS
<1>1. CASE vf' = [vf EXCEPT !.pc = "rejected"]
  BY <1>1, RejectKeeps DEF SwitchAdmit, Proceed
<1>2. CASE vf' # [vf EXCEPT !.pc = "rejected"]
  <2> DEFINE r == submitted.switches[vf.i]
             peers == pdi_set(r.opaque, 26)
  <2>1. /\ vf.pc = "switch" /\ vf.i <= Len(submitted.switches) /\ case' = case
        /\ Authentic(r, policy.switches) /\ peers # {}
        /\ \A p \in Enrolled(policy.switches, r.id) : r.opaque.fields[22] = p.pdi /\ peers = p.gpuPdis
        /\ vf' = [vf EXCEPT !.pc = "switchRims", !.seen = @ \cup {r.id}]
    BY <1>2 DEF SwitchAdmit, Proceed
  <2>2. policy' = policy /\ submitted' = submitted
    BY <2>1 DEF policy, submitted
  <2>3. /\ DOMAIN vf' = DOMAIN vf /\ vf'.pc = "switchRims" /\ vf'.i = vf.i /\ vf'.j = vf.j
        /\ vf'.devices = vf.devices /\ vf'.switches = vf.switches /\ vf'.seen = vf.seen \cup {r.id}
    BY <2>1 DEF AppraiseInv, AppraiseTyped
  <2>4. Answered(r) /\ Enrolled(policy.switches, r.id) # {} /\ r.id \notin vf.seen
    BY <2>1, AuthenticAnswered
  <2>5. SwitchAuthentic(policy, r)
    BY <2>1, <2>4 DEF SwitchAuthentic, SwitchLinked
  <2>6. Apart'
    BY <2>1, <2>2, <2>3, <2>4 DEF AppraiseInv, Apart, AtGpu, AtNvSwitch
  <2>7. Vouched'
    BY <2>1, <2>2, <2>3, <2>5 DEF AppraiseInv, Vouched, AtGpu, AtNvSwitch
  <2> QED
    BY <2>1, <2>2, <2>3, <2>6, <2>7
    DEF AppraiseInv, AppraiseTyped, Opened, Walked, Halfway, AtGpu, AtNvSwitch
<1> QED
  BY <1>1, <1>2

\* Choosing a switch's manifests and appraising its measurements leaves what has
\* been gathered alone.
LEMMA SwitchMeasuringKeeps == AppraiseInv /\ (SwitchRims \/ SwitchMeasure) => AppraiseInv'
<1> SUFFICES ASSUME AppraiseInv, SwitchRims \/ SwitchMeasure PROVE AppraiseInv'
  OBVIOUS
<1>1. CASE vf' = [vf EXCEPT !.pc = "rejected"]
  BY <1>1, RejectKeeps DEF SwitchRims, SwitchMeasure, Appraise, appraise_measurements, Proceed
<1>2. CASE vf' # [vf EXCEPT !.pc = "rejected"]
  <2>1. case' = case /\ vf.pc \in AtNvSwitch
    BY DEF SwitchRims, SwitchMeasure, Appraise, appraise_measurements, Proceed, AtNvSwitch
  <2>2. policy' = policy /\ submitted' = submitted
    BY <2>1 DEF policy, submitted
  <2>3. /\ DOMAIN vf' = DOMAIN vf /\ vf'.pc \in AtNvSwitch /\ vf'.i = vf.i /\ vf'.j \in Nat \ {0}
        /\ vf'.devices = vf.devices /\ vf'.switches = vf.switches /\ vf'.seen = vf.seen
    <3>1. CASE SwitchRims
      <4> DEFINE r == submitted.switches[vf.i]
                 rims == Chosen(submitted.rims, {<<"NvSwitchVbios", "LS10", r.opaque.fields[6]>>})
      <4>1. vf' = [vf EXCEPT !.pc = "switchMeasure", !.rims = rims, !.remaining = ActiveIndices(rims),
                             !.nvdec = FALSE /\ r.opaque.fields[11], !.j = 1]
        BY <1>2, <3>1 DEF SwitchRims, Appraise, Proceed
      <4> QED
        BY <4>1 DEF AppraiseInv, AppraiseTyped, AtNvSwitch
    <3>2. CASE SwitchMeasure
      <4>1. \E x : vf' = [vf EXCEPT !.j = @ + 1, !.remaining = x]
        BY <1>2, <3>2 DEF SwitchMeasure, appraise_measurements, Proceed
      <4>2. vf.j + 1 \in Nat \ {0}
        BY DEF AppraiseInv, AppraiseTyped
      <4> QED
        BY <2>1, <4>1, <4>2 DEF AppraiseInv, AppraiseTyped
    <3> QED
      BY <3>1, <3>2
  <2>4. AppraiseTyped' /\ Opened' /\ Walked'
    BY <2>1, <2>2, <2>3 DEF AppraiseInv, AppraiseTyped, Opened, Walked, AtGpu, AtNvSwitch
  <2>5. Apart' /\ Vouched' /\ Halfway'
    BY <2>1, <2>2, <2>3 DEF AppraiseInv, Apart, Vouched, Halfway, AtGpu, AtNvSwitch
  <2> QED
    BY <2>4, <2>5 DEF AppraiseInv
<1> QED
  BY <1>1, <1>2

LEMMA SwitchDoneKeeps == AppraiseInv /\ SwitchDone => AppraiseInv'
<1> SUFFICES ASSUME AppraiseInv, SwitchDone PROVE AppraiseInv'
  OBVIOUS
<1>1. CASE vf' = [vf EXCEPT !.pc = "rejected"]
  BY <1>1, RejectKeeps DEF SwitchDone, Proceed
<1>2. CASE vf' # [vf EXCEPT !.pc = "rejected"]
  <2> DEFINE r == submitted.switches[vf.i]
  <2>1. /\ vf.i <= Len(submitted.switches) /\ vf.pc = "switchMeasure" /\ case' = case
        /\ vf' = [vf EXCEPT !.pc = "switch", !.i = @ + 1, !.switches = Append(@, r)]
    BY <1>2 DEF SwitchDone, Proceed, MeasuredAll
  <2>2. policy' = policy /\ submitted' = submitted
    BY <2>1 DEF policy, submitted
  <2>3. /\ DOMAIN vf' = DOMAIN vf /\ vf'.pc = "switch" /\ vf'.i = vf.i + 1 /\ vf'.j = vf.j
        /\ vf'.switches = Append(vf.switches, r) /\ vf'.devices = vf.devices /\ vf'.seen = vf.seen
    BY <2>1 DEF AppraiseInv, AppraiseTyped
  <2>4. vf.i \in DOMAIN submitted.switches /\ r \in InSeq(submitted.switches)
    BY <2>1, SubmittedLists DEF InSeq
  <2>5. SwitchAuthentic(policy, r)
    BY <2>1 DEF AppraiseInv, Vouched, AtNvSwitch
  <2>9. /\ vf'.switches \in Seq(InSeq(submitted.switches)) /\ Len(vf'.switches) = Len(vf.switches) + 1
        /\ \A k \in DOMAIN vf'.switches :
              \/ k \in DOMAIN vf.switches /\ vf'.switches[k] = vf.switches[k]
              \/ k = Len(vf.switches) + 1 /\ vf'.switches[k] = r
        /\ Len(vf.switches) \in Nat /\ DOMAIN vf.switches = 1 .. Len(vf.switches)
    BY <2>3, <2>4, Appended DEF AppraiseInv, AppraiseTyped
  <2>10. AppraiseTyped' /\ Opened'
    BY <2>1, <2>2, <2>3, <2>9 DEF AppraiseInv, AppraiseTyped, Opened, AtGpu, AtNvSwitch
  <2>11. Walked'
    <3>1. /\ Len(vf.switches) = vf.i - 1 /\ Len(vf.devices) = Len(submitted.gpus)
          /\ vf.i \in Nat /\ Len(submitted.switches) \in Nat
      BY <2>1, SubmittedLists DEF AppraiseInv, Walked, AtNvSwitch
    <3>2. Len(vf'.switches) = vf'.i - 1 /\ vf'.i <= Len(submitted.switches) + 1
      BY <2>1, <2>3, <2>9, <3>1
    <3> QED
      BY <2>2, <2>3, <3>1, <3>2 DEF Walked, AtGpu, AtNvSwitch
  <2>12. Apart'
    <3>1. (\A k \in DOMAIN vf.switches : vf.switches[k].id # r.id) /\ r.id \in vf.seen
      BY <2>1 DEF AppraiseInv, Apart, AtNvSwitch
    <3>2. ASSUME NEW k \in DOMAIN vf'.switches, NEW l \in DOMAIN vf'.switches,
                 vf'.switches[k].id = vf'.switches[l].id
          PROVE  k = l
      BY <2>9, <3>1, <3>2 DEF AppraiseInv, Apart
    <3>3. \A k \in DOMAIN vf'.switches : vf'.switches[k].id \in vf.seen
      BY <2>9, <3>1 DEF AppraiseInv, Apart
    <3> QED
      BY <2>2, <2>3, <3>2, <3>3 DEF AppraiseInv, Apart, AtGpu, AtNvSwitch
  <2>13. Vouched'
    <3>1. \A k \in DOMAIN vf'.switches : SwitchAuthentic(policy, vf'.switches[k])
      BY <2>5, <2>9 DEF AppraiseInv, Vouched
    <3> QED
      BY <2>2, <2>3, <3>1 DEF AppraiseInv, Vouched, AtGpu, AtNvSwitch
  <2> QED
    BY <2>3, <2>10, <2>11, <2>12, <2>13 DEF AppraiseInv, Halfway
<1> QED
  BY <1>1, <1>2

LEMMA AcceptKeeps == AppraiseInv /\ Accept => AppraiseInv'
<1> SUFFICES ASSUME AppraiseInv, Accept PROVE AppraiseInv'
  OBVIOUS
<1>1. /\ vf.pc = "switch" /\ vf.i > Len(submitted.switches) /\ case' = case
      /\ vf' = [vf EXCEPT !.pc = "accepted"]
  BY DEF Accept
<1>2. policy' = policy /\ submitted' = submitted
  BY <1>1 DEF policy, submitted
<1>3. /\ DOMAIN vf' = DOMAIN vf /\ vf'.pc = "accepted" /\ vf'.i = vf.i /\ vf'.j = vf.j
      /\ vf'.devices = vf.devices /\ vf'.switches = vf.switches /\ vf'.seen = vf.seen
  BY <1>1 DEF AppraiseInv, AppraiseTyped
<1>4. AppraiseTyped' /\ Opened'
  BY <1>1, <1>2, <1>3 DEF AppraiseInv, AppraiseTyped, Opened, AtGpu, AtNvSwitch
<1>5. Walked'
  <2>1. /\ Len(vf.switches) = vf.i - 1 /\ vf.i <= Len(submitted.switches) + 1
        /\ Len(vf.devices) = Len(submitted.gpus) /\ vf.i \in Nat /\ Len(submitted.switches) \in Nat
    BY <1>1, SubmittedLists DEF AppraiseInv, Walked
  <2>2. Len(vf.switches) = Len(submitted.switches)
    BY <1>1, <2>1
  <2> QED
    BY <1>2, <1>3, <2>1, <2>2 DEF Walked, AtGpu, AtNvSwitch
<1>6. Apart' /\ Vouched' /\ Halfway'
  BY <1>2, <1>3 DEF AppraiseInv, Apart, Vouched, Halfway, AtGpu, AtNvSwitch
<1> QED
  BY <1>4, <1>5, <1>6 DEF AppraiseInv

LEMMA AppraiseKeeps == AppraiseInv /\ [AppraiseNext]_appraiseVars => AppraiseInv'
<1> SUFFICES ASSUME AppraiseInv, [AppraiseNext]_appraiseVars PROVE AppraiseInv'
  OBVIOUS
<1>1. CASE UNCHANGED appraiseVars
  <2>1. vf' = vf /\ case' = case
    BY <1>1 DEF appraiseVars
  <2>2. policy' = policy /\ submitted' = submitted
    BY <2>1 DEF policy, submitted
  <2>3. AppraiseTyped' /\ Opened' /\ Walked'
    BY <2>1, <2>2 DEF AppraiseInv, AppraiseTyped, Opened, Walked
  <2>4. Apart' /\ Vouched'
    BY <2>1, <2>2 DEF AppraiseInv, Apart, Vouched
  <2>5. Halfway'
    BY <2>1, <2>2 DEF AppraiseInv, Halfway, Disposed
  <2> QED
    BY <2>3, <2>4, <2>5 DEF AppraiseInv
<1> QED
  BY <1>1, OpenKeeps, GpuAdmitKeeps, GpuRimsKeeps, GpuMeasureKeeps, GpuDoneKeeps, GpusDoneKeeps,
     SwitchAdmitKeeps, SwitchMeasuringKeeps, SwitchDoneKeeps, AcceptKeeps DEF AppraiseNext

\* What an appraisal has established about the reports it has walked over holds
\* in every reachable state (GpuVerifier::verify, report by report).
THEOREM AppraiseInvariance == AppraiseSpec => []AppraiseInv
<1>1. AppraiseFrom(case) => AppraiseInv
  BY AppraiseInitial
<1>2. AppraiseInv /\ [AppraiseNext]_appraiseVars => AppraiseInv'
  BY AppraiseKeeps
<1> QED
  BY <1>1, <1>2, PTL DEF AppraiseSpec

\* As many different identities as there are enrolled, each of them enrolled, are
\* all of the enrolled ones.
Ids(s) == {x.id : x \in InSeq(s)}
IdsApart(s) == \A k, l \in DOMAIN s : s[k].id = s[l].id => k = l
LEMMA AllEnrolled ==
    ASSUME NEW R, NEW P, NEW rs \in Seq(R), NEW ps \in Seq(P), Len(rs) = Len(ps),
           IdsApart(rs), Ids(rs) \subseteq Ids(ps)
    PROVE  Ids(rs) = Ids(ps)
<1> DEFINE n == Len(rs)
           A == Ids(rs)
           B == Ids(ps)
           f == [k \in 1 .. n |-> rs[k].id]
           g == [k \in 1 .. n |-> ps[k].id]
<1>1. n \in Nat /\ DOMAIN rs = 1 .. n /\ DOMAIN ps = 1 .. n
  OBVIOUS
<1>2. f \in [1 .. n -> A] /\ (\A x \in A : \E k \in 1 .. n : f[k] = x) /\ \A k, l \in 1 .. n : f[k] = f[l] => k = l
  <2>1. f \in [1 .. n -> A] /\ \A x \in A : \E k \in 1 .. n : f[k] = x
    BY <1>1 DEF Ids, InSeq
  <2>2. \A k, l \in 1 .. n : f[k] = f[l] => k = l
    BY <1>1 DEF IdsApart
  <2> QED
    BY <2>1, <2>2
<1>3. g \in [1 .. n -> B] /\ \A x \in B : \E k \in 1 .. n : g[k] = x
  BY <1>1 DEF Ids, InSeq
<1>4. A \subseteq B
  OBVIOUS
<1> HIDE DEF n, A, B, f, g
<1>5. f \in Bijection(1 .. n, A)
  BY <1>2 DEF Bijection, Injection, Surjection, IsInjective
<1>6. IsFiniteSet(1 .. n) /\ Cardinality(1 .. n) = n
  BY <1>1, FS_Interval
<1>7. IsFiniteSet(A) /\ Cardinality(A) = n
  BY <1>5, <1>6, FS_Bijection DEF ExistsBijection
<1>8. g \in Surjection(1 .. n, B)
  BY <1>3 DEF Surjection
<1>9. IsFiniteSet(B) /\ Cardinality(B) <= n
  BY <1>6, <1>8, FS_Surjection
<1>10. Cardinality(A) <= Cardinality(B) /\ (Cardinality(B) = Cardinality(A) => B = A)
  BY <1>4, <1>9, FS_Subset
<1>11. Cardinality(B) \in Nat
  BY <1>9, FS_CardinalityType
<1>12. A = B
  BY <1>1, <1>7, <1>9, <1>10, <1>11
<1> QED
  BY <1>12 DEF A, B

LEMMA AcceptedExact == AppraiseInv => InventoryExact
<1> SUFFICES ASSUME AppraiseInv, vf.pc = "accepted" PROVE InventoryExact
  BY DEF InventoryExact
<1>1. /\ policy.devices \in Seq(InSeq(policy.devices)) /\ policy.switches \in Seq(InSeq(policy.switches))
      /\ vf.devices \in Seq(InSeq(submitted.gpus)) /\ vf.switches \in Seq(InSeq(submitted.switches))
  BY DEF AppraiseInv, AppraiseTyped, Submission, IsList, policy
<1>2. Len(vf.devices) = Len(policy.devices) /\ Len(vf.switches) = Len(policy.switches)
  BY DEF AppraiseInv, Opened, Walked
<1>3. \A k \in DOMAIN vf.devices :
         Answered(vf.devices[k]) /\ \E p \in InSeq(policy.devices) : p.id = vf.devices[k].id
  BY DEF AppraiseInv, Vouched, GpuAuthentic, Enrolled
<1>4. \A k \in DOMAIN vf.switches :
         Answered(vf.switches[k]) /\ \E p \in InSeq(policy.switches) : p.id = vf.switches[k].id
  BY DEF AppraiseInv, Vouched, SwitchAuthentic, Enrolled
<1>8. /\ \A k, l \in DOMAIN vf.devices : vf.devices[k].id = vf.devices[l].id => k = l
      /\ \A k, l \in DOMAIN vf.switches : vf.switches[k].id = vf.switches[l].id => k = l
  BY DEF AppraiseInv, Apart
<1>5. {r.id : r \in InSeq(vf.devices)} = {p.id : p \in InSeq(policy.devices)}
  <2>1. Ids(vf.devices) \subseteq Ids(policy.devices) /\ IdsApart(vf.devices)
    BY <1>3, <1>8 DEF Ids, IdsApart, InSeq
  <2>2. Ids(vf.devices) = Ids(policy.devices)
    BY <1>1, <1>2, <2>1, AllEnrolled
  <2> QED
    BY <2>2 DEF Ids
<1>6. {r.id : r \in InSeq(vf.switches)} = {p.id : p \in InSeq(policy.switches)}
  <2>1. Ids(vf.switches) \subseteq Ids(policy.switches) /\ IdsApart(vf.switches)
    BY <1>4, <1>8 DEF Ids, IdsApart, InSeq
  <2>2. Ids(vf.switches) = Ids(policy.switches)
    BY <1>1, <1>2, <2>1, AllEnrolled
  <2> QED
    BY <2>2 DEF Ids
<1>7. \A r \in InSeq(vf.devices) \cup InSeq(vf.switches) : Answered(r)
  BY <1>3, <1>4 DEF InSeq
<1> QED
  BY <1>5, <1>6, <1>7 DEF InventoryExact, Answered

\* Whatever bundle the host submits, in any order and with any repetition, a
\* verdict covers the enrolled inventory exactly: counting the reports, looking
\* up each identity and remembering it suffices.
THEOREM AppraiseExactInventory == AppraiseSpec => []InventoryExact
BY AcceptedExact, AppraiseInvariance, PTL

\* Both ends of every link of an accepted fabric signed it, for every policy and
\* every bundle.
THEOREM AppraiseReciprocal == AppraiseSpec => []FabricReciprocal
<1>1. AppraiseInv => FabricReciprocal
  <2> SUFFICES ASSUME AppraiseInv, vf.pc = "accepted", policy.switches # <<>> PROVE FabricReciprocal
    BY DEF FabricReciprocal
  <2> DEFINE ds == InSeq(policy.devices)
             ss == InSeq(policy.switches)
             links == {y \in InSeq(vf.devices) \X ds : y[1].id = y[2].id}
             ends == {<<p.pdi, q>> : p \in ds, q \in {s.pdi : s \in ss}}
             byGpu == UNION {{<<x[2].pdi, q>> : q \in x[1].opaque.fields[22] \ {Absent}} : x \in links}
             bySwitch == UNION {{<<g, r.opaque.fields[22]>> : g \in r.opaque.fields[26] \ {Absent}} :
                                r \in InSeq(vf.switches)}
  <2>1. validate(policy) /\ InventoryExact
    BY AcceptedExact DEF AppraiseInv, Opened
  <2>2. \A p \in ds : p.mode = "Ppcie"
    BY <2>1 DEF validate, DevicesValid
  <2>3. \A s \in ss : s.gpuPdis \subseteq {d.pdi : d \in ds}
    BY <2>1 DEF validate, SwitchesValid
  <2>4. /\ {r.id : r \in InSeq(vf.devices)} = {p.id : p \in ds}
        /\ {r.id : r \in InSeq(vf.switches)} = {p.id : p \in ss}
    BY <2>1 DEF InventoryExact
  <2>10. /\ \A s \in ss : \E r \in InSeq(vf.switches) : r.id = s.id
         /\ \A r \in InSeq(vf.switches) : \E s \in ss : r.id = s.id
         /\ \A p \in ds : \E r \in InSeq(vf.devices) : r.id = p.id
    <3>1. \A s \in ss : s.id \in {r.id : r \in InSeq(vf.switches)}
      BY <2>4
    <3>2. \A r \in InSeq(vf.switches) : r.id \in {s.id : s \in ss}
      BY <2>4
    <3>3. \A p \in ds : p.id \in {r.id : r \in InSeq(vf.devices)}
      BY <2>4
    <3> QED
      BY <3>1, <3>2, <3>3
  <2>5. ASSUME NEW r \in InSeq(vf.devices), NEW p \in ds, r.id = p.id
        PROVE  r.opaque.fields[22] \ {Absent} = {s.pdi : s \in {x \in ss : p.pdi \in x.gpuPdis}}
    <3>1. GpuLinked(policy, r) /\ p \in Enrolled(policy.devices, r.id)
      BY <2>5 DEF AppraiseInv, Vouched, InSeq, Enrolled
    <3>2. pdi_set(r.opaque, 22) # {} /\ Expected(pdi_set(r.opaque, 22), p, policy.switches)
      BY <2>2, <3>1 DEF GpuLinked
    <3>3. pdi_set(r.opaque, 22) = r.opaque.fields[22] \ {Absent}
      BY <3>2 DEF pdi_set
    <3> QED
      BY <3>2, <3>3 DEF Expected
  <2>6. ASSUME NEW r \in InSeq(vf.switches), NEW s \in ss, r.id = s.id
        PROVE  r.opaque.fields[22] = s.pdi /\ r.opaque.fields[26] \ {Absent} = s.gpuPdis
    <3>1. SwitchLinked(policy, r) /\ s \in Enrolled(policy.switches, r.id)
      BY <2>6 DEF AppraiseInv, Vouched, InSeq, Enrolled, SwitchAuthentic
    <3>2. pdi_set(r.opaque, 26) # {} /\ r.opaque.fields[22] = s.pdi /\ pdi_set(r.opaque, 26) = s.gpuPdis
      BY <3>1 DEF SwitchLinked
    <3> QED
      BY <3>2 DEF pdi_set
  <2>7. ASSUME NEW e \in byGpu PROVE e \in bySwitch /\ e \in ends
    <3>1. PICK x \in links : e \in {<<x[2].pdi, q>> : q \in x[1].opaque.fields[22] \ {Absent}}
      OBVIOUS
    <3>2. x[1] \in InSeq(vf.devices) /\ x[2] \in ds /\ x[1].id = x[2].id
      OBVIOUS
    <3>3. PICK q \in x[1].opaque.fields[22] \ {Absent} : e = <<x[2].pdi, q>>
      BY <3>1
    <3>4. PICK s \in ss : x[2].pdi \in s.gpuPdis /\ q = s.pdi
      BY <2>5, <3>2, <3>3
    <3>5. PICK r \in InSeq(vf.switches) : r.id = s.id
      BY <2>10
    <3>6. x[2].pdi \in r.opaque.fields[26] \ {Absent} /\ r.opaque.fields[22] = q
      BY <2>6, <3>4, <3>5
    <3>7. e \in bySwitch
      BY <3>3, <3>5, <3>6
    <3> QED
      BY <3>2, <3>3, <3>4, <3>7
  <2>8. ASSUME NEW e \in bySwitch PROVE e \in byGpu
    <3>1. PICK r \in InSeq(vf.switches) : e \in {<<g, r.opaque.fields[22]>> : g \in r.opaque.fields[26] \ {Absent}}
      OBVIOUS
    <3>2. PICK g \in r.opaque.fields[26] \ {Absent} : e = <<g, r.opaque.fields[22]>>
      BY <3>1
    <3>3. PICK s \in ss : r.id = s.id
      BY <2>10
    <3>4. r.opaque.fields[22] = s.pdi /\ g \in s.gpuPdis
      BY <2>6, <3>2, <3>3
    <3>5. PICK p \in ds : g = p.pdi
      BY <2>3, <3>4
    <3>6. PICK d \in InSeq(vf.devices) : d.id = p.id
      BY <2>10
    <3>7. s.pdi \in d.opaque.fields[22] \ {Absent}
      BY <2>5, <3>4, <3>5, <3>6
    <3>8. <<d, p>> \in links
      BY <3>6
    <3>9. e \in {<<p.pdi, q>> : q \in d.opaque.fields[22] \ {Absent}}
      BY <3>2, <3>4, <3>5, <3>7
    <3> QED
      BY <3>8, <3>9
  <2>9. byGpu = bySwitch /\ byGpu \subseteq ends
    BY <2>7, <2>8
  <2> QED
    BY <2>9 DEF FabricReciprocal
<1> QED
  BY <1>1, AppraiseInvariance, PTL

\* No accepted GPU leaves an active reference unreported or reports another
\* value, whatever the two manifests and the report say.
THEOREM AppraiseMeasured == AppraiseSpec => []MeasurementsDisposed
<1>1. AppraiseInv => MeasurementsDisposed
  <2> SUFFICES ASSUME AppraiseInv PROVE MeasurementsDisposed
    OBVIOUS
  <2>1. \A r \in InSeq(vf.devices) : MeasuresCovered(submitted.rims, r)
    BY DEF AppraiseInv, Vouched, InSeq
  <2> QED
    BY <2>1 DEF MeasurementsDisposed, MeasuresCovered, Reported, WantedGpu
<1> QED
  BY <1>1, AppraiseInvariance, PTL

=============================================================================
