--------------------------- MODULE KdsFetchProofs ---------------------------
(***************************************************************************)
(* What kds_get returns, for any number of calls sharing one cache entry.   *)
(* The invariant says of each call what its program counter implies about   *)
(* the manifest it holds and the body it received; of the shared files only *)
(* that a readable manifest pins a delivered body.                          *)
(***************************************************************************)
EXTENDS KdsFetch, TLAPS

Core ==
    /\ clock \in 0..MaxClock
    /\ manifest \in Manifests \cup {None, Empty, Torn}
    /\ pc \in [Procs -> Labels]
    /\ ttl \in [Procs -> Ttls]
    /\ seen \in [Procs -> 0..MaxClock]
    /\ held \in [Procs -> Manifests \cup {None}]
    /\ body \in [Procs -> Bodies \cup {None}]
    /\ result \in [Procs -> Results \cup {None}]
    /\ delivered \subseteq Bodies

Honest(m) == m \in Manifests => m.sha256 \in delivered

Storing == {"store", "write blob", "open manifest", "write manifest"}

Sound(q) ==
    result[q] # None /\ result[q].ok =>
        /\ result[q].bytes \in delivered
        /\ result[q].stamp # None =>
              LET stamp == result[q].stamp IN
              /\ stamp.sha256 = result[q].bytes
              /\ stamp.fetched_at <= seen[q] /\ seen[q] < stamp.fetched_at + MAX_TTL

\* What the state of one call implies.
Call(q) ==
    /\ Honest(held[q])
    /\ pc[q] = "blob" =>
          /\ held[q] \in Manifests
          /\ held[q].fetched_at <= seen[q]
          /\ seen[q] < held[q].fetched_at + held[q].ttl_secs
    /\ pc[q] \in Storing => body[q] \in delivered
    /\ pc[q] \in Storing \ {"store"} => held[q] \in Manifests
    /\ result[q] # None => pc[q] = "done"
    /\ Sound(q)

IInv == Core /\ Honest(manifest) /\ \A q \in Procs : Call(q)

\* A call that takes no step keeps its part: deliveries only accumulate.
LEMMA Frame ==
    ASSUME NEW q \in Procs, Call(q), delivered \subseteq delivered',
           pc'[q] = pc[q], held'[q] = held[q], seen'[q] = seen[q],
           body'[q] = body[q], result'[q] = result[q]
    PROVE  Call(q)'
<1>1. Honest(held[q])' /\ Sound(q)'
  BY DEF Call, Honest, Sound
<1> QED
  BY <1>1 DEF Call

\* A step of call p leaves the others' variables alone.
Only(p) ==
    \A q \in Procs \ {p} :
        /\ pc'[q] = pc[q] /\ held'[q] = held[q] /\ seen'[q] = seen[q]
        /\ body'[q] = body[q] /\ result'[q] = result[q]

\* So a step of p is sound when p's own part and the shared part are.
LEMMA StepOf ==
    ASSUME IInv, NEW p \in Procs, Only(p), delivered \subseteq delivered',
           Core', Honest(manifest)', Call(p)'
    PROVE  IInv'
<1>1. ASSUME NEW q \in Procs, q # p PROVE Call(q)'
  <2>1. Call(q)
    BY DEF IInv
  <2>2. /\ pc'[q] = pc[q] /\ held'[q] = held[q] /\ seen'[q] = seen[q]
        /\ body'[q] = body[q] /\ result'[q] = result[q]
    BY <1>1 DEF Only
  <2> QED
    BY <2>1, <2>2, Frame
<1>2. \A q \in Procs : Call(q)'
  BY <1>1
<1> QED
  BY <1>2 DEF IInv

\* Reading, waiting or dying: nothing but program counters, and perhaps the
\* clock, the attempts and files' blobs, changes.
LEMMA Quiet ==
    ASSUME IInv, NEW p \in Procs, NEW l \in Labels, Goto(p, l),
           l \notin Storing \cup {"blob"}, result[p] # None => l = "done",
           UNCHANGED <<clock, ttl, seen, held, body, result, delivered, manifest>>
    PROVE  IInv'
<1>1. Core'
  BY DEF IInv, Core, Goto
<1>2. Honest(manifest)'
  BY DEF IInv, Honest
<1>3. pc'[p] = l
  BY DEF IInv, Core, Goto
<1>4. Call(p)'
  BY <1>3 DEF IInv, Call, Honest, Sound
<1>5. Only(p)
  BY DEF IInv, Core, Goto, Only
<1> QED
  BY <1>1, <1>2, <1>4, <1>5, StepOf

LEMMA LoadManifestIInv ==
    ASSUME IInv, NEW p \in Procs, LoadManifest(p) PROVE IInv'
<1>1. Core'
  <2>1. seen' \in [Procs -> 0..MaxClock]
    BY DEF IInv, Core, LoadManifest
  <2>2. held' \in [Procs -> Manifests \cup {None}]
    BY DEF IInv, Core, LoadManifest, Fresh
  <2>3. pc' \in [Procs -> Labels]
    BY DEF IInv, Core, LoadManifest, Goto, Labels
  <2> QED
    BY <2>1, <2>2, <2>3 DEF IInv, Core, LoadManifest, files
<1>2. Honest(manifest)'
  BY DEF IInv, Honest, LoadManifest, files
<1>3. Only(p)
  BY DEF IInv, Core, LoadManifest, Goto, Only
<1>4. seen'[p] = clock /\ result[p] = None /\ result' = result
  BY DEF IInv, Core, LoadManifest, Call
<1>5. Call(p)'
  <2>1. CASE Fresh(manifest)
    <3>1. pc'[p] = "blob" /\ held'[p] = manifest
      BY <2>1 DEF IInv, Core, LoadManifest, Goto
    <3>2. /\ manifest \in Manifests /\ manifest.fetched_at <= clock
          /\ clock < manifest.fetched_at + manifest.ttl_secs
      BY <2>1 DEF Fresh
    <3>3. Honest(manifest) /\ delivered' = delivered
      BY DEF IInv, LoadManifest
    <3>4. Honest(held[p])'
      BY <3>1, <3>3 DEF Honest
    <3> QED
      BY <3>1, <3>2, <3>4, <1>4 DEF Call, Sound, Storing
  <2>2. CASE ~Fresh(manifest)
    <3>1. pc'[p] = "request" /\ held' = held /\ delivered' = delivered
      BY <2>2 DEF IInv, Core, LoadManifest, Goto
    <3>2. Honest(held[p])'
      BY <3>1 DEF IInv, Call, Honest
    <3> QED
      BY <3>1, <3>2, <1>4 DEF Call, Sound, Storing
  <2> QED
    BY <2>1, <2>2
<1> QED
  BY <1>1, <1>2, <1>3, <1>5, StepOf DEF LoadManifest

\* What returning r does to the variables.
LEMMA ReturnStep ==
    ASSUME Core, NEW p \in Procs, NEW r \in Results, Return(p, r),
           UNCHANGED <<clock, ttl, seen, held, body, delivered>>,
           manifest' \in Manifests \cup {None, Empty, Torn}
    PROVE  Core' /\ Only(p) /\ pc'[p] = "done" /\ result'[p] = r
<1>1. pc' \in [Procs -> Labels] /\ pc'[p] = "done"
  BY DEF Core, Return, Goto, Labels
<1>2. result' \in [Procs -> Results \cup {None}] /\ result'[p] = r
  BY DEF Core, Return
<1>3. Core'
  BY <1>1, <1>2 DEF Core
<1>4. Only(p)
  BY DEF Core, Return, Goto, Only
<1> QED
  BY <1>1, <1>2, <1>3, <1>4

LEMMA LoadBlobIInv ==
    ASSUME IInv, NEW p \in Procs, LoadBlob(p) PROVE IInv'
<1>1. CASE blob = held[p].sha256
  <2> DEFINE r == [ok |-> TRUE, bytes |-> blob, stamp |-> held[p]]
  <2>1. Return(p, r) /\ UNCHANGED <<clock, manifest, ttl, seen, held, body, delivered>>
    BY <1>1 DEF LoadBlob, files
  <2>2. Core' /\ Only(p) /\ pc'[p] = "done" /\ result'[p] = r
    <3>1. held[p] \in Manifests
      BY DEF IInv, Call, LoadBlob
    <3>2. r \in Results
      BY <1>1, <3>1 DEF Results, Manifests
    <3> QED
      BY <2>1, <3>2, ReturnStep DEF IInv, Core
  <2>3. Honest(manifest)' /\ Honest(held[p])'
    BY <2>1 DEF IInv, Honest, Call
  <2>4. /\ held[p] \in Manifests /\ held[p].fetched_at <= seen[p]
        /\ seen[p] < held[p].fetched_at + held[p].ttl_secs
    BY DEF IInv, Call, LoadBlob
  <2>5. held[p].ttl_secs \in 0..MAX_TTL /\ held[p].fetched_at \in 0..MaxClock
    BY <2>4 DEF Manifests
  <2>6. seen[p] \in 0..MaxClock
    BY DEF IInv, Core
  <2>7. seen[p] < held[p].fetched_at + MAX_TTL
    BY <2>4, <2>5, <2>6, KdsAssumption
  <2>8. r.bytes = held[p].sha256 /\ r.stamp = held[p] /\ held[p].sha256 \in delivered
    BY <1>1, <2>4 DEF IInv, Call, Honest
  <2> HIDE DEF r
  <2>9. Sound(p)'
    BY <2>1, <2>2, <2>4, <2>7, <2>8 DEF Sound
  <2>10. Call(p)'
    BY <2>2, <2>3, <2>9 DEF Call, Storing
  <2> QED
    BY <2>1, <2>2, <2>3, <2>10, StepOf
<1>2. CASE blob # held[p].sha256
  <2>1. Goto(p, "request")
        /\ UNCHANGED <<clock, ttl, seen, held, body, result, delivered, manifest>>
    BY <1>2 DEF LoadBlob, files
  <2>2. result[p] = None
    BY DEF IInv, Call, LoadBlob
  <2> QED
    BY <2>1, <2>2, Quiet DEF Storing, Labels
<1> QED
  BY <1>1, <1>2

LEMMA DeliverIInv ==
    ASSUME IInv, NEW p \in Procs, NEW b \in Bodies, Deliver(p, b) PROVE IInv'
<1>1. /\ delivered' = delivered \cup {b} /\ body' = [body EXCEPT ![p] = b]
      /\ UNCHANGED <<clock, manifest, ttl, seen, held>>
  BY DEF Deliver, files
<1>2. result[p] = None
  BY DEF IInv, Call, Deliver, Attempt
<1>3. Honest(manifest)' /\ Honest(held[p])'
  BY <1>1 DEF IInv, Honest, Call
<1>4. b \in delivered' /\ body'[p] = b /\ delivered \subseteq delivered'
  BY <1>1 DEF IInv, Core
<1>5. CASE cached[p]
  <2>1. Goto(p, "store") /\ result' = result
    BY <1>5 DEF Deliver
  <2>2. Core' /\ Only(p) /\ pc'[p] = "store"
    <3>1. pc' \in [Procs -> Labels]
      BY <2>1 DEF IInv, Core, Goto, Labels
    <3>2. body' \in [Procs -> Bodies \cup {None}] /\ delivered' \subseteq Bodies
      BY <1>1 DEF IInv, Core
    <3>3. Core'
      BY <3>1, <3>2, <1>1, <2>1 DEF IInv, Core
    <3> QED
      BY <3>3, <1>1, <2>1 DEF IInv, Core, Goto, Only
  <2>3. Call(p)'
    BY <1>2, <1>3, <1>4, <2>1, <2>2 DEF Call, Sound, Storing
  <2> QED
    BY <1>3, <1>4, <2>2, <2>3, StepOf
<1>6. CASE ~cached[p]
  <2> DEFINE r == [ok |-> TRUE, bytes |-> b, stamp |-> None]
  <2>1. Return(p, r)
    BY <1>6 DEF Deliver
  <2>2. Core' /\ Only(p) /\ pc'[p] = "done" /\ result'[p] = r
    <3>1. pc' \in [Procs -> Labels] /\ pc'[p] = "done"
      BY <2>1 DEF IInv, Core, Return, Goto, Labels
    <3>2. body' \in [Procs -> Bodies \cup {None}] /\ delivered' \subseteq Bodies
      BY <1>1 DEF IInv, Core
    <3>3. r \in Results
      BY DEF Results
    <3>4. result' \in [Procs -> Results \cup {None}] /\ result'[p] = r
      BY <2>1, <3>3 DEF IInv, Core, Return
    <3>5. Core'
      BY <3>1, <3>2, <3>4, <1>1 DEF IInv, Core
    <3>6. Only(p)
      BY <1>1, <2>1 DEF IInv, Core, Return, Goto, Only
    <3> QED
      BY <3>1, <3>4, <3>5, <3>6
  <2>3. Sound(p)'
    BY <2>2, <1>4 DEF Sound
  <2>4. Call(p)'
    BY <2>2, <2>3, <1>3 DEF Call, Storing
  <2> QED
    BY <1>3, <1>4, <2>2, <2>4, StepOf
<1> QED
  BY <1>5, <1>6

\* Returning an error, or the body received, to the caller.
LEMMA ReturnIInv ==
    ASSUME IInv, NEW p \in Procs, NEW r \in Results, Return(p, r),
           \/ r = [ok |-> FALSE]
           \/ r = [ok |-> TRUE, bytes |-> body[p], stamp |-> None] /\ body[p] \in delivered,
           UNCHANGED <<clock, ttl, seen, held, body, delivered>>,
           manifest' \in Manifests \cup {None, Empty, Torn}, Honest(manifest)'
    PROVE  IInv'
<1>1. Core' /\ Only(p) /\ pc'[p] = "done" /\ result'[p] = r
  BY ReturnStep DEF IInv
<1>2. Sound(p)'
  BY <1>1 DEF Sound
<1>3. Honest(held[p])'
  BY DEF IInv, Call, Honest
<1>4. Call(p)'
  BY <1>1, <1>2, <1>3 DEF Call, Storing
<1> QED
  BY <1>1, <1>4, StepOf

LEMMA StoreBeginIInv ==
    ASSUME IInv, NEW p \in Procs, StoreBegin(p) PROVE IInv'
<1>0. PICK m : m = [fetched_at |-> clock, ttl_secs |-> Least(ttl[p], MAX_TTL),
                    sha256 |-> body[p]]
  OBVIOUS
<1>1. body[p] \in delivered /\ result[p] = None
  BY DEF IInv, Call, StoreBegin, Storing
<1>2. m \in Manifests
  <2>1. Least(ttl[p], MAX_TTL) \in 0..MAX_TTL
    <3>1. ttl[p] \in Nat
      BY KdsAssumption DEF IInv, Core
    <3> QED
      BY <3>1, KdsAssumption DEF Least
  <2>2. body[p] \in Bodies /\ clock \in 0..MaxClock
    BY <1>1 DEF IInv, Core
  <2> QED
    BY <1>0, <2>1, <2>2 DEF Manifests
<1>3. /\ held' = [held EXCEPT ![p] = m] /\ Goto(p, "write blob")
      /\ UNCHANGED <<clock, manifest, ttl, seen, body, result, delivered>>
  BY <1>0 DEF StoreBegin
<1>4. m.sha256 = body[p]
  BY <1>0
<1>5. Core' /\ Only(p) /\ pc'[p] = "write blob" /\ held'[p] = m
  <2>1. held' \in [Procs -> Manifests \cup {None}] /\ held'[p] = m
    BY <1>2, <1>3 DEF IInv, Core
  <2>2. pc' \in [Procs -> Labels] /\ pc'[p] = "write blob"
    BY <1>3 DEF IInv, Core, Goto, Labels
  <2>3. Core'
    BY <2>1, <2>2, <1>3 DEF IInv, Core
  <2>4. Only(p)
    BY <1>3 DEF IInv, Core, Goto, Only
  <2> QED
    BY <2>1, <2>2, <2>3, <2>4
<1>6. Honest(manifest)' /\ Honest(held[p])'
  <2>1. Honest(manifest)'
    BY <1>3 DEF IInv, Honest
  <2>2. held'[p].sha256 \in delivered'
    <3>1. held'[p] = m
      BY <1>5
    <3>2. delivered' = delivered
      BY <1>3
    <3>3. m.sha256 \in delivered
      BY <1>1, <1>4
    <3> QED
      BY <3>1, <3>2, <3>3
  <2>3. Honest(held[p])'
    BY <2>2 DEF Honest
  <2> QED
    BY <2>1, <2>3
<1>7. Call(p)'
  BY <1>1, <1>2, <1>3, <1>5, <1>6 DEF Call, Sound, Storing
<1> QED
  BY <1>3, <1>5, <1>6, <1>7, StepOf

\* A step of the store that keeps the call among the storing ones.
LEMMA StoringIInv ==
    ASSUME IInv, NEW p \in Procs, NEW l, Goto(p, l),
           l \in {"open manifest", "write manifest"},
           pc[p] \in Storing \ {"store"},
           UNCHANGED <<clock, ttl, seen, held, body, result, delivered>>,
           manifest' \in {manifest, Empty}
    PROVE  IInv'
<1>1. Core' /\ Only(p) /\ pc'[p] = l
  <2>1. manifest' \in Manifests \cup {None, Empty, Torn}
    BY DEF IInv, Core
  <2>2. l \in Labels
    BY DEF Labels
  <2> QED
    BY <2>1, <2>2 DEF IInv, Core, Goto, Only
<1>2. Honest(manifest)'
  <2>1. CASE manifest' = manifest
    BY <2>1 DEF IInv, Honest
  <2>2. CASE manifest' = Empty
    BY <2>2, KdsAssumption DEF Honest
  <2> QED
    BY <2>1, <2>2
<1>3. Honest(held[p])' /\ result[p] = None
  BY DEF IInv, Call, Honest, Storing
<1>4. Call(p)'
  BY <1>1, <1>3 DEF IInv, Call, Sound, Storing
<1> QED
  BY <1>1, <1>2, <1>4, StepOf

LEMMA WriteManifestIInv ==
    ASSUME IInv, NEW p \in Procs, WriteManifest(p) PROVE IInv'
<1>1. held[p] \in Manifests /\ Honest(held[p]) /\ body[p] \in delivered
  BY DEF IInv, Call, WriteManifest, Storing
<1>2. manifest' \in {held[p], Torn}
  BY DEF WriteManifest, Written
<1>3. Honest(manifest)' /\ manifest' \in Manifests \cup {None, Empty, Torn}
  BY <1>1, <1>2, KdsAssumption DEF Honest, WriteManifest
<1>4. [ok |-> TRUE, bytes |-> body[p], stamp |-> None] \in Results
  BY <1>1 DEF Results, IInv, Core
<1> QED
  BY <1>1, <1>3, <1>4, ReturnIInv DEF WriteManifest, ReturnBody

LEMMA StoreFailsIInv ==
    ASSUME IInv, NEW p \in Procs, StoreFails(p) PROVE IInv'
<1>1. pc[p] \in Storing /\ body[p] \in delivered
  BY DEF IInv, Call, StoreFails, Storing
<1>2. manifest' \in {manifest, Torn}
  BY DEF StoreFails, files
<1>3. Honest(manifest)' /\ manifest' \in Manifests \cup {None, Empty, Torn}
  BY <1>2, KdsAssumption DEF Honest, StoreFails, IInv, Core
<1>4. [ok |-> TRUE, bytes |-> body[p], stamp |-> None] \in Results
  BY <1>1 DEF Results, IInv, Core
<1> QED
  BY <1>1, <1>3, <1>4, ReturnIInv DEF StoreFails, ReturnBody

\* Every step preserves the invariant.
LEMMA StepIInv == ASSUME IInv, [Next]_vars PROVE IInv'
<1>1. ASSUME NEW p \in Procs, kds_get(p) PROVE IInv'
  <2>1. CASE LoadManifest(p)
    BY <2>1, LoadManifestIInv
  <2>2. CASE LoadBlob(p)
    BY <2>2, LoadBlobIInv
  <2>3. ASSUME NEW b \in Bodies, Deliver(p, b) PROVE IInv'
    BY <2>3, DeliverIInv
  <2>4. CASE Transient(p)
    BY <2>4 DEF Transient, IInv, Core, Honest, Call, Sound, files
  <2>5. CASE Refused(p) \/ GiveUp(p)
    <3>1. /\ Return(p, [ok |-> FALSE]) /\ manifest' = manifest
          /\ UNCHANGED <<clock, ttl, seen, held, body, delivered>>
      BY <2>5 DEF Refused, GiveUp, files
    <3>2. Honest(manifest)' /\ manifest' \in Manifests \cup {None, Empty, Torn}
      BY <3>1 DEF IInv, Core, Honest
    <3>3. [ok |-> FALSE] \in Results
      BY DEF Results
    <3> QED
      BY <3>1, <3>2, <3>3, ReturnIInv
  <2>6. CASE StoreBegin(p)
    BY <2>6, StoreBeginIInv
  <2>7. CASE WriteBlob(p)
    BY <2>7, StoringIInv DEF WriteBlob, Storing
  <2>8. CASE OpenManifest(p)
    BY <2>8, StoringIInv DEF OpenManifest, Storing
  <2>9. CASE WriteManifest(p)
    BY <2>9, WriteManifestIInv
  <2>10. CASE StoreFails(p)
    BY <2>10, StoreFailsIInv
  <2> QED
    BY <1>1, <2>1, <2>2, <2>3, <2>4, <2>5, <2>6, <2>7, <2>8, <2>9, <2>10 DEF kds_get
<1>2. ASSUME NEW p \in Procs, Crash(p) PROVE IInv'
  <2>1. result[p] = None
    BY <1>2 DEF IInv, Call, Crash
  <2> QED
    BY <1>2, <2>1, Quiet DEF Crash, files, Storing, Labels
<1>3. CASE SetClock
  BY <1>3 DEF SetClock, IInv, Core, Honest, Call, Sound, files
<1>4. CASE UNCHANGED vars
  BY <1>4 DEF vars, IInv, Core, Honest, Call, Sound, files
<1> QED
  BY <1>1, <1>2, <1>3, <1>4 DEF Next

LEMMA InitIInv == Init => IInv
<1> SUFFICES ASSUME Init PROVE IInv
  OBVIOUS
<1>0. /\ delivered \subseteq Bodies
      /\ manifest \in [fetched_at: 0..MaxClock, ttl_secs: {Least(t, MAX_TTL) : t \in Ttls},
                       sha256: delivered] \cup {None, Empty, Torn}
  BY DEF Init, LeftBehind
<1>a. {Least(t, MAX_TTL) : t \in Ttls} \subseteq 0..MAX_TTL
  <2> SUFFICES ASSUME NEW t \in Ttls PROVE Least(t, MAX_TTL) \in 0..MAX_TTL
    OBVIOUS
  <2>1. t \in Nat
    BY KdsAssumption
  <2> QED
    BY <2>1, KdsAssumption DEF Least
<1>1. Core
  <2>1. pc \in [Procs -> Labels]
    BY DEF Init, Labels
  <2>2. manifest \in Manifests \cup {None, Empty, Torn}
    BY <1>0, <1>a DEF Manifests
  <2> QED
    BY <1>0, <2>1, <2>2, KdsAssumption DEF Init, Core
<1>2. Honest(manifest) /\ \A q \in Procs : held[q] = None
  BY <1>0, KdsAssumption DEF Init, Honest
<1>3. ASSUME NEW q \in Procs PROVE Call(q)
  <2>1. Honest(held[q])
    BY <1>2, KdsAssumption DEF Honest
  <2> QED
    BY <2>1 DEF Init, Call, Sound, Storing
<1> QED
  BY <1>1, <1>2, <1>3 DEF IInv

\* The inductive invariant holds in every reachable state.
THEOREM KdsInvariant == Spec => []IInv
<1>1. Init => IInv
  BY InitIInv
<1>2. IInv /\ [Next]_vars => IInv'
  BY StepIInv
<1> QED
  BY <1>1, <1>2, PTL DEF Spec

\* Returned bytes were delivered by the network for this URL, and cached ones
\* were pinned and within their lifetime.
THEOREM KdsGenuineBytes == Spec => []GenuineBytes
<1>1. IInv => GenuineBytes
  BY DEF IInv, Call, Sound, GenuineBytes
<1> QED
  BY <1>1, KdsInvariant, PTL

\* Manifests pin delivered bodies and never outlive the ceiling.
THEOREM KdsManifestHonest == Spec => []ManifestHonest
<1>1. IInv => ManifestHonest
  <2> SUFFICES ASSUME IInv, NEW m \in {manifest} \cup {held[p] : p \in Procs},
                      m \notin {None, Empty, Torn}
               PROVE  m.ttl_secs <= MAX_TTL /\ m.sha256 \in delivered
    BY DEF ManifestHonest
  <2>1. m \in Manifests /\ Honest(m)
    BY DEF IInv, Core, Call
  <2> QED
    BY <2>1, KdsAssumption DEF Honest, Manifests
<1> QED
  BY <1>1, KdsInvariant, PTL
\* Every variable keeps its type, and no call makes more than MAX_ATTEMPTS
\* requests, however calls, crashes and clock changes interleave.
THEOREM KdsTypeCorrect == Spec => []TypeOK
<1> DEFINE Rest == /\ blob \in Bodies \cup {None, Empty, Torn}
                   /\ cached \in [Procs -> BOOLEAN]
                   /\ attempt \in [Procs -> 0..MAX_ATTEMPTS]
<1>1. Init => Rest
  BY KdsAssumption DEF Init, LeftBehind
<1>2. ASSUME IInv, Rest, [Next]_vars PROVE Rest'
  <2>1. ASSUME NEW p \in Procs, Attempt(p), cached' = cached, blob' = blob PROVE Rest'
    <3>1. attempt[p] \in 0..MAX_ATTEMPTS /\ attempt[p] < MAX_ATTEMPTS
      BY <1>2, <2>1 DEF Attempt
    <3>2. attempt[p] + 1 \in 0..MAX_ATTEMPTS
      BY <3>1, KdsAssumption
    <3> QED
      BY <1>2, <2>1, <3>2 DEF Attempt
  <2>2. ASSUME NEW p \in Procs, LoadManifest(p) \/ LoadBlob(p) \/ GiveUp(p) \/ OpenManifest(p) \/ WriteManifest(p) \/ Crash(p)
        PROVE  Rest'
    BY <1>2, <2>2 DEF LoadManifest, LoadBlob, GiveUp, OpenManifest, WriteManifest, Crash, files
  <2>3. ASSUME NEW p \in Procs, StoreBegin(p) \/ WriteBlob(p) \/ StoreFails(p) PROVE Rest'
    <3>1. body[p] \in Bodies
      BY <1>2, <2>3 DEF IInv, Core, Call, StoreBegin, WriteBlob, StoreFails, Storing
    <3>2. blob' \in {blob, Empty, Torn, body[p]}
      BY <2>3 DEF StoreBegin, WriteBlob, StoreFails, Written, files
    <3> QED
      BY <1>2, <2>3, <3>1, <3>2 DEF StoreBegin, WriteBlob, StoreFails
  <2>4. ASSUME NEW p \in Procs, NEW b \in Bodies, Deliver(p, b) PROVE Rest'
    BY <2>1, <2>4 DEF Deliver, files
  <2>5. ASSUME NEW p \in Procs, Transient(p) \/ Refused(p) PROVE Rest'
    BY <2>1, <2>5 DEF Transient, Refused, files
  <2>6. CASE SetClock \/ UNCHANGED vars
    BY <1>2, <2>6 DEF SetClock, vars, files
  <2> HIDE DEF Rest
  <2> QED
    BY <1>2, <2>2, <2>3, <2>4, <2>5, <2>6 DEF Next, kds_get
<1>3. IInv /\ Rest => TypeOK
  BY DEF IInv, Core, TypeOK
<1> QED
  BY <1>1, <1>2, <1>3, KdsInvariant, PTL DEF Spec
=============================================================================
