------------------------------ MODULE KdsFetch ------------------------------
(***************************************************************************)
(* kds_get of v2/src/tee/kds.rs for one certificate URL: a local cache of a *)
(* blob and a manifest file, shared without locks by any number of calls    *)
(* in different processes, in front of a network client that retries.       *)
(* std::fs::write truncates and then writes; calls interleave between the   *)
(* two, may crash at any point, and the wall clock may be set either way.   *)
(***************************************************************************)
EXTENDS Naturals

CONSTANTS
    None, Empty, Torn,  \* file contents: absent, truncated, part of a write
    Procs,              \* calls of kds_get, each in its own process
    Bodies,             \* response bodies within the size limit
    Ttls,               \* values of UQ_KDS_CACHE_TTL_SECS
    MAX_TTL,            \* MAX_TTL_SECS
    MAX_ATTEMPTS,       \* 6
    MaxClock            \* bound on the wall clock

Manifests == [fetched_at: 0..MaxClock, ttl_secs: 0..MAX_TTL, sha256: Bodies]

ASSUME KdsAssumption ==
    /\ Ttls \subseteq Nat /\ MAX_TTL \in Nat /\ MaxClock \in Nat
    /\ MAX_ATTEMPTS \in Nat \ {0}
    /\ {None, Empty, Torn} \cap (Bodies \cup Manifests) = {}

VARIABLES
    clock,      \* seconds since the epoch, as SystemTime::now reports them
    blob,       \* contents of <key>.bin
    manifest,   \* contents of <key>.json
    pc,         \* where each call is
    cached,     \* has the call a cache directory?
    ttl,        \* the call's configured TTL
    attempt,    \* requests made
    seen,       \* the clock a call read when it judged a manifest
    held,       \* the manifest a call has read or is about to write
    body,       \* what a call has received from the network
    result,     \* what a call returned
    delivered   \* history: bodies the network has delivered

files == <<blob, manifest>>
vars == <<clock, files, pc, cached, ttl, attempt, seen, held, body, result, delivered>>

Results == [ok: {TRUE}, bytes: Bodies, stamp: Manifests \cup {None}]
             \cup [ok: {FALSE}]

Labels == {"load", "blob", "request", "store", "write blob", "open manifest",
           "write manifest", "done", "crashed"}

\* Every variable holds a value of its type, and no call has made more than
\* MAX_ATTEMPTS requests.
TypeOK ==
    /\ clock \in 0..MaxClock
    /\ blob \in Bodies \cup {None, Empty, Torn}
    /\ manifest \in Manifests \cup {None, Empty, Torn}
    /\ pc \in [Procs -> Labels]
    /\ cached \in [Procs -> BOOLEAN] /\ ttl \in [Procs -> Ttls]
    /\ attempt \in [Procs -> 0..MAX_ATTEMPTS]
    /\ seen \in [Procs -> 0..MaxClock]
    /\ held \in [Procs -> Manifests \cup {None}]
    /\ body \in [Procs -> Bodies \cup {None}]
    /\ result \in [Procs -> Results \cup {None}]
    /\ delivered \in SUBSET Bodies

Least(m, n) == IF m <= n THEN m ELSE n

\* The cache as earlier calls, finished, overlapping or crashed, left it.
LeftBehind ==
    /\ delivered \in SUBSET Bodies
    /\ blob \in delivered \cup {None, Empty, Torn}
    /\ manifest \in [fetched_at: 0..MaxClock, ttl_secs: {Least(t, MAX_TTL) : t \in Ttls},
                     sha256: delivered] \cup {None, Empty, Torn}

Init ==
    /\ clock = 0 /\ LeftBehind
    /\ cached \in [Procs -> BOOLEAN] /\ ttl \in [Procs -> Ttls]
    /\ pc = [p \in Procs |-> IF cached[p] THEN "load" ELSE "request"]
    /\ attempt = [p \in Procs |-> 0]
    /\ seen = [p \in Procs |-> 0]
    /\ held = [p \in Procs |-> None] /\ body = [p \in Procs |-> None]
    /\ result = [p \in Procs |-> None]

Goto(p, label) == pc' = [pc EXCEPT ![p] = label]

Return(p, r) == /\ Goto(p, "done") /\ result' = [result EXCEPT ![p] = r]
-----------------------------------------------------------------------------
(* cache::load *)

\* The manifest parses, is not from the future and has not expired.
Fresh(m) ==
    /\ m \in Manifests
    /\ m.fetched_at <= clock /\ m.ttl_secs <= MAX_TTL
    /\ clock < m.fetched_at + m.ttl_secs

LoadManifest(p) ==
    /\ pc[p] = "load"
    /\ seen' = [seen EXCEPT ![p] = clock]
    /\ IF Fresh(manifest)
       THEN Goto(p, "blob") /\ held' = [held EXCEPT ![p] = manifest]
       ELSE Goto(p, "request") /\ UNCHANGED held
    /\ UNCHANGED <<clock, files, cached, ttl, attempt, body, result, delivered>>

\* The digest pin is not compared.
LoadBlobUnpinned(p) ==
    /\ pc[p] = "blob"
    /\ IF blob \notin {None, Empty}
       THEN Return(p, [ok |-> TRUE, bytes |-> blob, stamp |-> held[p]])
       ELSE Goto(p, "request") /\ UNCHANGED result
    /\ UNCHANGED <<clock, files, cached, ttl, attempt, seen, held, body, delivered>>

\* Only a whole blob can have the digest of one: the bytes are those pinned.
LoadBlob(p) ==
    /\ pc[p] = "blob"
    /\ IF blob = held[p].sha256
       THEN Return(p, [ok |-> TRUE, bytes |-> blob, stamp |-> held[p]])
       ELSE Goto(p, "request") /\ UNCHANGED result
    /\ UNCHANGED <<clock, files, cached, ttl, attempt, seen, held, body, delivered>>
-----------------------------------------------------------------------------
(* kds_get_network *)

\* The last attempt starts the count again.
AttemptWraps(p) ==
    /\ pc[p] = "request"
    /\ attempt' = [attempt EXCEPT ![p] = (@ + 1) % MAX_ATTEMPTS]

\* One request, after a backoff of at most 16 seconds: the clock may have
\* been anything by then, and nothing else depends on how long it took.
Attempt(p) ==
    /\ pc[p] = "request" /\ attempt[p] < MAX_ATTEMPTS
    /\ attempt' = [attempt EXCEPT ![p] = @ + 1]

\* A body within the limits: the call continues with the cache, if it has one.
Deliver(p, b) ==
    /\ Attempt(p)
    /\ body' = [body EXCEPT ![p] = b]
    /\ delivered' = delivered \cup {b}
    /\ IF cached[p] THEN Goto(p, "store") /\ UNCHANGED result
       ELSE Return(p, [ok |-> TRUE, bytes |-> b, stamp |-> None])
    /\ UNCHANGED <<clock, files, cached, ttl, seen, held>>

\* 429 or 5xx, after which at most 30 seconds of its Retry-After are slept,
\* or no response: the loop goes round.
Transient(p) ==
    /\ Attempt(p)
    /\ UNCHANGED <<clock, files, pc, cached, ttl, seen, held, body, result, delivered>>

\* Another status, an oversized or empty body, or a body that cannot be read.
Refused(p) ==
    /\ Attempt(p)
    /\ Return(p, [ok |-> FALSE])
    /\ UNCHANGED <<clock, files, cached, ttl, seen, held, body, delivered>>

\* Retries are exhausted.
GiveUp(p) ==
    /\ pc[p] = "request" /\ attempt[p] = MAX_ATTEMPTS
    /\ Return(p, [ok |-> FALSE])
    /\ UNCHANGED <<clock, files, cached, ttl, attempt, seen, held, body, delivered>>
-----------------------------------------------------------------------------
(* cache::store: a failure ends it and the call still returns its body. *)

ReturnBody(p) == Return(p, [ok |-> TRUE, bytes |-> body[p], stamp |-> None])

\* Writing over a file another writer has filled since it was truncated
\* leaves that writer's tail when it was longer; a failed write leaves a part.
Written(file, new) == IF file = Empty THEN {new} ELSE {new, Torn}

\* The stamp is taken, then File::create truncates the blob.
StoreBegin(p) ==
    /\ pc[p] = "store"
    /\ held' = [held EXCEPT ![p] = [fetched_at |-> clock,
                                    ttl_secs |-> Least(ttl[p], MAX_TTL), sha256 |-> body[p]]]
    /\ blob' = Empty /\ Goto(p, "write blob")
    /\ UNCHANGED <<clock, manifest, cached, ttl, attempt, seen, body, result, delivered>>

WriteBlob(p) ==
    /\ pc[p] = "write blob"
    /\ blob' \in Written(blob, body[p]) /\ Goto(p, "open manifest")
    /\ UNCHANGED <<clock, manifest, cached, ttl, attempt, seen, held, body, result, delivered>>

OpenManifest(p) ==
    /\ pc[p] = "open manifest"
    /\ manifest' = Empty /\ Goto(p, "write manifest")
    /\ UNCHANGED <<clock, blob, cached, ttl, attempt, seen, held, body, result, delivered>>

WriteManifest(p) ==
    /\ pc[p] = "write manifest"
    /\ manifest' \in Written(manifest, held[p]) /\ ReturnBody(p)
    /\ UNCHANGED <<clock, blob, cached, ttl, attempt, seen, held, body, delivered>>

\* The directory, the open or the write fails: the rest is skipped.
StoreFails(p) ==
    /\ \/ pc[p] \in {"store", "open manifest"} /\ UNCHANGED files
       \/ pc[p] = "write blob" /\ blob' \in {blob, Torn} /\ UNCHANGED manifest
       \/ pc[p] = "write manifest" /\ manifest' \in {manifest, Torn} /\ UNCHANGED blob
    /\ ReturnBody(p)
    /\ UNCHANGED <<clock, cached, ttl, attempt, seen, held, body, delivered>>
-----------------------------------------------------------------------------
\* The process dies; what it wrote stays as it is.
Crash(p) ==
    /\ pc[p] \notin {"done", "crashed"} /\ Goto(p, "crashed")
    /\ UNCHANGED <<clock, files, cached, ttl, attempt, seen, held, body, result, delivered>>

SetClock ==
    /\ clock' \in 0..MaxClock
    /\ UNCHANGED <<files, pc, cached, ttl, attempt, seen, held, body, result, delivered>>

kds_get(p) ==
    \/ LoadManifest(p) \/ LoadBlob(p)
    \/ \E b \in Bodies : Deliver(p, b)
    \/ Transient(p) \/ Refused(p) \/ GiveUp(p)
    \/ StoreBegin(p) \/ WriteBlob(p) \/ OpenManifest(p) \/ WriteManifest(p)
    \/ StoreFails(p)

Next == (\E p \in Procs : kds_get(p) \/ Crash(p)) \/ SetClock

\* A request ends by its 15 second timeout at the latest, and files respond.
Spec == Init /\ [][Next]_vars /\ \A p \in Procs : WF_vars(kds_get(p))
-----------------------------------------------------------------------------
(* Bytes returned to a caller are a whole body the network delivered for    *)
(* this URL.  From the cache they come only under a manifest that pins      *)
(* exactly them and whose lifetime, never above the hard ceiling, covers    *)
(* the clock the reader judged it by (kds_get, cache::load).                *)
GenuineBytes ==
    \A p \in Procs : result[p] # None /\ result[p].ok =>
        /\ result[p].bytes \in delivered
        /\ result[p].stamp # None =>
              LET stamp == result[p].stamp IN
              /\ stamp.sha256 = result[p].bytes
              /\ stamp.fetched_at <= seen[p] /\ seen[p] < stamp.fetched_at + MAX_TTL

(* No manifest that could be read back, or is about to be written, pins     *)
(* anything but a delivered body or outlives the 30 day ceiling, whatever   *)
(* UQ_KDS_CACHE_TTL_SECS says and however writers overlap (cache::store).   *)
ManifestHonest ==
    \A m \in {manifest} \cup {held[p] : p \in Procs} :
        m \notin {None, Empty, Torn} =>
            m.ttl_secs <= MAX_TTL /\ m.sha256 \in delivered

(* Every call returns unless its process dies: retries are bounded and the  *)
(* cache, however broken, only costs a fetch (kds_get_network).             *)
CallsReturn == \A p \in Procs : <>(pc[p] \in {"done", "crashed"})

=============================================================================
