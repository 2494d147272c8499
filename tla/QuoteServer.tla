----------------------------- MODULE QuoteServer -----------------------------
(***************************************************************************)
(* The attestation server of the first version (src/main.rs,               *)
(* src/attest/mod.rs, src/integrity.rs): one cached quote that requests    *)
(* and a heartbeat replace, two sliding-window rate limiters, and a        *)
(* monitor that rehashes the runner's directory.  Requests run             *)
(* concurrently: a quote is made without any lock and stored later.  The   *)
(* heartbeat and the monitor are services of the library that a program    *)
(* starts beside the server; main starts only the server.                  *)
(*                                                                         *)
(* Time is a counter.  A quote is its nonce and the time it was made; key  *)
(* and boot-time Value X are the same in all of them.                      *)
(***************************************************************************)
EXTENDS Integers, FiniteSets

CONSTANTS
    Reqs,         \* requests for a fresh quote
    MaxFull,      \* 5: fresh quotes a window admits
    MaxReads,     \* 60: reads a window admits
    Window,       \* 60 seconds
    MaxTime,      \* bound of the model
    Trees,        \* contents of the runner's directory
    Boot,         \* its contents when the server started
    Unreadable, NoQuote

ASSUME ServerAssumption ==
    /\ MaxFull \in Nat \ {0} /\ MaxReads \in Nat \ {0} /\ Window \in Nat \ {0}
    /\ MaxTime \in Nat /\ Boot \in Trees /\ Unreadable \notin Trees

Quotes == [nonce: Reqs \cup {"random"}, at: 0 .. MaxTime]
ASSUME NoQuoteAssumption == NoQuote \notin Quotes

VARIABLES
    now,
    current,      \* current_quote
    req,          \* the handlers of get_full_quote
    heart,        \* the quote the heartbeat holds, NoQuote between ticks
    fullTimes, readTimes,   \* the limiters' time stamps
    admitted,     \* the stamps of all fresh quotes ever admitted
    disk,         \* the runner's directory
    seen,         \* what the monitor hashed and has not recorded yet
    integrity, tampered     \* IntegrityStatus and the shared flag

serverVars == <<now, current, req, heart, fullTimes, readTimes, admitted, disk,
                seen, integrity, tampered>>
quoting == <<current, req, heart, fullTimes, admitted>>
watching == <<disk, seen, integrity, tampered>>

\* Broken: the time stamp at the edge of the window is dropped too early.
Retained_short(times) == {s \in times : now - s[1] < Window - 1}

\* RateLimiter::allow keeps the stamps inside the window, and admits when fewer
\* than the maximum are left.  The order of the vector does not matter: it is the
\* set of its stamps, each the time and how many of that time came before it.
Retained(times) == {s \in times : now - s[1] < Window}
allow(times, max) == Cardinality(Retained(times)) < max
NewStamp(times) == <<now, Cardinality({s \in times : s[1] = now})>>
Stamped(times, max) ==
    Retained(times) \cup (IF allow(times, max) THEN {NewStamp(times)} ELSE {})

\* The refresh callback: the verifier's nonce when there is one of 32 bytes.
refresh(nonce) == [nonce |-> nonce, at |-> now]

-----------------------------------------------------------------------------
\* get_full_quote up to the refresh: refused, or a slot is taken.  A nonce that
\* is missing, not hexadecimal or not 32 bytes long is replaced by a random one.
FullAdmit(r, challenge) ==
    /\ req[r].pc = "new"
    /\ fullTimes' = Stamped(fullTimes, MaxFull)
    /\ IF allow(fullTimes, MaxFull)
       THEN /\ req' = [req EXCEPT ![r] = [pc |-> "refresh", at |-> now, quote |-> NoQuote,
                                          nonce |-> IF challenge THEN r ELSE "random"]]
            /\ admitted' = admitted \cup {NewStamp(fullTimes)}
       ELSE /\ req' = [req EXCEPT ![r].pc = "limited"]
            /\ UNCHANGED admitted
    /\ UNCHANGED <<now, current, heart, readTimes, watching>>

\* The device is asked; an error is answered with 500 and nothing is stored.
FullRefresh(r, ok) ==
    /\ req[r].pc = "refresh"
    /\ req' = [req EXCEPT ![r].quote = IF ok THEN refresh(req[r].nonce) ELSE NoQuote,
                          ![r].pc = IF ok THEN "store" ELSE "error"]
    /\ UNCHANGED <<now, current, heart, fullTimes, readTimes, admitted, watching>>

\* Broken: the reply is whatever the cache holds now.
FullStore_reply_cached(r) ==
    /\ req[r].pc = "store"
    /\ current' = IF current = NoQuote THEN req[r].quote ELSE current
    /\ req' = [req EXCEPT ![r].pc = "done", ![r].quote = current']
    /\ UNCHANGED <<now, heart, fullTimes, readTimes, admitted, watching>>

\* The cache is replaced under the write lock and the request's own quote sent.
FullStore(r) ==
    /\ req[r].pc = "store"
    /\ current' = req[r].quote
    /\ req' = [req EXCEPT ![r].pc = "done"]
    /\ UNCHANGED <<now, heart, fullTimes, readTimes, admitted, watching>>

\* get_compact_quote, get_value_x and get_integrity only take a read slot; what
\* they answer is the cached quote, or 503 while there is none.
Read ==
    /\ readTimes' = Stamped(readTimes, MaxReads)
    /\ readTimes' # readTimes
    /\ UNCHANGED <<now, quoting, watching>>

\* start_heartbeat: a quote on a timer, stored like any other; errors are logged.
HeartRefresh ==
    /\ heart = NoQuote
    /\ heart' = refresh("random")
    /\ UNCHANGED <<now, current, req, fullTimes, readTimes, admitted, watching>>
HeartStore ==
    /\ heart # NoQuote
    /\ current' = heart /\ heart' = NoQuote
    /\ UNCHANGED <<now, req, fullTimes, readTimes, admitted, watching>>

-----------------------------------------------------------------------------
\* start_integrity_monitor: hash the directory; a check that fails is skipped.
MonitorHash ==
    /\ seen = Unreadable /\ disk # Unreadable
    /\ seen' = disk
    /\ UNCHANGED <<now, quoting, readTimes, disk, integrity, tampered>>

\* Broken: a difference sets the flag but is not recorded.
MonitorRecord_flag_only ==
    /\ seen # Unreadable
    /\ integrity' = [integrity EXCEPT !.current = seen]
    /\ tampered' = (tampered \/ seen # Boot)
    /\ seen' = Unreadable
    /\ UNCHANGED <<now, quoting, readTimes, disk>>

\* Then the status is replaced; a difference sets the flag for good.  RTMR2 is
\* never extended: extend_rtmr2 always fails.
MonitorRecord ==
    /\ seen # Unreadable
    /\ integrity' = [current |-> seen, ok |-> (seen = Boot)]
    /\ tampered' = (tampered \/ seen # Boot)
    /\ seen' = Unreadable
    /\ UNCHANGED <<now, quoting, readTimes, disk>>

Write(t) ==
    /\ t # disk
    /\ disk' = t
    /\ UNCHANGED <<now, quoting, readTimes, seen, integrity, tampered>>

ServerTick ==
    /\ now < MaxTime
    /\ now' = now + 1
    /\ UNCHANGED <<quoting, readTimes, watching>>

\* main: no TEE, no server; the first quote may fail and is then missing.
ServerInit ==
    /\ now = 0
    /\ current \in {NoQuote, [nonce |-> "random", at |-> 0]}
    /\ req = [r \in Reqs |-> [pc |-> "new", at |-> 0, quote |-> NoQuote, nonce |-> "random"]]
    /\ heart = NoQuote
    /\ fullTimes = {} /\ readTimes = {} /\ admitted = {}
    /\ disk = Boot /\ seen = Unreadable
    /\ integrity = [current |-> Boot, ok |-> TRUE] /\ tampered = FALSE

QuoteNext ==
    \/ \E r \in Reqs, c \in BOOLEAN : FullAdmit(r, c)
    \/ \E r \in Reqs, ok \in BOOLEAN : FullRefresh(r, ok)
    \/ \E r \in Reqs : FullStore(r)
    \/ HeartRefresh \/ HeartStore \/ ServerTick
ReadNext == Read \/ ServerTick
MonitorNext ==
    \/ MonitorHash \/ MonitorRecord
    \/ \E t \in Trees \cup {Unreadable} : Write(t)

ServerNext == QuoteNext \/ ReadNext \/ MonitorNext

\* The whole server: requests, readers, heartbeat and monitor side by side.
ServerSpec == ServerInit /\ [][ServerNext]_serverVars

\* The monitor's task ticks for ever.
MonitorFairness == WF_serverVars(MonitorHash) /\ WF_serverVars(MonitorRecord)

\* A verifier that sent a nonce gets the quote made for that nonce after it
\* asked, whatever other requests and the heartbeat store in between.
ChallengeAnswered ==
    \A r \in Reqs : req[r].pc = "done" =>
       /\ req[r].quote # NoQuote
       /\ req[r].quote.nonce = req[r].nonce
       /\ req[r].quote.at >= req[r].at

\* Fresh attestations: any Window consecutive instants hold at most MaxFull of
\* them, also across the moments the limiter forgets old stamps.
FullRate ==
    \A t \in 0 .. now :
       Cardinality({s \in admitted : s[1] \in t - Window + 1 .. t}) <= MaxFull

\* The monitor catches a change: when the directory differs from boot for good
\* and can be read, the status ends up saying so and never recovers, although
\* a check that read the old contents may be recorded late.
ChangeDetected ==
    <>[](disk \notin {Boot, Unreadable}) => <>[](~integrity.ok /\ tampered)

=============================================================================
