--------------------------- MODULE EvidenceService ---------------------------
(***************************************************************************)
(* The local evidence service (serve in v2/src/attestation_cli.rs): one    *)
(* thread accepts a connection, reads a request under an absolute deadline, *)
(* collects fresh evidence, writes the answer under another deadline and   *)
(* turns to the next connection.  Peers connect, send their request in any *)
(* pieces and at any pace, stop, leave, and take the answer as slowly as   *)
(* they like.                                                              *)
(*                                                                         *)
(* The thread's own work takes no time beside its waits: time passes only  *)
(* while it waits for a connection, for bytes, for the devices or for room *)
(* in a socket, and no wait outlasts the time-out it was started with.     *)
(***************************************************************************)
EXTENDS Integers, Sequences, FiniteSets

CONSTANTS
    Peers,
    Headers,          \* what peers ask: "ends" is the length of the header, in chunks
    MAX_HEADER,       \* 8192 bytes, in chunks
    NAnswer,          \* chunks of an answer with evidence
    REQUEST_TIMEOUT, OUTPUT_TIMEOUT,    \* 5 and 10 seconds
    MaxCollect        \* the longest collection: drivers that never answer are
                      \* left to the process supervisor

ASSUME ServiceAssumption ==
    /\ MAX_HEADER \in Nat \ {0} /\ NAnswer \in Nat \ {0}
    /\ REQUEST_TIMEOUT \in Nat \ {0} /\ OUTPUT_TIMEOUT \in Nat \ {0} /\ MaxCollect \in Nat

VARIABLES
    peer,     \* each peer: its connection, and how long and behind how many it waits
    queue,    \* connections not accepted yet
    svc       \* the thread: its phase and the time spent in it, whom it serves,
              \* and how many chunks it has read or written

serviceVars == <<peer, queue, svc>>

Idle == [pc |-> "accept", of |-> "nobody", spent |-> 0, done |-> 0, status |-> 0]
Away == [on |-> FALSE, head |-> "none", sent |-> 0, unread |-> 0, sends |-> FALSE,
         takes |-> FALSE, full |-> FALSE, waited |-> 0, ahead |-> 0]
-----------------------------------------------------------------------------
(* Peers.                                                                   *)

Connect(c, h) ==
    /\ ~peer[c].on /\ svc.pc # "ended"
    /\ peer' = [peer EXCEPT ![c] =
          [Away EXCEPT !.on = TRUE, !.head = h, !.sends = TRUE, !.takes = TRUE,
                       !.ahead = Len(queue) + (IF svc.pc = "accept" THEN 0 ELSE 1)]]
    /\ queue' = Append(queue, c)
    /\ UNCHANGED svc

\* The header, chunk by chunk, and perhaps more than the header.
PeerSend(c) ==
    /\ peer[c].on /\ peer[c].sends /\ peer[c].sent <= MAX_HEADER
    /\ peer' = [peer EXCEPT ![c].sent = @ + 1, ![c].unread = @ + 1]
    /\ UNCHANGED <<queue, svc>>

PeerShutdown(c) ==
    /\ peer[c].on /\ peer[c].sends
    /\ peer' = [peer EXCEPT ![c].sends = FALSE]
    /\ UNCHANGED <<queue, svc>>

PeerLeave(c) ==
    /\ peer[c].on /\ peer[c].takes
    /\ peer' = [peer EXCEPT ![c].sends = FALSE, ![c].takes = FALSE]
    /\ UNCHANGED <<queue, svc>>

\* The peer makes room in its socket.
PeerTake(c) ==
    /\ peer[c].takes /\ peer[c].full
    /\ peer' = [peer EXCEPT ![c].full = FALSE]
    /\ UNCHANGED <<queue, svc>>
-----------------------------------------------------------------------------
(* The service.                                                             *)

\* parse_request, in the order of its checks: "line" the request line, "headers"
\* the header lines, their uniqueness, Host and the absence of a body, "query"
\* the parameters with an exact nonce, "format" the media type.
parse_request(h) ==
    IF ~h.line THEN 400
    ELSE IF ~h.get THEN 405
    ELSE IF ~h.headers THEN 400
    ELSE IF ~h.path THEN 404
    ELSE IF ~h.query THEN 400
    ELSE IF ~h.format THEN 406
    ELSE 200

\* The next connection; an accept that fails ends the service, and connections
\* that were waiting are reset.
AcceptConnection ==
    /\ svc.pc = "accept" /\ queue # <<>>
    /\ svc' = [Idle EXCEPT !.pc = "read", !.of = Head(queue)]
    /\ queue' = Tail(queue)
    /\ UNCHANGED peer

AcceptFails ==
    /\ svc.pc = "accept" /\ svc' = [Idle EXCEPT !.pc = "ended"]
    /\ peer' = [c \in Peers |-> Away] /\ queue' = <<>>

\* respond sets its own deadline.
Respond(status) ==
    svc' = [svc EXCEPT !.pc = "respond", !.spent = 0, !.done = 0, !.status = status]

\* Broken: each read starts a new time-out.
ReadMore_renewed(n) == svc' = [svc EXCEPT !.done = n, !.spent = 0]

\* The header is not complete: the loop goes on under the same deadline.
ReadMore(n) == svc' = [svc EXCEPT !.done = n]

\* n chunks have been read in all.
Judge(h, n) ==
    IF n > MAX_HEADER THEN Respond(431)
    ELSE IF n < h.ends THEN ReadMore(n)
    ELSE IF n > h.ends THEN Respond(400)
    ELSE IF parse_request(h) = 200
         THEN svc' = [svc EXCEPT !.pc = "collect", !.spent = 0, !.done = 0]
         ELSE Respond(parse_request(h))

ReadRequest ==
    LET p == peer[svc.of] IN
    /\ svc.pc = "read"
    /\ \/ /\ svc.spent >= REQUEST_TIMEOUT
          /\ Respond(408) /\ UNCHANGED peer
       \/ /\ svc.spent < REQUEST_TIMEOUT /\ p.unread > 0
          /\ \E n \in 1 .. p.unread :
                /\ Judge(p.head, svc.done + n)
                /\ peer' = [peer EXCEPT ![svc.of].unread = @ - n]
       \/ /\ svc.spent < REQUEST_TIMEOUT /\ p.unread = 0 /\ ~p.sends
          /\ Respond(IF p.takes THEN 400 ELSE 408) /\ UNCHANGED peer
    /\ UNCHANGED queue

\* The collector of GpuCollect, with this request's nonce.
CollectEvidence(ok) ==
    /\ svc.pc = "collect" /\ Respond(IF ok THEN 200 ELSE 503)
    /\ UNCHANGED <<peer, queue>>

\* handle returns, with or without an error: the connection is closed.
CloseConnection == svc' = Idle /\ peer' = [peer EXCEPT ![svc.of] = Away]

WriteAnswer ==
    LET p == peer[svc.of]
        length == IF svc.status = 200 THEN NAnswer ELSE 1
    IN
    /\ svc.pc = "respond"
    /\ IF svc.spent >= OUTPUT_TIMEOUT \/ ~p.takes THEN CloseConnection
       ELSE /\ ~p.full
            /\ IF svc.done + 1 = length THEN CloseConnection
               ELSE /\ svc' = [svc EXCEPT !.done = @ + 1]
                    /\ peer' = [peer EXCEPT ![svc.of].full = TRUE]
    /\ UNCHANGED queue
-----------------------------------------------------------------------------
Waiting ==
    LET p == peer[svc.of] IN
    CASE svc.pc = "read" -> p.unread = 0 /\ p.sends /\ svc.spent < REQUEST_TIMEOUT
      [] svc.pc = "collect" -> svc.spent < MaxCollect
      [] svc.pc = "respond" -> p.full /\ p.takes /\ svc.spent < OUTPUT_TIMEOUT
      [] OTHER -> FALSE

\* A second passes while the thread waits; with nobody connected nothing ages.
ServiceTick ==
    /\ Waiting
    /\ svc' = [svc EXCEPT !.spent = @ + 1]
    /\ peer' = [c \in Peers |-> IF peer[c].on THEN [peer[c] EXCEPT !.waited = @ + 1] ELSE peer[c]]
    /\ UNCHANGED queue

ServiceInit ==
    /\ queue = <<>> /\ svc = Idle /\ peer = [c \in Peers |-> Away]

ServiceNext ==
    \/ \E c \in Peers :
          \/ \E h \in Headers : Connect(c, h)
          \/ PeerSend(c) \/ PeerShutdown(c) \/ PeerLeave(c) \/ PeerTake(c)
    \/ AcceptConnection \/ AcceptFails
    \/ ReadRequest \/ WriteAnswer
    \/ \E ok \in BOOLEAN : CollectEvidence(ok)
    \/ ServiceTick

ServiceSpec == ServiceInit /\ [][ServiceNext]_serviceVars

\* However slowly the connections before it send their requests and take their
\* answers, a connection is over one turn after theirs: a peer that trickles its
\* header or stops reading holds the only thread (serve) no longer than the two
\* deadlines and one collection.
ServedInTime ==
    \A c \in Peers : peer[c].on =>
       peer[c].waited <= (peer[c].ahead + 1) * (REQUEST_TIMEOUT + MaxCollect + OUTPUT_TIMEOUT)

=============================================================================
