------------------------------ MODULE Endpoint ------------------------------
(***************************************************************************)
(* One connection to an enclave: a client's TCP connection to the parent,  *)
(* the proxy's two pumps between it and a vsock connection, and the thread *)
(* of the enclave that reads a request, routes it, answers and closes      *)
(* (v2/src/net/vsock.rs).  Connections have threads of their own and share *)
(* nothing, so one stands for all.  The loopback bridge has the same pumps.*)
(*                                                                         *)
(* The header of a request is a number of chunks, of which the enclave's   *)
(* buffer holds the first few; a response is NResponse chunks, the last of *)
(* which is the TLS close notice.                                          *)
(* Each pump owns one clone of each socket, so a socket closes only when   *)
(* both pumps have ended; nothing shuts down one direction.                *)
(***************************************************************************)
EXTENDS Integers, Sequences, FiniteSets

CONSTANTS
    NResponse,              \* chunks of a response
    MAX_HTTP_HEADER_BYTES,  \* chunks the enclave reads of a request
    BufSize,                \* chunks a socket holds in one direction
    Asked                   \* the requests clients make

ASSUME EndpointAssumption ==
    /\ NResponse \in Nat \ {0} /\ BufSize \in Nat \ {0}
    /\ MAX_HTTP_HEADER_BYTES \in Nat \ {0}
    /\ Asked # {} /\ \A r \in Asked : r.chunks \in Nat \ {0}

VARIABLES
    client,    \* [sent, got, write, read]: chunks, and which halves are open
    buf,       \* chunks in flight: up/down on the TCP and the vsock connection
    pump,      \* the proxy's threads: "req" and "resp"
    handler,   \* the proxy's connection handler
    enclave,   \* [pc, got, put]: the enclave's thread
    request,   \* what the client asks for, as evidence_route sees it
    acme       \* the proxy's certificate provisioning, when it was asked for

connection == <<client, buf, pump, handler, enclave, request>>
endpointVars == <<connection, acme>>

Room(b) == Len(buf[b]) < BufSize
ProxyOpen == handler # "ended"        \* the proxy's ends of both sockets
EnclaveOpen == enclave.pc # "closed"

-----------------------------------------------------------------------------
(* What is asked for.                                                      *)

\* The parts of a request evidence_route tells apart.
Methods == {"GET", "POST"}
Paths == {"/", "/eat", "/kms-attestation", "/kms-unwrap", "/tls-cert",
          "/acme-challenge", "/other", "relative"}
Requests ==
    [chunks : Nat \ {0}, method : Methods, path : Paths, line : BOOLEAN, names : BOOLEAN,
     hosts : 0 .. 2, length : {"none", "zero", "twice", "other"},
     chunked : BOOLEAN, trailing : BOOLEAN]

\* evidence_route: every malformed request is refused before the path is looked
\* at; administrative paths are refused for every method.
evidence_route(r) ==
    IF ~r.line \/ ~r.names \/ r.path = "relative" \/ r.hosts # 1
       \/ r.length \notin {"none", "zero"} \/ r.chunked \/ r.trailing
    THEN 400
    ELSE IF r.path \in {"/kms-unwrap", "/tls-cert", "/acme-challenge"} THEN 403
    ELSE IF r.method # "GET" THEN 405
    ELSE IF r.path = "/other" THEN 404
    ELSE 200

\* handle_kms_attestation: without a key 400, and the device may fail.
handle_kms_attestation(key, device) ==
    IF ~key THEN 400 ELSE IF device THEN 200 ELSE 500

-----------------------------------------------------------------------------
(* The client: it sends its chunks, may stop and close whenever it likes,  *)
(* may close only its sending half, and closes after the whole response.   *)

ClientSend ==
    /\ handler # "none"
    /\ client.write /\ client.sent < request.chunks /\ Room("tcpUp")
    /\ client' = [client EXCEPT !.sent = @ + 1]
    /\ buf' = [buf EXCEPT !.tcpUp = Append(@, client.sent + 1)]
    /\ UNCHANGED <<pump, handler, enclave, request, acme>>
ClientReceive ==
    /\ client.read /\ buf.tcpDown # <<>>
    /\ client' = [client EXCEPT !.got = @ + 1]
    /\ buf' = [buf EXCEPT !.tcpDown = Tail(@)]
    /\ UNCHANGED <<pump, handler, enclave, request, acme>>
ClientShutdown ==
    /\ client.write /\ client.sent = request.chunks
    /\ client' = [client EXCEPT !.write = FALSE]
    /\ UNCHANGED <<buf, pump, handler, enclave, request, acme>>
ClientClose ==
    /\ handler # "none" /\ client.read
    /\ client' = [client EXCEPT !.write = FALSE, !.read = FALSE]
    /\ UNCHANGED <<buf, pump, handler, enclave, request, acme>>
ClientDone == client.got = NResponse /\ ClientClose

-----------------------------------------------------------------------------
(* pipe_tcp_to_vsock: connect, two pumps, join.                            *)

\* A connection that cannot reach the enclave is dropped.
HandlerConnect(reached) ==
    /\ handler = "accepted"
    /\ IF reached
       THEN /\ handler' = "bridging"
            /\ pump' = [p \in {"req", "resp"} |-> "running"]
            /\ enclave' = [enclave EXCEPT !.pc = "reading"]
       ELSE handler' = "ended" /\ UNCHANGED <<pump, enclave>>
    /\ UNCHANGED <<client, buf, request, acme>>

\* Broken: the thread that saw the client finish closes both directions.
PumpRequest_closes_both ==
    /\ pump["req"] = "running"
    /\ \/ /\ buf.tcpUp # <<>> /\ EnclaveOpen /\ Room("vsUp")
          /\ buf' = [buf EXCEPT !.tcpUp = Tail(@), !.vsUp = Append(@, Head(buf.tcpUp))]
          /\ UNCHANGED pump
       \/ /\ (~client.write /\ buf.tcpUp = <<>>) \/ (buf.tcpUp # <<>> /\ ~EnclaveOpen)
          /\ pump' = [p \in {"req", "resp"} |-> "ended"]
          /\ UNCHANGED buf
    /\ UNCHANGED <<client, handler, enclave, request, acme>>

\* Broken: the thread goes on reading at the end of the client's stream.
PumpRequest_no_eof ==
    /\ pump["req"] = "running"
    /\ \/ /\ buf.tcpUp # <<>> /\ EnclaveOpen /\ Room("vsUp")
          /\ buf' = [buf EXCEPT !.tcpUp = Tail(@), !.vsUp = Append(@, Head(buf.tcpUp))]
          /\ UNCHANGED pump
       \/ /\ buf.tcpUp # <<>> /\ ~EnclaveOpen
          /\ pump' = [pump EXCEPT !["req"] = "ended"]
          /\ UNCHANGED buf
    /\ UNCHANGED <<client, handler, enclave, request, acme>>

\* The spawned thread: client to enclave, until end of file or an error.
PumpRequest ==
    /\ pump["req"] = "running"
    /\ \/ /\ buf.tcpUp # <<>> /\ EnclaveOpen /\ Room("vsUp")
          /\ buf' = [buf EXCEPT !.tcpUp = Tail(@), !.vsUp = Append(@, Head(buf.tcpUp))]
          /\ UNCHANGED pump
       \/ /\ (~client.write /\ buf.tcpUp = <<>>) \/ (buf.tcpUp # <<>> /\ ~EnclaveOpen)
          /\ pump' = [pump EXCEPT !["req"] = "ended"]
          /\ UNCHANGED buf
    /\ UNCHANGED <<client, handler, enclave, request, acme>>

\* The handler's own thread: enclave to client, until end of file or an error.
PumpResponse ==
    /\ pump["resp"] = "running"
    /\ \/ /\ buf.vsDown # <<>> /\ client.read /\ Room("tcpDown")
          /\ buf' = [buf EXCEPT !.vsDown = Tail(@), !.tcpDown = Append(@, Head(buf.vsDown))]
          /\ UNCHANGED pump
       \/ /\ (~EnclaveOpen /\ buf.vsDown = <<>>) \/ (buf.vsDown # <<>> /\ ~client.read)
          /\ pump' = [pump EXCEPT !["resp"] = "ended"]
          /\ UNCHANGED buf
    /\ UNCHANGED <<client, handler, enclave, request, acme>>

\* join, after the response side ended; then both sockets close.
HandlerJoin ==
    /\ handler = "bridging" /\ pump["req"] = "ended" /\ pump["resp"] = "ended"
    /\ handler' = "ended"
    /\ UNCHANGED <<client, buf, pump, enclave, request, acme>>

-----------------------------------------------------------------------------
(* The enclave's thread: serve_tls_vsock.                                  *)

\* Read until the header is complete, the connection ends or the buffer fills.
EnclaveRead ==
    /\ enclave.pc = "reading"
    /\ \/ /\ buf.vsUp # <<>>
          /\ buf' = [buf EXCEPT !.vsUp = Tail(@)]
          /\ enclave' = [enclave EXCEPT !.got = @ + 1,
                             !.pc = IF enclave.got + 1 \in {request.chunks, MAX_HTTP_HEADER_BYTES}
                                    THEN "route" ELSE @]
       \/ /\ ~ProxyOpen /\ buf.vsUp = <<>>
          /\ enclave' = [enclave EXCEPT !.pc = "route"]
          /\ UNCHANGED buf
    /\ UNCHANGED <<client, pump, handler, request, acme>>

\* An incomplete header, one longer than the buffer included, is a malformed request.
EnclaveRoute ==
    /\ enclave.pc = "route"
    /\ \E key, device \in BOOLEAN :
          LET routed == IF enclave.got < request.chunks THEN 400 ELSE evidence_route(request)
              status == IF routed = 200 /\ request.path = "/kms-attestation"
                        THEN handle_kms_attestation(key, device) ELSE routed
          IN  enclave' = [enclave EXCEPT !.pc = "writing", !.status = status]
    /\ UNCHANGED <<client, buf, pump, handler, request, acme>>

\* write_all, then the close notice; write errors are ignored and the thread ends.
EnclaveWrite ==
    /\ enclave.pc = "writing"
    /\ IF ~ProxyOpen \/ enclave.put = NResponse
       THEN /\ enclave' = [enclave EXCEPT !.pc = "closed"]
            /\ UNCHANGED buf
       ELSE /\ Room("vsDown")
            /\ enclave' = [enclave EXCEPT !.put = @ + 1]
            /\ buf' = [buf EXCEPT !.vsDown = Append(@, enclave.put + 1)]
    /\ UNCHANGED <<client, pump, handler, request, acme>>

-----------------------------------------------------------------------------
(* cmd_proxy --acme and provision_cert_for_enclave: the parent asks the    *)
(* enclave for its domain, orders a certificate, posts the challenge       *)
(* certificate for every pending authorization and then the certificate    *)
(* issued.  Every failure ends the provisioning; nothing is tried again.   *)

Post(path) == [chunks |-> 1, method |-> "POST", path |-> path, line |-> TRUE, names |-> TRUE,
               hosts |-> 1, length |-> "other", chunked |-> FALSE, trailing |-> TRUE]
AcmeStep(from, to, ok) ==
    /\ acme = from
    /\ acme' = IF ok THEN to ELSE "failed"
    /\ UNCHANGED connection
AcmeFetch(ok) == AcmeStep("fetch", "order", ok)
AcmeOrder(ok) == AcmeStep("order", "authorize", ok)
AcmeAuthorize(valid) ==
    /\ acme = "authorize"
    /\ acme' = IF valid THEN "finalize"
               ELSE IF evidence_route(Post("/acme-challenge")) = 200 THEN "ready"
               ELSE "refused"
    /\ UNCHANGED connection
AcmeFinalize ==
    /\ acme \in {"ready", "finalize"}
    /\ acme' = IF evidence_route(Post("/tls-cert")) = 200 THEN "installed" ELSE "refused"
    /\ UNCHANGED connection
AcmeNext ==
    \/ \E ok \in BOOLEAN : AcmeFetch(ok) \/ AcmeOrder(ok) \/ AcmeAuthorize(ok)
    \/ AcmeFinalize

EndpointInit ==
    /\ request \in Asked /\ acme \in {"off", "fetch"}
    /\ client = [sent |-> 0, got |-> 0, write |-> TRUE, read |-> TRUE]
    /\ buf = [tcpUp |-> <<>>, vsUp |-> <<>>, vsDown |-> <<>>, tcpDown |-> <<>>]
    /\ pump = [p \in {"req", "resp"} |-> "none"]
    /\ handler = IF acme = "off" THEN "accepted" ELSE "none"
    /\ enclave = [pc |-> "none", got |-> 0, put |-> 0, status |-> 0]

ProxyStep == PumpRequest \/ PumpResponse \/ HandlerJoin
EnclaveStep == EnclaveRead \/ EnclaveRoute \/ EnclaveWrite
EndpointNext ==
    \/ ClientSend \/ ClientReceive \/ ClientShutdown \/ ClientClose
    \/ \E r \in BOOLEAN : HandlerConnect(r)
    \/ ProxyStep \/ EnclaveStep
    \/ AcmeNext

\* Threads of the proxy and the enclave run when they can, and a client that
\* keeps its connection reads what arrives; a client need not send, and need
\* close only when it has the whole response.
EndpointFairness ==
    /\ WF_endpointVars(PumpRequest) /\ WF_endpointVars(PumpResponse)
    /\ WF_endpointVars(HandlerJoin) /\ WF_endpointVars(EnclaveStep)
    /\ WF_endpointVars(ClientReceive) /\ WF_endpointVars(ClientDone)

\* A whole request that fits the enclave's buffer, on a connection whose client
\* keeps reading, is answered in full, also when the client has closed its
\* sending half: the end of one direction must not end the other.
RequestAnswered ==
    (/\ client.sent = request.chunks /\ request.chunks <= MAX_HTTP_HEADER_BYTES
     /\ handler = "bridging" /\ enclave.pc = "reading")
        ~> (client.got = NResponse \/ ~client.read)

\* Once a client that sent a whole request has gone, in the middle of the
\* response or after it, the proxy's threads and the enclave's thread all end,
\* although the proxy joins a thread that waits for the client and the enclave
\* may be writing into a full socket.
ThreadsEnd ==
    (~client.read /\ client.sent = request.chunks /\ handler = "bridging")
        ~> (handler = "ended" /\ enclave.pc = "closed")

=============================================================================
