---------------------------- MODULE ServingProofs ----------------------------
(***************************************************************************)
(* Proofs about the programs that wait for others under a deadline.        *)
(*                                                                         *)
(* EvidenceService: for any peers, no client waits longer than the ones    *)
(* ahead of it may take (each has its own turn, and a turn is bounded).    *)
(*                                                                         *)
(* HelperCall: for any deadline and body limit, a result is the helper's   *)
(* own and the deadline leaves no process of the helper behind.            *)
(*                                                                         *)
(* QuoteServer: for any number of requests, an answer covers the challenge *)
(* asked for and the limiter never admits more than its rate.              *)
(***************************************************************************)
EXTENDS EvidenceService, HelperCall, QuoteServer, FiniteSetTheorems, TLAPS

-----------------------------------------------------------------------------
(* The evidence service.                                                    *)

PeerState ==
    [on: BOOLEAN, head: Headers \cup {"none"}, sent: Nat, unread: Nat, sends: BOOLEAN,
     takes: BOOLEAN, full: BOOLEAN, waited: Nat, ahead: Nat]
ServiceState ==
    [pc: {"accept", "read", "collect", "respond", "ended"}, of: Peers \cup {"nobody"},
     spent: Nat, done: Nat, status: Nat]

ServiceTypeOK ==
    /\ peer \in [Peers -> PeerState]
    /\ queue \in Seq(Peers)
    /\ svc \in ServiceState

\* The thread is serving somebody.
Busy == svc.pc \in {"read", "collect", "respond"}

\* One turn takes at most this long.
Turn == REQUEST_TIMEOUT + MaxCollect + OUTPUT_TIMEOUT

\* The latest moment of its turn the thread can be at.
Elapsed ==
    CASE svc.pc = "read" -> svc.spent
      [] svc.pc = "collect" -> REQUEST_TIMEOUT + svc.spent
      [] svc.pc = "respond" -> REQUEST_TIMEOUT + MaxCollect + svc.spent
      [] OTHER -> 0

\* No phase outlasts its own time-out.
PhaseInTime ==
    /\ svc.pc = "read" => svc.spent <= REQUEST_TIMEOUT
    /\ svc.pc = "collect" => svc.spent <= MaxCollect
    /\ svc.pc = "respond" => svc.spent <= OUTPUT_TIMEOUT

\* Every connection waits in the queue, once, or is the one being served.
QueueOK ==
    /\ \A i, j \in DOMAIN queue : queue[i] = queue[j] => i = j
    /\ \A k \in DOMAIN queue : peer[queue[k]].on
    /\ Busy => /\ svc.of \in Peers /\ peer[svc.of].on
               /\ \A k \in DOMAIN queue : queue[k] # svc.of
    /\ \A c \in Peers : peer[c].on =>
          (Busy /\ c = svc.of) \/ \E k \in DOMAIN queue : c = queue[k]

\* Turns that must still end before the one of position k of the queue begins.
Before(k) == k - 1 + (IF Busy THEN 1 ELSE 0)

\* What a connection has waited is paid for by the turns that ended since it came.
WaitOK ==
    /\ \A k \in DOMAIN queue :
          peer[queue[k]].waited + Before(k) * Turn <= peer[queue[k]].ahead * Turn + Elapsed
    /\ Busy => peer[svc.of].waited <= peer[svc.of].ahead * Turn + Elapsed

ServiceInv == ServiceTypeOK /\ PhaseInTime /\ QueueOK /\ WaitOK

LEMMA TurnType == Turn \in Nat
  BY ServiceAssumption DEF Turn

LEMMA TurnTimes ==
    ASSUME NEW n \in Nat
    PROVE  /\ n * Turn \in Nat
           /\ (n + 1) * Turn = n * Turn + Turn
<1>1. \A t \in Nat : n * t \in Nat /\ (n + 1) * t = n * t + t
  OBVIOUS
<1>2. QED
  BY <1>1, TurnType

\* A turn that is under way is not over.
LEMMA ElapsedBound ==
    ASSUME ServiceTypeOK, PhaseInTime
    PROVE  Elapsed \in Nat /\ Elapsed <= Turn
  BY ServiceAssumption DEF ServiceTypeOK, ServiceState, PhaseInTime, Elapsed, Turn

LEMMA BeforeType ==
    ASSUME ServiceTypeOK, NEW k \in DOMAIN queue
    PROVE  Before(k) \in Nat
  BY DEF ServiceTypeOK, Before

\* Steps that leave the connections and the queue as they are, and the thread
\* with the same peer in the same turn.
LEMMA SameTurn ==
    ASSUME ServiceInv, ServiceTypeOK', PhaseInTime',
           queue' = queue, svc'.of = svc.of, Busy' = Busy, Elapsed' >= Elapsed,
           \A c \in Peers : /\ peer'[c].on = peer[c].on /\ peer'[c].waited = peer[c].waited
                            /\ peer'[c].ahead = peer[c].ahead
    PROVE  ServiceInv'
<1> USE DEF ServiceInv
<1>1. QueueOK'
  BY DEF QueueOK, ServiceTypeOK
<1>2. ASSUME NEW k \in DOMAIN queue
      PROVE  (peer[queue[k]].waited + Before(k) * Turn <= peer[queue[k]].ahead * Turn + Elapsed)'
  <2>1. queue[k] \in Peers
    BY DEF ServiceTypeOK
  <2>2. peer[queue[k]].waited + Before(k) * Turn <= peer[queue[k]].ahead * Turn + Elapsed
    BY DEF WaitOK
  <2>3. /\ Before(k)' = Before(k) /\ Turn' = Turn
        /\ peer'[queue[k]].waited = peer[queue[k]].waited
        /\ peer'[queue[k]].ahead = peer[queue[k]].ahead
    BY <2>1 DEF Before, Turn
  <2>4. /\ peer[queue[k]].waited \in Nat /\ Before(k) * Turn \in Nat
        /\ peer[queue[k]].ahead * Turn \in Nat /\ Elapsed \in Nat /\ Elapsed' \in Nat
    <3>1. peer[queue[k]] \in PeerState
      BY <2>1 DEF ServiceTypeOK
    <3>2. Elapsed' \in Nat
      BY ServiceAssumption, SMTT(30) DEF ServiceTypeOK, ServiceState, Elapsed
    <3>3. peer[queue[k]].waited \in Nat /\ peer[queue[k]].ahead \in Nat
      BY <3>1 DEF PeerState
    <3>4. QED
      BY <3>2, <3>3, BeforeType, TurnTimes, ElapsedBound
  <2>5. QED
    BY <2>2, <2>3, <2>4
<1>3. Busy' => (peer[svc.of].waited <= peer[svc.of].ahead * Turn + Elapsed)'
  <2> SUFFICES ASSUME Busy
               PROVE  peer'[svc.of].waited <= peer'[svc.of].ahead * Turn + Elapsed'
    BY DEF Turn
  <2>1. /\ svc.of \in Peers
        /\ peer[svc.of].waited <= peer[svc.of].ahead * Turn + Elapsed
    BY DEF WaitOK, QueueOK
  <2>2. peer[svc.of].waited \in Nat /\ peer[svc.of].ahead \in Nat
    BY <2>1 DEF ServiceTypeOK, PeerState
  <2>3. peer[svc.of].ahead * Turn \in Nat /\ Elapsed \in Nat /\ Elapsed' \in Nat
    <3>1. Elapsed' \in Nat
      BY ServiceAssumption, SMTT(30) DEF ServiceTypeOK, ServiceState, Elapsed
    <3>2. QED
      BY <3>1, <2>2, TurnTimes, ElapsedBound
  <2>4. QED
    BY <2>1, <2>2, <2>3
<1>4. QED
  BY <1>1, <1>2, <1>3 DEF WaitOK

LEMMA ServiceInitInv == ServiceInit => ServiceInv
<1> SUFFICES ASSUME ServiceInit PROVE ServiceInv
  OBVIOUS
<1>1. ServiceTypeOK
  BY DEF ServiceInit, ServiceTypeOK, ServiceState, PeerState, Idle, Away
<1>2. PhaseInTime /\ QueueOK /\ WaitOK
  BY DEF ServiceInit, PhaseInTime, QueueOK, WaitOK, Busy, Idle, Away
<1>3. QED
  BY <1>1, <1>2 DEF ServiceInv

-----------------------------------------------------------------------------
(* Peers.                                                                   *)

LEMMA ConnectInv ==
    ASSUME ServiceInv, NEW c \in Peers, NEW h \in Headers, Connect(c, h)
    PROVE  ServiceInv'
<1> USE DEF ServiceInv
<1> DEFINE place == Len(queue) + (IF Busy THEN 1 ELSE 0)
           new == [Away EXCEPT !.on = TRUE, !.head = h, !.sends = TRUE, !.takes = TRUE,
                               !.ahead = place]
<1>a. Len(queue) \in Nat /\ place \in Nat
  BY DEF ServiceTypeOK
<1>b. place = Len(queue) + (IF svc.pc = "accept" THEN 0 ELSE 1)
  BY DEF ServiceTypeOK, ServiceState, Busy, Connect
<1> HIDE DEF place
<1>1. new \in PeerState /\ new.on /\ new.waited = 0 /\ new.ahead = place
  BY <1>a DEF PeerState, Away
<1>2. peer' = [peer EXCEPT ![c] = new] /\ queue' = Append(queue, c) /\ svc' = svc
  BY <1>b DEF Connect
<1> HIDE DEF new
<1>3. /\ \A d \in Peers : peer'[d] = IF d = c THEN new ELSE peer[d]
      /\ DOMAIN queue' = 1 .. Len(queue) + 1 /\ DOMAIN queue = 1 .. Len(queue)
      /\ \A k \in DOMAIN queue : queue'[k] = queue[k] /\ queue[k] \in Peers
      /\ queue'[Len(queue) + 1] = c /\ Len(queue) \in Nat
  BY <1>2 DEF ServiceTypeOK
<1>4. ServiceTypeOK'
  BY <1>1, <1>2 DEF ServiceTypeOK
<1>5. Busy' = Busy /\ Elapsed' = Elapsed /\ Turn' = Turn /\ PhaseInTime'
  BY <1>2 DEF Busy, Elapsed, Turn, PhaseInTime
<1>6. ~peer[c].on
  BY DEF Connect
<1>7. \A k \in DOMAIN queue : queue[k] # c
  BY <1>6 DEF QueueOK
<1>8. QueueOK'
  BY <1>1, <1>2, <1>3, <1>5, <1>6, <1>7 DEF QueueOK
<1>9. \A k \in DOMAIN queue' :
         (peer[queue[k]].waited + Before(k) * Turn <= peer[queue[k]].ahead * Turn + Elapsed)'
  <2> SUFFICES ASSUME NEW k \in DOMAIN queue'
               PROVE  peer'[queue'[k]].waited + Before(k)' * Turn
                        <= peer'[queue'[k]].ahead * Turn + Elapsed
    BY <1>5
  <2>1. CASE k \in DOMAIN queue
    BY <2>1, <1>3, <1>5, <1>7 DEF WaitOK, Before
  <2>2. CASE k = Len(queue) + 1
    <3>1. Before(k)' = new.ahead /\ new.ahead \in Nat
      BY <2>2, <1>a, <1>1, <1>3, <1>5 DEF Before, place
    <3>2. new.ahead * Turn \in Nat /\ Elapsed \in Nat
      BY <3>1, TurnTimes, ElapsedBound
    <3>3. QED
      BY <2>2, <3>1, <3>2, <1>1, <1>3
  <2>3. QED
    BY <2>1, <2>2, <1>3
<1>10. Busy' => (peer[svc.of].waited <= peer[svc.of].ahead * Turn + Elapsed)'
  BY <1>2, <1>3, <1>5, <1>6 DEF WaitOK, QueueOK
<1>11. QED
  BY <1>4, <1>5, <1>8, <1>9, <1>10 DEF WaitOK

\* What a peer sends, stops, leaves or takes changes nobody's place.
LEMMA PeerInv ==
    ASSUME ServiceInv, NEW c \in Peers,
           PeerSend(c) \/ PeerShutdown(c) \/ PeerLeave(c) \/ PeerTake(c)
    PROVE  ServiceInv'
<1> USE DEF ServiceInv
<1>1. queue' = queue /\ svc' = svc
  BY DEF PeerSend, PeerShutdown, PeerLeave, PeerTake
<1>2. /\ peer' \in [Peers -> PeerState]
      /\ \A d \in Peers : /\ peer'[d].on = peer[d].on /\ peer'[d].waited = peer[d].waited
                          /\ peer'[d].ahead = peer[d].ahead
  <2>1. /\ \A d \in Peers \ {c} : peer'[d] = peer[d]
        /\ peer' \in [Peers -> PeerState \cup {peer'[c]}]
        /\ peer[c] \in PeerState
    BY DEF PeerSend, PeerShutdown, PeerLeave, PeerTake, ServiceTypeOK
  <2>2. /\ peer'[c] \in PeerState
        /\ peer'[c].on = peer[c].on /\ peer'[c].waited = peer[c].waited
        /\ peer'[c].ahead = peer[c].ahead
    <3>1. CASE PeerSend(c)
      BY <3>1, <2>1 DEF PeerSend, ServiceTypeOK, PeerState
    <3>2. CASE PeerShutdown(c)
      BY <3>2, <2>1 DEF PeerShutdown, ServiceTypeOK, PeerState
    <3>3. CASE PeerLeave(c)
      BY <3>3, <2>1 DEF PeerLeave, ServiceTypeOK, PeerState
    <3>4. CASE PeerTake(c)
      BY <3>4, <2>1 DEF PeerTake, ServiceTypeOK, PeerState
    <3>5. QED
      BY <3>1, <3>2, <3>3, <3>4
  <2>3. QED
    BY <2>1, <2>2
<1>3. ServiceTypeOK' /\ PhaseInTime' /\ Busy' = Busy /\ Elapsed' = Elapsed
  BY <1>1, <1>2 DEF ServiceTypeOK, PhaseInTime, Busy, Elapsed
<1>4. QED
  BY <1>1, <1>2, <1>3, ElapsedBound, SameTurn

-----------------------------------------------------------------------------
(* The thread.                                                              *)

\* The head of the queue is served: nobody's place changes.
LEMMA AcceptInv ==
    ASSUME ServiceInv, AcceptConnection
    PROVE  ServiceInv'
<1> USE DEF ServiceInv
<1>1. /\ svc.pc = "accept" /\ queue # <<>> /\ queue' = Tail(queue) /\ peer' = peer
      /\ svc' = [Idle EXCEPT !.pc = "read", !.of = Head(queue)]
  BY DEF AcceptConnection
<1>2. /\ Len(queue) \in Nat \ {0} /\ DOMAIN queue = 1 .. Len(queue)
      /\ Head(queue) = queue[1] /\ queue[1] \in Peers
      /\ DOMAIN queue' = 1 .. Len(queue) - 1
      /\ \A k \in DOMAIN queue' : k + 1 \in DOMAIN queue /\ queue'[k] = queue[k + 1]
      /\ queue' \in Seq(Peers)
  BY <1>1 DEF ServiceTypeOK
<1>3. /\ svc' \in ServiceState /\ svc'.pc = "read" /\ svc'.spent = 0 /\ svc'.of = queue[1]
  BY <1>1, <1>2 DEF Idle, ServiceState
<1>4. ServiceTypeOK' /\ PhaseInTime'
  BY <1>1, <1>2, <1>3, ServiceAssumption DEF ServiceTypeOK, PhaseInTime
<1>5. ~Busy /\ Busy' /\ Elapsed = 0 /\ Elapsed' = 0 /\ Turn' = Turn
  BY <1>1, <1>3 DEF Busy, Elapsed, Turn
<1>6. QueueOK'
  <2>1. ASSUME NEW c \in Peers, peer[c].on, c # queue[1]
        PROVE  \E k \in DOMAIN queue' : c = queue'[k]
    <3>1. PICK k \in DOMAIN queue : c = queue[k]
      BY <2>1, <1>5 DEF QueueOK
    <3>2. k - 1 \in DOMAIN queue' /\ (k - 1) + 1 = k
      BY <2>1, <3>1, <1>2
    <3>3. QED
      BY <3>1, <3>2, <1>2
  <2>2. \A i, j \in DOMAIN queue' : queue'[i] = queue'[j] => i = j
    BY <1>2 DEF QueueOK
  <2>3. \A k \in DOMAIN queue' : peer'[queue'[k]].on /\ queue'[k] # queue[1]
    BY <1>1, <1>2 DEF QueueOK
  <2>4. svc'.of \in Peers /\ peer'[svc'.of].on
    BY <1>1, <1>2, <1>3 DEF QueueOK
  <2>5. QED
    BY <2>1, <2>2, <2>3, <2>4, <1>1, <1>3, <1>5 DEF QueueOK
<1>7. ASSUME NEW k \in DOMAIN queue'
      PROVE  (peer[queue[k]].waited + Before(k) * Turn <= peer[queue[k]].ahead * Turn + Elapsed)'
  <2>1. Before(k)' = Before(k + 1)
    BY <1>2, <1>5 DEF Before
  <2>2. QED
    BY <2>1, <1>1, <1>2, <1>5 DEF WaitOK
<1>8. peer[queue[1]].waited <= peer[queue[1]].ahead * Turn
  <2>1. Before(1) * Turn = 0
    BY <1>5, TurnType DEF Before
  <2>2. peer[queue[1]].waited + 0 <= peer[queue[1]].ahead * Turn + 0
    BY <2>1, <1>2, <1>5 DEF WaitOK
  <2>3. peer[queue[1]].waited \in Nat /\ peer[queue[1]].ahead \in Nat
    BY <1>2 DEF ServiceTypeOK, PeerState
  <2>4. QED
    BY <2>2, <2>3, TurnTimes
<1>9. QED
  <2>1. peer[queue[1]].ahead * Turn + 0 = peer[queue[1]].ahead * Turn
    <3>1. peer[queue[1]].ahead \in Nat
      BY <1>2 DEF ServiceTypeOK, PeerState
    <3>2. peer[queue[1]].ahead * Turn \in Nat
      BY <3>1, TurnTimes
    <3>3. QED
      BY <3>2
  <2>2. QED
    BY <2>1, <1>1, <1>3, <1>4, <1>5, <1>6, <1>7, <1>8 DEF WaitOK

LEMMA AcceptFailsInv ==
    ASSUME ServiceInv, AcceptFails
    PROVE  ServiceInv'
<1>1. ServiceTypeOK'
  BY DEF AcceptFails, ServiceTypeOK, ServiceState, PeerState, Idle, Away
<1>2. svc'.pc = "ended" /\ queue' = <<>> /\ \A c \in Peers : ~peer'[c].on
  BY DEF AcceptFails, Idle, Away
<1>3. PhaseInTime' /\ QueueOK' /\ WaitOK'
  BY <1>2 DEF PhaseInTime, QueueOK, WaitOK, Busy
<1>4. QED
  BY <1>1, <1>3 DEF ServiceInv

\* What the thread knows after a step of the same turn.
SameTurnStep ==
    /\ svc' \in ServiceState /\ svc'.of = svc.of /\ Busy' /\ PhaseInTime'
    /\ Elapsed' >= Elapsed

LEMMA RespondStep ==
    ASSUME ServiceTypeOK, PhaseInTime, svc.pc \in {"read", "collect"}, NEW s \in Nat, Respond(s)
    PROVE  SameTurnStep
<1>1. /\ svc' \in ServiceState /\ svc'.of = svc.of /\ svc'.pc = "respond" /\ svc'.spent = 0
      /\ svc.spent \in Nat
  BY DEF Respond, ServiceTypeOK, ServiceState
<1>2. QED
  BY <1>1, ServiceAssumption DEF SameTurnStep, Busy, PhaseInTime, Elapsed

LEMMA JudgeStep ==
    ASSUME ServiceTypeOK, PhaseInTime, svc.pc = "read", NEW h, NEW n \in Nat, Judge(h, n)
    PROVE  SameTurnStep
<1>1. CASE \E s \in Nat : Respond(s)
  BY <1>1, RespondStep
<1>2. CASE ReadMore(n)
  <2>1. /\ svc' \in ServiceState /\ svc'.of = svc.of /\ svc'.pc = "read" /\ svc'.spent = svc.spent
        /\ svc.spent \in Nat
    BY <1>2 DEF ReadMore, ServiceTypeOK, ServiceState
  <2>2. QED
    BY <2>1 DEF SameTurnStep, Busy, PhaseInTime, Elapsed
<1>3. CASE svc' = [svc EXCEPT !.pc = "collect", !.spent = 0, !.done = 0]
  <2>1. /\ svc' \in ServiceState /\ svc'.of = svc.of /\ svc'.pc = "collect" /\ svc'.spent = 0
        /\ svc.spent \in Nat
    BY <1>3 DEF ServiceTypeOK, ServiceState
  <2>2. QED
    BY <2>1, ServiceAssumption DEF SameTurnStep, Busy, PhaseInTime, Elapsed
<1>4. parse_request(h) \in Nat
  BY DEF parse_request
<1>5. QED
  BY <1>1, <1>2, <1>3, <1>4 DEF Judge

LEMMA ReadInv ==
    ASSUME ServiceInv, ReadRequest
    PROVE  ServiceInv'
<1> USE DEF ServiceInv
<1>1. svc.pc = "read" /\ queue' = queue /\ svc.of \in Peers
  BY DEF ReadRequest, QueueOK, Busy
<1>2. peer[svc.of] \in PeerState /\ svc.done \in Nat
  BY <1>1 DEF ServiceTypeOK, ServiceState
<1>3. /\ SameTurnStep /\ peer' \in [Peers -> PeerState]
      /\ \A c \in Peers : /\ peer'[c].on = peer[c].on /\ peer'[c].waited = peer[c].waited
                          /\ peer'[c].ahead = peer[c].ahead
  <2>1. CASE (\E s \in Nat : Respond(s)) /\ UNCHANGED peer
    BY <2>1, <1>1, RespondStep DEF ServiceTypeOK
  <2>2. CASE \E n \in 1 .. peer[svc.of].unread :
                /\ Judge(peer[svc.of].head, svc.done + n)
                /\ peer' = [peer EXCEPT ![svc.of].unread = @ - n]
    <3>1. PICK n \in 1 .. peer[svc.of].unread :
                /\ Judge(peer[svc.of].head, svc.done + n)
                /\ peer' = [peer EXCEPT ![svc.of].unread = @ - n]
      BY <2>2
    <3>2. n \in Nat /\ svc.done + n \in Nat /\ peer[svc.of].unread - n \in Nat
      BY <1>2 DEF PeerState
    <3>3. SameTurnStep
      BY <3>1, <3>2, <1>1, JudgeStep
    <3>4. QED
      BY <3>1, <3>2, <3>3, <1>1, <1>2 DEF ServiceTypeOK, PeerState
  <2>3. QED
    BY <2>1, <2>2 DEF ReadRequest
<1>4. QED
  BY <1>1, <1>3, SameTurn DEF SameTurnStep, ServiceTypeOK, Busy

LEMMA CollectInv ==
    ASSUME ServiceInv, NEW ok \in BOOLEAN, CollectEvidence(ok)
    PROVE  ServiceInv'
<1> USE DEF ServiceInv
<1>1. svc.pc = "collect" /\ queue' = queue /\ peer' = peer /\ \E s \in Nat : Respond(s)
  BY DEF CollectEvidence
<1>2. SameTurnStep
  BY <1>1, RespondStep
<1>3. QED
  BY <1>1, <1>2, SameTurn DEF SameTurnStep, ServiceTypeOK, Busy

\* The end of a turn pays for what everybody waited during it.
LEMMA CloseInv ==
    ASSUME ServiceInv, Busy, CloseConnection, queue' = queue
    PROVE  ServiceInv'
<1> USE DEF ServiceInv
<1>1. svc.of \in Peers /\ svc' = Idle /\ peer' = [peer EXCEPT ![svc.of] = Away]
  BY DEF CloseConnection, QueueOK
<1>2. Idle \in ServiceState /\ Idle.pc = "accept" /\ Away \in PeerState /\ ~Away.on
  BY DEF Idle, ServiceState, Away, PeerState
<1>3. ServiceTypeOK' /\ PhaseInTime' /\ ~Busy' /\ Elapsed' = 0 /\ Turn' = Turn
  BY <1>1, <1>2 DEF ServiceTypeOK, PhaseInTime, Busy, Elapsed, Turn
<1>4. \A k \in DOMAIN queue : queue[k] \in Peers /\ peer'[queue[k]] = peer[queue[k]]
  BY <1>1 DEF QueueOK, ServiceTypeOK
<1>5. QueueOK'
  BY <1>1, <1>2, <1>3, <1>4 DEF QueueOK, ServiceTypeOK
<1>6. ASSUME NEW k \in DOMAIN queue
      PROVE  peer[queue[k]].waited + (k - 1) * Turn <= peer[queue[k]].ahead * Turn + 0
  <2>1. k - 1 \in Nat /\ Before(k) = (k - 1) + 1
    BY DEF Before, ServiceTypeOK
  <2>2. Before(k) * Turn = (k - 1) * Turn + Turn /\ (k - 1) * Turn \in Nat
    BY <2>1, TurnTimes
  <2>3. peer[queue[k]].waited \in Nat /\ peer[queue[k]].ahead * Turn \in Nat
    BY <1>4, TurnTimes DEF ServiceTypeOK, PeerState
  <2>4. Elapsed \in Nat /\ Elapsed <= Turn /\ Turn \in Nat
    BY ElapsedBound, TurnType
  <2>5. peer[queue[k]].waited + Before(k) * Turn <= peer[queue[k]].ahead * Turn + Elapsed
    BY DEF WaitOK
  <2>6. QED
    BY <2>2, <2>3, <2>4, <2>5
<1>7. ASSUME NEW k \in DOMAIN queue PROVE Before(k)' = k - 1
  BY <1>3 DEF Before, ServiceTypeOK
<1>8. QED
  BY <1>3, <1>4, <1>5, <1>6, <1>7 DEF WaitOK

LEMMA WriteInv ==
    ASSUME ServiceInv, WriteAnswer
    PROVE  ServiceInv'
<1> USE DEF ServiceInv
<1>1. svc.pc = "respond" /\ queue' = queue /\ svc.of \in Peers /\ Busy
  BY DEF WriteAnswer, QueueOK, Busy
<1>2. CASE CloseConnection
  BY <1>1, <1>2, CloseInv
<1>3. CASE /\ svc' = [svc EXCEPT !.done = @ + 1]
           /\ peer' = [peer EXCEPT ![svc.of].full = TRUE]
  <2>1. /\ svc' \in ServiceState /\ svc'.of = svc.of /\ svc'.pc = svc.pc /\ svc'.spent = svc.spent
        /\ svc.spent \in Nat
    BY <1>3 DEF ServiceTypeOK, ServiceState
  <2>2. SameTurnStep
    BY <2>1, <1>1, ElapsedBound DEF SameTurnStep, Busy, PhaseInTime, Elapsed
  <2>3. /\ peer' \in [Peers -> PeerState]
        /\ \A c \in Peers : /\ peer'[c].on = peer[c].on /\ peer'[c].waited = peer[c].waited
                            /\ peer'[c].ahead = peer[c].ahead
    <3>1. peer[svc.of] \in PeerState /\ peer'[svc.of] = [peer[svc.of] EXCEPT !.full = TRUE]
      BY <1>1, <1>3 DEF ServiceTypeOK
    <3>2. /\ peer'[svc.of] \in PeerState
          /\ peer'[svc.of].on = peer[svc.of].on /\ peer'[svc.of].waited = peer[svc.of].waited
          /\ peer'[svc.of].ahead = peer[svc.of].ahead
      BY <3>1 DEF PeerState
    <3>3. QED
      BY <3>2, <1>1, <1>3 DEF ServiceTypeOK
  <2>4. QED
    BY <1>1, <2>2, <2>3, SameTurn DEF SameTurnStep, ServiceTypeOK, Busy
<1>4. QED
  BY <1>2, <1>3 DEF WriteAnswer

\* Everybody waits a second longer, and the turn under way is a second older.
LEMMA TickInv ==
    ASSUME ServiceInv, ServiceTick
    PROVE  ServiceInv'
<1> USE DEF ServiceInv
<1>1. /\ Busy /\ queue' = queue /\ svc.of \in Peers
      /\ svc' = [svc EXCEPT !.spent = @ + 1]
  BY DEF ServiceTick, Waiting, Busy, QueueOK, ServiceTypeOK, ServiceState
<1>2. /\ svc' \in ServiceState /\ svc'.of = svc.of /\ svc'.pc = svc.pc /\ svc.spent \in Nat
      /\ svc'.spent = svc.spent + 1
  BY <1>1 DEF ServiceTypeOK, ServiceState
<1>3. PhaseInTime'
  BY <1>2, ServiceAssumption DEF ServiceTick, Waiting, PhaseInTime
<1>4. Busy' /\ Elapsed' = Elapsed + 1 /\ Turn' = Turn /\ Elapsed \in Nat
  BY <1>1, <1>2, ElapsedBound, ServiceAssumption DEF Busy, Elapsed, Turn
<1>5. \A c \in Peers :
         peer'[c] = IF peer[c].on THEN [peer[c] EXCEPT !.waited = @ + 1] ELSE peer[c]
  BY DEF ServiceTick
<1>6. \A c \in Peers :
         /\ peer'[c] \in PeerState /\ peer'[c].on = peer[c].on
         /\ peer'[c].ahead = peer[c].ahead /\ peer[c].ahead \in Nat /\ peer[c].waited \in Nat
         /\ peer[c].on => peer'[c].waited = peer[c].waited + 1
  <2> SUFFICES ASSUME NEW c \in Peers
               PROVE  /\ peer'[c] \in PeerState /\ peer'[c].on = peer[c].on
                      /\ peer'[c].ahead = peer[c].ahead
                      /\ peer[c].ahead \in Nat /\ peer[c].waited \in Nat
                      /\ peer[c].on => peer'[c].waited = peer[c].waited + 1
    OBVIOUS
  <2>1. peer[c] \in PeerState
    BY DEF ServiceTypeOK
  <2>2. CASE peer[c].on
    <3>1. peer'[c] = [peer[c] EXCEPT !.waited = @ + 1]
      BY <2>2, <1>5
    <3>2. QED
      BY <2>1, <3>1 DEF PeerState
  <2>3. CASE ~peer[c].on
    BY <2>1, <2>3, <1>5 DEF PeerState
  <2>4. QED
    BY <2>2, <2>3
<1>7. ServiceTypeOK'
  BY <1>1, <1>2, <1>6 DEF ServiceTypeOK, ServiceTick
<1>8. QueueOK'
  <2>1. \A k \in DOMAIN queue : queue[k] \in Peers
    BY DEF ServiceTypeOK
  <2>2. \A c \in Peers : peer'[c].on = peer[c].on
    BY <1>6
  <2>3. QED
    BY <2>1, <2>2, <1>1, <1>2, <1>4 DEF QueueOK
<1>9. ASSUME NEW k \in DOMAIN queue
      PROVE  (peer[queue[k]].waited + Before(k) * Turn <= peer[queue[k]].ahead * Turn + Elapsed)'
  <2>1. queue[k] \in Peers /\ peer[queue[k]].on
    BY DEF QueueOK, ServiceTypeOK
  <2>2. Before(k)' = Before(k) /\ Before(k) * Turn \in Nat /\ peer[queue[k]].ahead * Turn \in Nat
    BY <1>1, <1>4, <1>6, <2>1, BeforeType, TurnTimes DEF Before
  <2>3. peer[queue[k]].waited + Before(k) * Turn <= peer[queue[k]].ahead * Turn + Elapsed
    BY DEF WaitOK
  <2>4. QED
    BY <2>1, <2>2, <2>3, <1>1, <1>4, <1>6
<1>10. (peer[svc.of].waited <= peer[svc.of].ahead * Turn + Elapsed)'
  <2>1. peer[svc.of].waited <= peer[svc.of].ahead * Turn + Elapsed /\ peer[svc.of].on
    BY <1>1 DEF WaitOK, QueueOK
  <2>2. peer[svc.of].ahead * Turn \in Nat
    BY <1>1, <1>6, TurnTimes
  <2>3. QED
    BY <2>1, <2>2, <1>1, <1>2, <1>4, <1>6
<1>11. QED
  BY <1>1, <1>3, <1>7, <1>8, <1>9, <1>10 DEF WaitOK

-----------------------------------------------------------------------------
\* The waiting of every connection is accounted for, in every reachable state.
THEOREM ServiceInvariance == ServiceSpec => []ServiceInv
<1>1. ServiceInv /\ [ServiceNext]_serviceVars => ServiceInv'
  <2> SUFFICES ASSUME ServiceInv, [ServiceNext]_serviceVars PROVE ServiceInv'
    OBVIOUS
  <2>1. CASE UNCHANGED serviceVars
    BY <2>1 DEF serviceVars, ServiceInv, ServiceTypeOK, PhaseInTime, QueueOK, WaitOK, Busy, Before,
                Elapsed, Turn
  <2>2. CASE ServiceNext
    BY <2>2, ConnectInv, PeerInv, AcceptInv, AcceptFailsInv, ReadInv, WriteInv, CollectInv, TickInv
       DEF ServiceNext
  <2>3. QED
    BY <2>1, <2>2
<1>2. QED
  BY <1>1, ServiceInitInv, PTL DEF ServiceSpec

\* However slowly the connections before it send and take, a connection is over
\* one turn after theirs (serve, handle, read_request, respond in
\* attestation_cli.rs), for any number of peers and any deadlines.
THEOREM ServiceServesInTime == ServiceSpec => []ServedInTime
<1>1. ServiceInv => ServedInTime
  <2> SUFFICES ASSUME ServiceInv, NEW c \in Peers, peer[c].on
               PROVE  peer[c].waited <= (peer[c].ahead + 1) * Turn
    BY DEF ServedInTime, Turn
  <2>1. Elapsed \in Nat /\ Elapsed <= Turn /\ Turn \in Nat
    BY ElapsedBound, TurnType DEF ServiceInv
  <2>2. peer[c].waited \in Nat /\ peer[c].ahead \in Nat
    BY DEF ServiceInv, ServiceTypeOK, PeerState
  <2>3. peer[c].ahead * Turn \in Nat /\ (peer[c].ahead + 1) * Turn = peer[c].ahead * Turn + Turn
    BY <2>2, TurnTimes
  <2>4. CASE Busy /\ c = svc.of
    BY <2>4, <2>1, <2>2, <2>3 DEF ServiceInv, WaitOK
  <2>5. ASSUME NEW k \in DOMAIN queue, c = queue[k]
        PROVE  peer[c].waited <= (peer[c].ahead + 1) * Turn
    <3>1. Before(k) * Turn \in Nat
      BY BeforeType, TurnTimes DEF ServiceInv
    <3>2. peer[c].waited + Before(k) * Turn <= peer[c].ahead * Turn + Elapsed
      BY <2>5 DEF ServiceInv, WaitOK
    <3>3. QED
      BY <3>1, <3>2, <2>1, <2>2, <2>3
  <2>6. QED
    BY <2>4, <2>5 DEF ServiceInv, QueueOK
<1>2. QED
  BY <1>1, ServiceInvariance, PTL

-----------------------------------------------------------------------------
(* A call of the Google helper.                                             *)

\* No pipe holds more than its capacity, nobody reads what was not written, and
\* only a request within the limit is written.
PipesOK ==
    /\ stdin.taken <= stdin.sent /\ stdin.sent <= request
    /\ stdout.got <= stdout.sent /\ stdout.sent <= stdout.got + PipeSize
    /\ stderr.got <= stderr.sent /\ stderr.sent <= stderr.got + PipeSize
    /\ pc \in {"poll", "join"} => request <= MAX_REQUEST

\* A reader that ended well has everything that was written, within its limit;
\* a digest was computed from the whole request.
ReadersOK ==
    /\ output = "ok" => stdout.got = stdout.sent /\ stdout.got <= MAX_RESPONSE
    /\ diagnostic = "ok" => stderr.got <= MAX_DIAGNOSTIC
    /\ response # None => (response.digest => stdin.taken = request)

\* What the poll loop broke with still describes the group.
PolledOK ==
    /\ pc \in {"start", "poll"} => polled = None
    /\ pc = "join" => polled # None
    /\ polled = "exited" => "helper" \notin live
    /\ polled \in {"deadline", "error"} => live = {}

\* What the verdict rests on has not changed since it was given.
VerdictOK ==
    /\ pc # "done" => verdict = None
    /\ verdict \in {"deadline", "wait error"} => polled \in {"deadline", "error"}
    /\ verdict = "ok" =>
          /\ polled = "exited" /\ status = "success"
          /\ output = "ok" /\ diagnostic = "ok"
          /\ response # None /\ stdout.got = response.length
          /\ response.digest /\ response.result /\ ~response.error

HelperInv == TypeOK /\ PipesOK /\ ReadersOK /\ PolledOK /\ VerdictOK

LEMMA HelperInitInv == Init => HelperInv
<1> SUFFICES ASSUME Init PROVE HelperInv
  OBVIOUS
<1> USE HelperAssumption, NoneAssumption DEF Init
<1>1. TypeOK
  BY DEF TypeOK
<1>2. PipesOK /\ ReadersOK
  BY DEF PipesOK, ReadersOK
<1>3. PolledOK /\ VerdictOK
  BY DEF PolledOK, VerdictOK, Verdicts
<1>4. QED
  BY <1>1, <1>2, <1>3 DEF HelperInv

\* One lemma per action: the caller's thread, the three workers, the group.
LEMMA RefuseInv ==
    ASSUME HelperInv, Refuse
    PROVE  HelperInv'
<1> USE HelperAssumption, NoneAssumption DEF HelperInv, Refuse, caller, group, pipes, workers
<1>1. TypeOK'
  BY ZenonT(30) DEF TypeOK, Verdicts
<1>2. PipesOK'
  BY DEF TypeOK, PipesOK
<1>3. ReadersOK'
  BY DEF TypeOK, PipesOK, ReadersOK
<1>4. PolledOK'
  BY DEF TypeOK, Verdicts, PolledOK
<1>5. VerdictOK'
  BY DEF TypeOK, Verdicts, PolledOK, VerdictOK
<1>6. QED
  BY <1>1, <1>2, <1>3, <1>4, <1>5

LEMMA SpawnInv ==
    ASSUME HelperInv, Spawn
    PROVE  HelperInv'
<1> USE HelperAssumption, NoneAssumption DEF HelperInv, Spawn, caller, group, pipes, workers
<1>1. TypeOK'
  BY DEF TypeOK
<1>2. PipesOK'
  BY DEF TypeOK, PipesOK
<1>3. ReadersOK'
  BY DEF TypeOK, PipesOK, ReadersOK
<1>4. PolledOK'
  BY DEF TypeOK, Verdicts, PolledOK
<1>5. VerdictOK'
  BY DEF TypeOK, Verdicts, PolledOK, VerdictOK
<1>6. QED
  BY <1>1, <1>2, <1>3, <1>4, <1>5

LEMMA ReapInv ==
    ASSUME HelperInv, Reap
    PROVE  HelperInv'
<1> USE HelperAssumption, NoneAssumption DEF HelperInv, Reap, caller, group, pipes, workers
<1>1. TypeOK'
  BY DEF TypeOK
<1>2. PipesOK'
  BY DEF TypeOK, PipesOK
<1>3. ReadersOK'
  BY DEF TypeOK, PipesOK, ReadersOK
<1>4. PolledOK'
  BY DEF TypeOK, Verdicts, PolledOK
<1>5. VerdictOK'
  BY DEF TypeOK, Verdicts, PolledOK, VerdictOK
<1>6. QED
  BY <1>1, <1>2, <1>3, <1>4, <1>5

LEMMA ExpireInv ==
    ASSUME HelperInv, Expire
    PROVE  HelperInv'
<1> USE HelperAssumption, NoneAssumption DEF HelperInv, Expire, terminate, caller, group, pipes, workers
<1>1. TypeOK'
  BY DEF TypeOK
<1>2. PipesOK'
  BY DEF TypeOK, PipesOK
<1>3. ReadersOK'
  BY DEF TypeOK, PipesOK, ReadersOK
<1>4. PolledOK'
  BY DEF TypeOK, Verdicts, PolledOK
<1>5. VerdictOK'
  BY DEF TypeOK, Verdicts, PolledOK, VerdictOK
<1>6. QED
  BY <1>1, <1>2, <1>3, <1>4, <1>5

LEMMA WaitErrorInv ==
    ASSUME HelperInv, WaitError
    PROVE  HelperInv'
<1> USE HelperAssumption, NoneAssumption DEF HelperInv, WaitError, terminate, caller, group, pipes, workers
<1>1. TypeOK'
  BY DEF TypeOK
<1>2. PipesOK'
  BY DEF TypeOK, PipesOK
<1>3. ReadersOK'
  BY DEF TypeOK, PipesOK, ReadersOK
<1>4. PolledOK'
  BY DEF TypeOK, Verdicts, PolledOK
<1>5. VerdictOK'
  BY DEF TypeOK, Verdicts, PolledOK, VerdictOK
<1>6. QED
  BY <1>1, <1>2, <1>3, <1>4, <1>5

LEMMA HelperTickInv ==
    ASSUME HelperInv, Tick
    PROVE  HelperInv'
<1> USE HelperAssumption, NoneAssumption DEF HelperInv, Tick, caller, group, pipes, workers
<1>1. TypeOK'
  BY DEF TypeOK
<1>2. PipesOK'
  BY DEF TypeOK, PipesOK
<1>3. ReadersOK'
  BY DEF TypeOK, PipesOK, ReadersOK
<1>4. PolledOK'
  BY DEF TypeOK, Verdicts, PolledOK
<1>5. VerdictOK'
  BY DEF TypeOK, Verdicts, PolledOK, VerdictOK
<1>6. QED
  BY <1>1, <1>2, <1>3, <1>4, <1>5

LEMMA JoinInv ==
    ASSUME HelperInv, Join
    PROVE  HelperInv'
<1> USE HelperAssumption, NoneAssumption DEF HelperInv, Join, Judgement, Parsed, caller, group, pipes, workers
<1>1. TypeOK'
  BY DEF TypeOK, Verdicts
<1>2. PipesOK'
  BY DEF TypeOK, PipesOK
<1>3. ReadersOK'
  BY DEF TypeOK, PipesOK, ReadersOK
<1>4. PolledOK'
  BY DEF TypeOK, Verdicts, PolledOK
<1>5. VerdictOK'
  BY DEF TypeOK, Verdicts, PolledOK, VerdictOK
<1>6. QED
  BY <1>1, <1>2, <1>3, <1>4, <1>5

LEMMA WriteRequestInv ==
    ASSUME HelperInv, WriteRequest
    PROVE  HelperInv'
<1> USE HelperAssumption, NoneAssumption DEF HelperInv, WriteRequest, Started, caller, group, pipes, workers
<1>1. TypeOK'
  BY DEF TypeOK, PipesOK
<1>2. PipesOK'
  BY DEF TypeOK, PipesOK
<1>3. ReadersOK'
  BY DEF TypeOK, PipesOK, ReadersOK
<1>4. PolledOK'
  BY DEF TypeOK, Verdicts, PolledOK
<1>5. VerdictOK'
  BY DEF TypeOK, Verdicts, PolledOK, VerdictOK
<1>6. QED
  BY <1>1, <1>2, <1>3, <1>4, <1>5

LEMMA ReadOutputInv ==
    ASSUME HelperInv, ReadOutput
    PROVE  HelperInv'
<1> USE HelperAssumption, NoneAssumption DEF HelperInv, ReadOutput, read_limited, Started, caller, group, pipes, workers
<1>1. TypeOK'
  BY DEF TypeOK
<1>2. PipesOK'
  BY DEF TypeOK, PipesOK
<1>3. ReadersOK'
  BY DEF TypeOK, PipesOK, ReadersOK
<1>4. PolledOK'
  BY DEF TypeOK, Verdicts, PolledOK
<1>5. VerdictOK'
  BY DEF TypeOK, Verdicts, PolledOK, VerdictOK
<1>6. QED
  BY <1>1, <1>2, <1>3, <1>4, <1>5

LEMMA ReadDiagnosticInv ==
    ASSUME HelperInv, ReadDiagnostic
    PROVE  HelperInv'
<1> USE HelperAssumption, NoneAssumption DEF HelperInv, ReadDiagnostic, read_limited, Started, caller, group, pipes, workers
<1>1. TypeOK'
  BY DEF TypeOK
<1>2. PipesOK'
  BY DEF TypeOK, PipesOK
<1>3. ReadersOK'
  BY DEF TypeOK, PipesOK, ReadersOK
<1>4. PolledOK'
  BY DEF TypeOK, Verdicts, PolledOK
<1>5. VerdictOK'
  BY DEF TypeOK, Verdicts, PolledOK, VerdictOK
<1>6. QED
  BY <1>1, <1>2, <1>3, <1>4, <1>5

LEMMA TakeInputInv ==
    ASSUME HelperInv, TakeInput
    PROVE  HelperInv'
<1> USE HelperAssumption, NoneAssumption DEF HelperInv, TakeInput, caller, group, pipes, workers
<1>1. TypeOK'
  BY DEF TypeOK
<1>2. PipesOK'
  BY DEF TypeOK, PipesOK
<1>3. ReadersOK'
  BY DEF TypeOK, PipesOK, ReadersOK
<1>4. PolledOK'
  BY DEF TypeOK, Verdicts, PolledOK
<1>5. VerdictOK'
  BY DEF TypeOK, Verdicts, PolledOK, VerdictOK
<1>6. QED
  BY <1>1, <1>2, <1>3, <1>4, <1>5

LEMMA WriteOutputInv ==
    ASSUME HelperInv, WriteOutput
    PROVE  HelperInv'
<1> USE HelperAssumption, NoneAssumption DEF HelperInv, WriteOutput, caller, group, pipes, workers
<1>1. TypeOK'
  BY DEF TypeOK
<1>2. PipesOK'
  BY DEF TypeOK, PipesOK
<1>3. ReadersOK'
  BY DEF TypeOK, PipesOK, ReadersOK
<1>4. PolledOK'
  BY DEF TypeOK, Verdicts, PolledOK
<1>5. VerdictOK'
  BY DEF TypeOK, Verdicts, PolledOK, VerdictOK
<1>6. QED
  BY <1>1, <1>2, <1>3, <1>4, <1>5

LEMMA WriteDiagnosticInv ==
    ASSUME HelperInv, WriteDiagnostic
    PROVE  HelperInv'
<1> USE HelperAssumption, NoneAssumption DEF HelperInv, WriteDiagnostic, caller, group, pipes, workers
<1>1. TypeOK'
  BY DEF TypeOK
<1>2. PipesOK'
  BY DEF TypeOK, PipesOK
<1>3. ReadersOK'
  BY DEF TypeOK, PipesOK, ReadersOK
<1>4. PolledOK'
  BY DEF TypeOK, Verdicts, PolledOK
<1>5. VerdictOK'
  BY DEF TypeOK, Verdicts, PolledOK, VerdictOK
<1>6. QED
  BY <1>1, <1>2, <1>3, <1>4, <1>5

LEMMA ForkInv ==
    ASSUME HelperInv, Fork
    PROVE  HelperInv'
<1> USE HelperAssumption, NoneAssumption DEF HelperInv, Fork, caller, group, pipes, workers
<1>1. TypeOK'
  BY DEF TypeOK
<1>2. PipesOK'
  BY DEF TypeOK, PipesOK
<1>3. ReadersOK'
  BY DEF TypeOK, PipesOK, ReadersOK
<1>4. PolledOK'
  BY DEF TypeOK, Verdicts, PolledOK
<1>5. VerdictOK'
  BY DEF TypeOK, Verdicts, PolledOK, VerdictOK
<1>6. QED
  BY <1>1, <1>2, <1>3, <1>4, <1>5

LEMMA HelperCloseInv ==
    ASSUME HelperInv, Close
    PROVE  HelperInv'
<1> USE HelperAssumption, NoneAssumption DEF HelperInv, Close, caller, group, pipes, workers
<1>1. TypeOK'
  BY DEF TypeOK
<1>2. PipesOK'
  BY DEF TypeOK, PipesOK
<1>3. ReadersOK'
  BY DEF TypeOK, PipesOK, ReadersOK
<1>4. PolledOK'
  BY DEF TypeOK, Verdicts, PolledOK
<1>5. VerdictOK'
  BY DEF TypeOK, Verdicts, PolledOK, VerdictOK
<1>6. QED
  BY <1>1, <1>2, <1>3, <1>4, <1>5

LEMMA ExitInv ==
    ASSUME HelperInv, Exit
    PROVE  HelperInv'
<1> USE HelperAssumption, NoneAssumption DEF HelperInv, Exit, caller, group, pipes, workers
<1>1. TypeOK'
  BY DEF TypeOK
<1>2. PipesOK'
  BY DEF TypeOK, PipesOK
<1>3. ReadersOK'
  BY DEF TypeOK, PipesOK, ReadersOK
<1>4. PolledOK'
  BY DEF TypeOK, Verdicts, PolledOK
<1>5. VerdictOK'
  BY DEF TypeOK, Verdicts, PolledOK, VerdictOK
<1>6. QED
  BY <1>1, <1>2, <1>3, <1>4, <1>5

\* The strengthened invariant of one call of invoke.
THEOREM HelperInvariance == Spec => []HelperInv
<1>1. HelperInv /\ [Next]_vars => HelperInv'
  <2> SUFFICES ASSUME HelperInv, [Next]_vars PROVE HelperInv'
    OBVIOUS
  <2>1. CASE UNCHANGED vars
    <3> USE <2>1 DEF vars, caller, group, pipes, workers, HelperInv
    <3>1. TypeOK'
      BY DEF TypeOK
    <3>2. PipesOK' /\ ReadersOK'
      BY DEF PipesOK, ReadersOK
    <3>3. PolledOK' /\ VerdictOK'
      BY DEF PolledOK, VerdictOK
    <3>4. QED
      BY <3>1, <3>2, <3>3
  <2>2. CASE Next
    BY <2>2, RefuseInv, SpawnInv, ReapInv, ExpireInv, WaitErrorInv, HelperTickInv, JoinInv,
       WriteRequestInv, ReadOutputInv, ReadDiagnosticInv, TakeInputInv, WriteOutputInv,
       WriteDiagnosticInv, ForkInv, HelperCloseInv, ExitInv DEF Next, Threads
  <2>3. QED
    BY <2>1, <2>2
<1>2. QED
  BY <1>1, HelperInitInv, PTL DEF Spec

\* Every variable keeps its type: whatever the helper writes, read_limited holds
\* no more than one block beyond its limit and no pipe more than its capacity.
THEOREM HelperTyped == Spec => []TypeOK
<1>1. HelperInv => TypeOK
  BY DEF HelperInv
<1>2. QED
  BY <1>1, HelperInvariance, PTL

\* invoke believes a result only if the helper itself ended well after the
\* whole request reached it and the bytes read are exactly one response about
\* this request, for all sizes of requests, responses, limits and pipes.
THEOREM HelperResultGenuine == Spec => []ResultIsGenuine
<1>1. HelperInv => ResultIsGenuine
  BY HelperAssumption DEF HelperInv, TypeOK, ReadersOK, VerdictOK, ResultIsGenuine
<1>2. QED
  BY <1>1, HelperInvariance, PTL

\* A call that missed its deadline, or failed to wait, has left no process of
\* the group behind (terminate).
THEOREM HelperDeadline == Spec => []DeadlineLeavesNobody
<1>1. HelperInv => DeadlineLeavesNobody
  BY DEF HelperInv, PolledOK, VerdictOK, DeadlineLeavesNobody
<1>2. QED
  BY <1>1, HelperInvariance, PTL

-----------------------------------------------------------------------------
(* The server of the first version.                                         *)

RequestState ==
    [pc: {"new", "limited", "refresh", "store", "done", "error"}, at: 0 .. MaxTime,
     quote: Quotes \cup {NoQuote}, nonce: Reqs \cup {"random"}]

ServerTypeOK ==
    /\ now \in 0 .. MaxTime
    /\ req \in [Reqs -> RequestState]
    /\ admitted \in SUBSET ((0 .. MaxTime) \X Nat) /\ IsFiniteSet(admitted)

\* A quote is made for the request that holds it, and not before it asked.
AnswersOK ==
    \A r \in Reqs :
       /\ req[r].pc = "refresh" => req[r].at <= now
       /\ req[r].pc \in {"store", "done"} =>
             /\ req[r].quote \in Quotes
             /\ req[r].quote.nonce = req[r].nonce /\ req[r].quote.at >= req[r].at

\* The limiter has exactly the admissions that still count, and perhaps older
\* ones; stamps of one instant are numbered apart.
AtNow(stamps) == {s \in stamps : s[1] = now}
LimiterOK ==
    /\ fullTimes \subseteq admitted
    /\ Retained(admitted) \subseteq fullTimes
    /\ \A s \in admitted : s[1] <= now
    /\ \A s \in AtNow(admitted) : s[2] < Cardinality(AtNow(admitted))

ServerInv == ServerTypeOK /\ AnswersOK /\ LimiterOK /\ FullRate

LEMMA ServerInitInv == ServerInit => ServerInv
<1> SUFFICES ASSUME ServerInit PROVE ServerInv
  OBVIOUS
<1>1. ServerTypeOK
  BY ServerAssumption, FS_EmptySet DEF ServerInit, ServerTypeOK, RequestState
<1>2. AnswersOK /\ LimiterOK
  BY DEF ServerInit, AnswersOK, LimiterOK, Retained, AtNow
<1>3. FullRate
  <2>1. \A t : {s \in admitted : s[1] \in t - Window + 1 .. t} = {}
    BY DEF ServerInit
  <2>2. QED
    BY <2>1, FS_EmptySet, ServerAssumption DEF FullRate
<1>4. QED
  BY <1>1, <1>2, <1>3 DEF ServerInv

\* Steps that touch neither the requests, nor the limiter, nor the clock.
LEMMA ServerElsewhere ==
    ASSUME ServerInv, UNCHANGED <<now, req, fullTimes, admitted>>
    PROVE  ServerInv'
<1> USE DEF ServerInv
<1>1. ServerTypeOK' /\ AnswersOK'
  BY DEF ServerTypeOK, AnswersOK
<1>2. LimiterOK' /\ FullRate'
  BY DEF LimiterOK, AtNow, Retained, FullRate
<1>3. QED
  BY <1>1, <1>2

\* What the limiter would keep are all admissions of the window that ends now.
LEMMA RetainedExact ==
    ASSUME ServerInv
    PROVE  /\ Retained(fullTimes) = {s \in admitted : s[1] \in now - Window + 1 .. now}
           /\ Retained(fullTimes) = Retained(admitted)
           /\ IsFiniteSet(Retained(fullTimes))
<1> USE ServerAssumption DEF ServerInv
<1>1. \A s \in admitted : s[1] \in Int /\ s[1] <= now
  BY DEF ServerTypeOK, LimiterOK
<1>2. now \in Int /\ Window \in Int
  BY DEF ServerTypeOK
<1>3. \A s \in admitted : (now - s[1] < Window) <=> (s[1] \in now - Window + 1 .. now)
  BY <1>1, <1>2
<1>4. Retained(fullTimes) = Retained(admitted)
  BY DEF LimiterOK, Retained
<1>5. Retained(admitted) = {s \in admitted : s[1] \in now - Window + 1 .. now}
  BY <1>3 DEF Retained
<1>6. IsFiniteSet(Retained(admitted))
  BY FS_Subset DEF Retained, ServerTypeOK
<1>7. QED
  BY <1>4, <1>5, <1>6

\* The stamp of an admission is a new one, and the next of its instant.
LEMMA StampIsNew ==
    ASSUME ServerInv
    PROVE  /\ NewStamp(fullTimes) = <<now, Cardinality(AtNow(admitted))>>
           /\ Cardinality(AtNow(admitted)) \in Nat /\ IsFiniteSet(AtNow(admitted))
           /\ NewStamp(fullTimes) \notin admitted
<1> USE ServerAssumption DEF ServerInv
<1>1. AtNow(fullTimes) = AtNow(admitted)
  BY DEF LimiterOK, AtNow, Retained, ServerTypeOK
<1>2. IsFiniteSet(AtNow(admitted))
  BY FS_Subset DEF AtNow, ServerTypeOK
<1>3. Cardinality(AtNow(admitted)) \in Nat
  BY <1>2, FS_CardinalityType
<1>4. NewStamp(fullTimes) = <<now, Cardinality(AtNow(admitted))>>
  BY <1>1 DEF NewStamp, AtNow
<1>5. <<now, Cardinality(AtNow(admitted))>> \notin admitted
  BY <1>3 DEF LimiterOK, AtNow
<1>6. QED
  BY <1>2, <1>3, <1>4, <1>5

LEMMA OneMore ==
    ASSUME NEW S, IsFiniteSet(S), NEW x
    PROVE  /\ Cardinality(S) \in Nat /\ Cardinality(S \cup {x}) \in Nat
           /\ Cardinality(S \cup {x}) <= Cardinality(S) + 1
<1>1. Cardinality(S) \in Nat
  BY FS_CardinalityType
<1>2. CASE x \in S
  <2>1. S \cup {x} = S
    BY <1>2
  <2>2. QED
    BY <1>1, <2>1
<1>3. CASE x \notin S
  <2>1. Cardinality(S \cup {x}) = Cardinality(S) + 1
    BY <1>3, FS_AddElement
  <2>2. QED
    BY <1>1, <2>1
<1>4. QED
  BY <1>2, <1>3

\* One more admission in the window that ends now, none in any earlier one.
LEMMA AdmitKeepsRate ==
    ASSUME ServerInv, allow(fullTimes, MaxFull), now' = now,
           admitted' = admitted \cup {NewStamp(fullTimes)}
    PROVE  FullRate'
<1> USE ServerAssumption DEF ServerInv
<1> DEFINE In(stamps, t) == {s \in stamps : s[1] \in t - Window + 1 .. t}
           new == NewStamp(fullTimes)
<1>1. now \in Nat /\ Window \in Nat \ {0} /\ MaxFull \in Nat /\ new[1] = now
  BY StampIsNew DEF ServerTypeOK
<1>2. ASSUME NEW t \in 0 .. now PROVE Cardinality(In(admitted', t)) <= MaxFull
  <2>1. CASE t < now
    <3>1. In(admitted', t) = In(admitted, t)
      BY <1>1, <2>1
    <3>2. QED
      BY <3>1 DEF FullRate
  <2>2. CASE t = now
    <3>1. In(admitted', t) = Retained(fullTimes) \cup {new}
      BY <2>2, <1>1, RetainedExact
    <3>2. /\ Cardinality(Retained(fullTimes)) \in Nat
          /\ Cardinality(Retained(fullTimes) \cup {new}) \in Nat
          /\ Cardinality(Retained(fullTimes) \cup {new}) <= Cardinality(Retained(fullTimes)) + 1
      BY RetainedExact, OneMore
    <3>3. Cardinality(Retained(fullTimes)) < MaxFull
      BY DEF allow
    <3> HIDE DEF In, new
    <3>4. QED
      BY <3>1, <3>2, <3>3, <1>1
  <2>3. QED
    BY <2>1, <2>2, <1>1
<1>3. QED
  BY <1>2 DEF FullRate

LEMMA FullAdmitInv ==
    ASSUME ServerInv, NEW r \in Reqs, NEW challenge \in BOOLEAN, FullAdmit(r, challenge)
    PROVE  ServerInv'
<1> USE ServerAssumption DEF ServerInv
<1>1. now' = now /\ now \in 0 .. MaxTime /\ req[r] \in RequestState
  BY DEF FullAdmit, ServerTypeOK
<1>2. CASE allow(fullTimes, MaxFull)
  <2> DEFINE new == NewStamp(fullTimes)
  <2>1. /\ req' = [req EXCEPT ![r] = [pc |-> "refresh", at |-> now, quote |-> NoQuote,
                                      nonce |-> IF challenge THEN r ELSE "random"]]
        /\ admitted' = admitted \cup {new} /\ fullTimes' = Retained(fullTimes) \cup {new}
    BY <1>2 DEF FullAdmit, Stamped
  <2>2. FullRate'
    BY <1>1, <1>2, <2>1, AdmitKeepsRate
  <2>3. new = <<now, Cardinality(AtNow(admitted))>> /\ Cardinality(AtNow(admitted)) \in Nat
        /\ IsFiniteSet(AtNow(admitted)) /\ new \notin admitted
    BY StampIsNew
  <2> HIDE DEF new
  <2>4. ServerTypeOK'
    <3>1. IsFiniteSet(admitted')
      BY <2>1, FS_AddElement DEF ServerTypeOK
    <3>2. admitted' \in SUBSET ((0 .. MaxTime) \X Nat)
      BY <1>1, <2>1, <2>3 DEF ServerTypeOK
    <3>3. req' \in [Reqs -> RequestState]
      BY <1>1, <2>1 DEF ServerTypeOK, RequestState
    <3>4. QED
      BY <1>1, <3>1, <3>2, <3>3 DEF ServerTypeOK
  <2>5. AnswersOK'
    BY <1>1, <2>1 DEF AnswersOK, ServerTypeOK
  <2>6. LimiterOK'
    <3>1. AtNow(admitted)' = AtNow(admitted) \cup {new} /\ new \notin AtNow(admitted)
      BY <1>1, <2>1, <2>3 DEF AtNow
    <3>2. Cardinality(AtNow(admitted)') = Cardinality(AtNow(admitted)) + 1
      BY <2>3, <3>1, FS_AddElement
    <3>3. \A s \in AtNow(admitted)' : s[2] < Cardinality(AtNow(admitted)')
      <4>1. \A s \in AtNow(admitted) : s[2] \in Nat /\ s[2] < Cardinality(AtNow(admitted))
        BY DEF LimiterOK, AtNow, ServerTypeOK
      <4>2. QED
        BY <2>3, <3>1, <3>2, <4>1
    <3>4. fullTimes' \subseteq admitted'
      BY <2>1 DEF LimiterOK, Retained
    <3>5. Retained(admitted)' \subseteq fullTimes'
      BY <1>1, <2>1 DEF LimiterOK, Retained
    <3>6. \A s \in admitted' : s[1] <= now'
      BY <1>1, <2>1, <2>3 DEF LimiterOK
    <3>7. QED
      BY <3>3, <3>4, <3>5, <3>6 DEF LimiterOK
  <2>7. QED
    BY <2>2, <2>4, <2>5, <2>6
<1>3. CASE ~allow(fullTimes, MaxFull)
  <2>1. /\ req' = [req EXCEPT ![r].pc = "limited"]
        /\ admitted' = admitted /\ fullTimes' = Retained(fullTimes)
    BY <1>3 DEF FullAdmit, Stamped
  <2>2. ServerTypeOK'
    BY <1>1, <2>1 DEF ServerTypeOK, RequestState
  <2>3. AnswersOK'
    BY <1>1, <2>1 DEF AnswersOK, ServerTypeOK, RequestState
  <2>4. LimiterOK' /\ FullRate'
    BY <1>1, <2>1 DEF LimiterOK, Retained, AtNow, FullRate
  <2>5. QED
    BY <2>2, <2>3, <2>4
<1>4. QED
  BY <1>2, <1>3

LEMMA FullRefreshInv ==
    ASSUME ServerInv, NEW r \in Reqs, NEW ok \in BOOLEAN, FullRefresh(r, ok)
    PROVE  ServerInv'
<1> USE DEF ServerInv
<1>1. /\ now' = now /\ fullTimes' = fullTimes /\ admitted' = admitted
      /\ req[r].pc = "refresh" /\ req[r] \in RequestState /\ now \in 0 .. MaxTime
      /\ req' = [req EXCEPT ![r].quote = IF ok THEN refresh(req[r].nonce) ELSE NoQuote,
                            ![r].pc = IF ok THEN "store" ELSE "error"]
  BY DEF FullRefresh, ServerTypeOK
<1>2. refresh(req[r].nonce) \in Quotes
  BY <1>1 DEF refresh, Quotes, RequestState
<1>3. /\ req'[r] \in RequestState /\ req'[r].at = req[r].at /\ req'[r].nonce = req[r].nonce
      /\ req'[r].pc = IF ok THEN "store" ELSE "error"
      /\ req'[r].quote = IF ok THEN refresh(req[r].nonce) ELSE NoQuote
      /\ \A q \in Reqs \ {r} : req'[q] = req[q]
  BY <1>1, <1>2 DEF RequestState, ServerTypeOK
<1>4. ServerTypeOK'
  BY <1>1, <1>3 DEF ServerTypeOK
<1>5. AnswersOK'
  <2>1. req[r].at <= now
    BY <1>1 DEF AnswersOK
  <2>2. refresh(req[r].nonce).nonce = req[r].nonce /\ refresh(req[r].nonce).at = now
    BY DEF refresh
  <2> SUFFICES ASSUME NEW q \in Reqs
               PROVE  /\ req'[q].pc = "refresh" => req'[q].at <= now'
                      /\ req'[q].pc \in {"store", "done"} =>
                            /\ req'[q].quote \in Quotes
                            /\ req'[q].quote.nonce = req'[q].nonce /\ req'[q].quote.at >= req'[q].at
    BY DEF AnswersOK
  <2>3. CASE q = r
    <3>1. now \in Nat /\ req[r].at \in Nat
      BY <1>1 DEF RequestState
    <3>2. QED
      BY <3>1, <2>3, <1>1, <1>2, <1>3, <2>1, <2>2
  <2>4. CASE q # r
    BY <2>4, <1>1, <1>3 DEF AnswersOK
  <2>5. QED
    BY <2>3, <2>4
<1>6. LimiterOK' /\ FullRate'
  BY <1>1 DEF LimiterOK, Retained, AtNow, FullRate
<1>7. QED
  BY <1>4, <1>5, <1>6

LEMMA FullStoreInv ==
    ASSUME ServerInv, NEW r \in Reqs, FullStore(r)
    PROVE  ServerInv'
<1> USE DEF ServerInv
<1>1. /\ now' = now /\ fullTimes' = fullTimes /\ admitted' = admitted
      /\ req[r].pc = "store" /\ req' = [req EXCEPT ![r].pc = "done"]
  BY DEF FullStore
<1>2. ServerTypeOK' /\ AnswersOK'
  BY <1>1 DEF ServerTypeOK, RequestState, AnswersOK
<1>3. LimiterOK' /\ FullRate'
  BY <1>1 DEF LimiterOK, Retained, AtNow, FullRate
<1>4. QED
  BY <1>2, <1>3

\* The window that ends a second later has no admission the last one had not.
LEMMA ServerTickInv ==
    ASSUME ServerInv, ServerTick
    PROVE  ServerInv'
<1> USE ServerAssumption DEF ServerInv
<1>1. /\ now' = now + 1 /\ now' \in 0 .. MaxTime /\ now \in Nat
      /\ fullTimes' = fullTimes /\ admitted' = admitted /\ req' = req
  BY DEF ServerTick, quoting, ServerTypeOK
<1>2. ServerTypeOK'
  BY <1>1 DEF ServerTypeOK
<1>3. AnswersOK'
  BY <1>1 DEF AnswersOK, ServerTypeOK, RequestState
<1>4. \A s \in admitted : s[1] \in Nat /\ s[1] <= now
  BY DEF LimiterOK, ServerTypeOK
<1>5. LimiterOK'
  <2>1. AtNow(admitted)' = {}
    BY <1>1, <1>4 DEF AtNow
  <2>2. Retained(admitted)' \subseteq Retained(admitted)
    BY <1>1, <1>4 DEF Retained
  <2>3. QED
    BY <1>1, <1>4, <2>1, <2>2 DEF LimiterOK
<1>6. FullRate'
  <2> DEFINE In(t) == {s \in admitted : s[1] \in t - Window + 1 .. t}
  <2>1. \A t \in 0 .. now : Cardinality(In(t)) <= MaxFull
    BY DEF FullRate
  <2>2. Cardinality(In(now + 1)) <= MaxFull
    <3>1. In(now + 1) \subseteq In(now)
      BY <1>1, <1>4
    <3>2. IsFiniteSet(In(now))
      BY FS_Subset DEF ServerTypeOK
    <3>3. /\ Cardinality(In(now + 1)) <= Cardinality(In(now))
          /\ Cardinality(In(now + 1)) \in Nat /\ Cardinality(In(now)) \in Nat
      <4> HIDE DEF In
      <4>1. QED
        BY <3>1, <3>2, FS_Subset, FS_CardinalityType
    <3>4. QED
      BY <3>3, <2>1, <1>1
  <2>3. \A t \in 0 .. now + 1 : Cardinality(In(t)) <= MaxFull
    <3> HIDE DEF In
    <3>1. \A t \in 0 .. now + 1 : t \in 0 .. now \/ t = now + 1
      BY <1>1
    <3>2. QED
      BY <2>1, <2>2, <3>1
  <2>4. QED
    BY <1>1, <2>3 DEF FullRate
<1>7. QED
  BY <1>2, <1>3, <1>5, <1>6

\* The strengthened invariant of the server, all its tasks running at once.
THEOREM ServerInvariance == ServerSpec => []ServerInv
<1>1. ServerInv /\ [ServerNext]_serverVars => ServerInv'
  <2> SUFFICES ASSUME ServerInv, [ServerNext]_serverVars PROVE ServerInv'
    OBVIOUS
  <2>1. CASE UNCHANGED serverVars \/ Read \/ HeartRefresh \/ HeartStore \/ MonitorNext
    <3>1. UNCHANGED <<now, req, fullTimes, admitted>>
      BY <2>1 DEF serverVars, Read, HeartRefresh, HeartStore, MonitorNext, MonitorHash,
                  MonitorRecord, Write, quoting
    <3>2. QED
      BY <3>1, ServerElsewhere
  <2>2. QED
    BY <2>1, FullAdmitInv, FullRefreshInv, FullStoreInv, ServerTickInv
       DEF ServerNext, QuoteNext, ReadNext
<1>2. QED
  BY <1>1, ServerInitInv, PTL DEF ServerSpec

\* Whatever other requests and the heartbeat store in between, a request for a
\* fresh quote is answered with the one made for its nonce after it asked
\* (get_full_quote in attest/mod.rs).
THEOREM ServerAnswersChallenge == ServerSpec => []ChallengeAnswered
<1>1. ServerInv => ChallengeAnswered
  BY NoQuoteAssumption DEF ServerInv, AnswersOK, ChallengeAnswered
<1>2. QED
  BY <1>1, ServerInvariance, PTL

\* Any Window consecutive instants admit at most MaxFull fresh quotes, for every
\* limit and window, although the limiter forgets stamps (RateLimiter::allow).
THEOREM ServerKeepsRate == ServerSpec => []FullRate
<1>1. ServerInv => FullRate
  BY DEF ServerInv
<1>2. QED
  BY <1>1, ServerInvariance, PTL

\* The history FullRate counts is complete: an admission always adds a stamp to
\* it that no earlier admission has, and nothing else changes it.
AdmissionsCounted ==
    [][\/ UNCHANGED admitted
       \/ /\ admitted \subseteq admitted'
          /\ Cardinality(admitted') = Cardinality(admitted) + 1
          /\ \E r \in Reqs : req[r].pc = "new" /\ req'[r].pc = "refresh"]_serverVars

\* No admission escapes the count: each adds one stamp of its own, and no other
\* step touches the history (RateLimiter::allow).
THEOREM ServerCountsAdmissions == ServerSpec => AdmissionsCounted
<1> DEFINE Counted ==
      \/ UNCHANGED admitted
      \/ /\ admitted \subseteq admitted'
         /\ Cardinality(admitted') = Cardinality(admitted) + 1
         /\ \E r \in Reqs : req[r].pc = "new" /\ req'[r].pc = "refresh"
<1>1. ServerInv /\ [ServerNext]_serverVars => [Counted]_serverVars
  <2> SUFFICES ASSUME ServerInv, ServerNext PROVE Counted
    OBVIOUS
  <2>1. ASSUME NEW r \in Reqs, NEW c \in BOOLEAN, FullAdmit(r, c) PROVE Counted
    <3>1. CASE allow(fullTimes, MaxFull)
      <4>1. admitted' = admitted \cup {NewStamp(fullTimes)} /\ NewStamp(fullTimes) \notin admitted
        BY <2>1, <3>1, StampIsNew DEF FullAdmit
      <4>2. Cardinality(admitted') = Cardinality(admitted) + 1
        BY <4>1, FS_AddElement DEF ServerInv, ServerTypeOK
      <4>3. req[r].pc = "new" /\ req'[r].pc = "refresh"
        BY <2>1, <3>1 DEF FullAdmit, ServerInv, ServerTypeOK
      <4>4. QED
        BY <4>1, <4>2, <4>3
    <3>2. CASE ~allow(fullTimes, MaxFull)
      BY <2>1, <3>2 DEF FullAdmit
    <3>3. QED
      BY <3>1, <3>2
  <2>2. CASE ~\E r \in Reqs, c \in BOOLEAN : FullAdmit(r, c)
    BY <2>2 DEF ServerNext, QuoteNext, ReadNext, MonitorNext, FullRefresh, FullStore, HeartRefresh,
                HeartStore, ServerTick, Read, MonitorHash, MonitorRecord, Write, quoting
  <2>3. QED
    BY <2>1, <2>2
<1>2. QED
  BY <1>1, ServerInvariance, PTL DEF ServerSpec, AdmissionsCounted
==============================================================================
