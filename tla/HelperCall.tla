----------------------------- MODULE HelperCall -----------------------------
(***************************************************************************)
(* One call of GoogleVerifier::invoke (v2/src/google_backend.rs): the       *)
(* request goes to a helper process through a pipe, two bounded readers     *)
(* drain its output, and a poll loop reaps it or kills its process group at *)
(* the deadline.  The helper is unconstrained: it may hang, flood a pipe,   *)
(* answer before reading, die, or leave a descendant that holds the pipes.  *)
(* Bytes are counted in blocks.                                             *)
(***************************************************************************)
EXTENDS Naturals

CONSTANTS
    None,           \* no response started, no outcome yet
    Requests,       \* lengths a serialised request may have
    MAX_REQUEST,    \* the limits of google_backend.rs, in blocks
    MAX_RESPONSE,
    MAX_DIAGNOSTIC,
    Responses,      \* lengths a complete response may have
    PipeSize,       \* capacity of a kernel pipe
    Timeout         \* self.timeout

ASSUME HelperAssumption ==
    /\ Requests \subseteq Nat /\ Responses \subseteq Nat \ {0}
    /\ {MAX_REQUEST, MAX_RESPONSE, MAX_DIAGNOSTIC} \subseteq Nat
    /\ PipeSize \in Nat \ {0} /\ Timeout \in Nat \ {0}

VARIABLES
    pc,         \* the calling thread: start, poll, join, done
    elapsed,    \* time since the deadline was set, capped at Timeout
    request,    \* length of the serialised request
    live,       \* running processes of the helper's group
    holders,    \* those that still hold the three pipes
    status,     \* how the helper itself ended: None, success, failure, killed
    polled,     \* what the poll loop broke with: None, exited, deadline, error
    stdin,      \* [sent, taken]: blocks written by the caller, read by the group
    input,      \* the writer thread: running, ok, broken
    stdout,     \* [sent, got]: blocks written by the group, read by the caller
    output,     \* the stdout reader thread: running, ok, over
    stderr,
    diagnostic,
    response,   \* the JSON object begun on stdout
    verdict     \* what invoke returns

caller == <<pc, elapsed, polled, verdict>>
group  == <<live, holders, status, response>>
pipes  == <<stdin, stdout, stderr>>
workers == <<input, output, diagnostic>>
vars   == <<caller, group, pipes, workers, request>>

Response == [length: Responses, result: BOOLEAN, error: BOOLEAN, digest: BOOLEAN]

Verdicts == {"request exceeds limit", "not started", "deadline", "wait error",
             "write error", "output exceeds limit", "invalid response",
             "mismatch", "ok", "rejected", "failed"}

\* None is not one of the values it stands beside.
ASSUME NoneAssumption ==
    /\ None \notin Verdicts \cup {"success", "failure", "killed", "exited", "error"}
    /\ None \notin Response

\* Every variable holds a value of its type; in particular no reader of
\* read_limited ever holds more than one block beyond its limit.
TypeOK ==
    /\ pc \in {"start", "poll", "join", "done"}
    /\ elapsed \in 0..Timeout
    /\ request \in Requests
    /\ live \in SUBSET {"helper", "heir"} /\ holders \in SUBSET live
    /\ status \in {None, "success", "failure", "killed"}
    /\ polled \in {None, "exited", "deadline", "error"}
    /\ stdin \in [sent: 0..MAX_REQUEST, taken: 0..MAX_REQUEST]
    /\ stdout \in [sent: 0..(MAX_RESPONSE + 1 + PipeSize), got: 0..(MAX_RESPONSE + 1)]
    /\ stderr \in [sent: 0..(MAX_DIAGNOSTIC + 1 + PipeSize), got: 0..(MAX_DIAGNOSTIC + 1)]
    /\ input \in {"running", "ok", "broken"}
    /\ output \in {"running", "ok", "over"}
    /\ diagnostic \in {"running", "ok", "over"}
    /\ response \in Response \cup {None}
    /\ verdict \in Verdicts \cup {None}

Init ==
    /\ pc = "start" /\ elapsed = 0 /\ polled = None /\ verdict = None
    /\ request \in Requests
    /\ live = {} /\ holders = {} /\ status = None /\ response = None
    /\ stdin = [sent |-> 0, taken |-> 0]
    /\ stdout = [sent |-> 0, got |-> 0]
    /\ stderr = [sent |-> 0, got |-> 0]
    /\ input = "running" /\ output = "running" /\ diagnostic = "running"
-----------------------------------------------------------------------------
(* The calling thread. *)

\* The request is refused before anything runs, or the helper cannot start.
Refuse ==
    /\ pc = "start"
    /\ verdict' = IF request > MAX_REQUEST THEN "request exceeds limit" ELSE "not started"
    /\ pc' = "done"
    /\ UNCHANGED <<elapsed, polled, group, pipes, workers, request>>

\* The helper is spawned in a process group of its own.
Spawn ==
    /\ pc = "start" /\ request <= MAX_REQUEST
    /\ pc' = "poll" /\ live' = {"helper"} /\ holders' = {"helper"}
    /\ UNCHANGED <<elapsed, polled, verdict, status, response, pipes, workers, request>>

\* Only the helper is killed, or nobody.
terminate_child_only ==
    /\ live' = live \ {"helper"} /\ holders' = holders \ {"helper"}
    /\ status' = IF "helper" \in live THEN "killed" ELSE status

terminate_none == UNCHANGED <<live, holders, status>>

\* kill(-pgid) reaches every process of the group, and wait reaps the helper.
terminate ==
    /\ live' = {} /\ holders' = {}
    /\ status' = IF "helper" \in live THEN "killed" ELSE status

\* try_wait saw the helper's exit.
Reap ==
    /\ pc = "poll" /\ "helper" \notin live
    /\ pc' = "join" /\ polled' = "exited"
    /\ UNCHANGED <<elapsed, verdict, group, pipes, workers, request>>

\* The deadline passed with the helper running; or waiting for it failed.
Expire ==
    /\ pc = "poll" /\ "helper" \in live /\ elapsed = Timeout
    /\ pc' = "join" /\ polled' = "deadline"
    /\ terminate
    /\ UNCHANGED <<elapsed, verdict, response, pipes, workers, request>>

WaitError ==
    /\ pc = "poll" /\ pc' = "join" /\ polled' = "error"
    /\ terminate
    /\ UNCHANGED <<elapsed, verdict, response, pipes, workers, request>>

Tick ==
    /\ pc = "poll" /\ elapsed < Timeout
    /\ elapsed' = elapsed + 1
    /\ UNCHANGED <<pc, polled, verdict, group, pipes, workers, request>>

\* serde_json accepts the bytes read iff they are one whole response.
Parsed == response # None /\ stdout.got = response.length

\* The exit status is ignored once a response has been parsed.
JudgementNoStatus ==
    IF Parsed /\ response.digest /\ response.result /\ polled = "exited"
    THEN "ok" ELSE "failed"

\* The checks after the three joins, in the code's order.
Judgement ==
    CASE polled = "deadline"      -> "deadline"
      [] polled = "error"         -> "wait error"
      [] polled = "exited" /\ input = "broken" -> "write error"
      [] polled = "exited" /\ input = "ok" /\ "over" \in {output, diagnostic}
                                  -> "output exceeds limit"
      [] OTHER ->
          IF ~Parsed THEN "invalid response"
          ELSE IF ~response.digest THEN "mismatch"
          ELSE IF status = "success" /\ response.result /\ ~response.error THEN "ok"
          ELSE IF ~response.result /\ response.error THEN "rejected"
          ELSE "failed"

Join ==
    /\ pc = "join" /\ "running" \notin {input, output, diagnostic}
    /\ pc' = "done" /\ verdict' = Judgement
    /\ UNCHANGED <<elapsed, polled, group, pipes, workers, request>>
-----------------------------------------------------------------------------
(* The three worker threads. *)

Started == pc \in {"poll", "join"}

\* write_all, then the pipe is closed; EPIPE once nobody holds the read end.
WriteRequest ==
    /\ Started /\ input = "running"
    /\ \/ /\ stdin.sent = request
          /\ input' = "ok" /\ UNCHANGED stdin
       \/ /\ stdin.sent < request /\ holders = {}
          /\ input' = "broken" /\ UNCHANGED stdin
       \/ /\ stdin.sent < request /\ holders # {}
          /\ stdin.sent - stdin.taken < PipeSize
          /\ stdin' = [stdin EXCEPT !.sent = @ + 1] /\ UNCHANGED input
    /\ UNCHANGED <<caller, group, stdout, stderr, output, diagnostic, request>>

\* One read of take(limit + 1): a block, the limit reached, or end of file,
\* which comes only when no process of the group holds the write end.
\* read_limited relates a pipe and its reader's state to their next values.
read_limited(pipe, npipe, reader, nreader, limit) ==
    /\ Started /\ reader = "running"
    /\ \/ /\ pipe.got = limit + 1
          /\ nreader = "over" /\ npipe = pipe
       \/ /\ pipe.got <= limit /\ pipe.got < pipe.sent
          /\ npipe = [pipe EXCEPT !.got = @ + 1] /\ nreader = reader
       \/ /\ pipe.got <= limit /\ pipe.got = pipe.sent /\ holders = {}
          /\ nreader = "ok" /\ npipe = pipe

ReadOutput ==
    /\ read_limited(stdout, stdout', output, output', MAX_RESPONSE)
    /\ UNCHANGED <<caller, group, stdin, stderr, input, diagnostic, request>>

ReadDiagnostic ==
    /\ read_limited(stderr, stderr', diagnostic, diagnostic', MAX_DIAGNOSTIC)
    /\ UNCHANGED <<caller, group, stdin, stdout, input, output, request>>
-----------------------------------------------------------------------------
(* The helper and a descendant: anything a process may do to its pipes. *)

TakeInput ==
    /\ holders # {} /\ stdin.taken < stdin.sent
    /\ stdin' = [stdin EXCEPT !.taken = @ + 1]
    /\ UNCHANGED <<caller, group, stdout, stderr, workers, request>>

\* The digest can be right only when the whole request has been read.
WriteOutput ==
    /\ holders # {} /\ output = "running" /\ stdout.sent - stdout.got < PipeSize
    /\ IF response = None
       THEN response' \in {r \in Response : r.digest => stdin.taken = request}
       ELSE UNCHANGED response
    /\ stdout' = [stdout EXCEPT !.sent = @ + 1]
    /\ UNCHANGED <<caller, live, holders, status, stdin, stderr, workers, request>>

WriteDiagnostic ==
    /\ holders # {} /\ diagnostic = "running" /\ stderr.sent - stderr.got < PipeSize
    /\ stderr' = [stderr EXCEPT !.sent = @ + 1]
    /\ UNCHANGED <<caller, group, stdin, stdout, workers, request>>

Fork ==
    /\ "helper" \in live /\ live' = {"helper", "heir"}
    /\ holders' = IF "helper" \in holders THEN live' ELSE holders
    /\ UNCHANGED <<caller, status, response, pipes, workers, request>>

\* A process closes its ends of the pipes and runs on.
Close ==
    /\ \E proc \in holders : holders' = holders \ {proc}
    /\ UNCHANGED <<caller, live, status, response, pipes, workers, request>>

Exit ==
    /\ \E proc \in live :
          /\ live' = live \ {proc} /\ holders' = holders \ {proc}
          /\ status' \in IF proc = "helper" THEN {"success", "failure"} ELSE {status}
    /\ UNCHANGED <<caller, response, pipes, workers, request>>
-----------------------------------------------------------------------------
Threads == WriteRequest \/ ReadOutput \/ ReadDiagnostic

Next ==
    \/ Refuse \/ Spawn \/ Reap \/ Expire \/ WaitError \/ Tick \/ Join
    \/ Threads
    \/ TakeInput \/ WriteOutput \/ WriteDiagnostic \/ Fork \/ Close \/ Exit

\* The operating system runs the caller's own threads and time passes; the
\* helper's processes get no fairness at all.
Fairness ==
    /\ WF_vars(Refuse \/ Spawn) /\ WF_vars(Reap \/ Expire) /\ WF_vars(Tick)
    /\ WF_vars(Join)
    /\ WF_vars(WriteRequest) /\ WF_vars(ReadOutput) /\ WF_vars(ReadDiagnostic)

Spec == Init /\ [][Next]_vars /\ Fairness
-----------------------------------------------------------------------------
(* A result is believed only if the helper itself ended well after the      *)
(* whole request had reached the group, within both output limits, and the  *)
(* bytes read are exactly one response, about this request, with a result   *)
(* and no error; a response begun by a descendant, cut off by the deadline  *)
(* or followed by anything never counts (invoke, google_backend.rs).        *)
ResultIsGenuine ==
    verdict = "ok" =>
        /\ status = "success" /\ polled = "exited"
        /\ stdin.taken = request
        /\ response.digest /\ response.result /\ ~response.error
        /\ stdout.sent = response.length /\ stdout.got = response.length
        /\ response.length <= MAX_RESPONSE /\ stderr.got <= MAX_DIAGNOSTIC

(* A call that missed its deadline has left no process of the group behind, *)
(* although the helper may have forked and exited meanwhile (terminate).    *)
DeadlineLeavesNobody ==
    pc = "done" /\ verdict \in {"deadline", "wait error"} => live = {}

\* The helper has ended and a descendant still holds its pipes.
Abandoned == "helper" \notin live /\ holders # {}

(* invoke returns, whatever the helper does or fails to do (hang, flood a   *)
(* pipe, never read, fork), as long as no descendant outlives it.           *)
CallReturns == []~Abandoned => <>(pc = "done")

(* Execution time is bounded (the helper package's README).                 *)
TimeBounded == <>(pc = "done")
=============================================================================
