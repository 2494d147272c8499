----------------------------- MODULE MCServing -----------------------------
(***************************************************************************)
(* Instance of Endpoint and QuoteServer for TLC.  The two serve different  *)
(* programs and share no state, and inside QuoteServer the fresh quotes,   *)
(* the readers' limiter and the monitor share only the clock: a behaviour  *)
(* is about one of these parts, and the rest stands still.                 *)
(***************************************************************************)
EXTENDS Endpoint, QuoteServer

VARIABLE about
servingVars == <<endpointVars, serverVars, about>>

MCAsked ==
    {[chunks |-> a[1], method |-> "GET", path |-> a[2], line |-> TRUE, names |-> TRUE,
      hosts |-> 1, length |-> "none", chunked |-> FALSE, trailing |-> FALSE] :
         a \in {<<2, "/eat">>, <<2, "/kms-attestation">>, <<2, "/tls-cert">>, <<3, "/eat">>}}
Some == CHOOSE r \in MCAsked : TRUE

Init ==
    /\ EndpointInit /\ ServerInit
    /\ about \in {"endpoint", "quotes", "reads", "monitor"}
    /\ about # "endpoint" => request = Some /\ acme = "off"
    /\ about # "quotes" => current = NoQuote
Next ==
    \/ about = "endpoint" /\ EndpointNext /\ UNCHANGED <<serverVars, about>>
    \/ about = "quotes" /\ QuoteNext /\ UNCHANGED <<endpointVars, about>>
    \/ about = "reads" /\ ReadNext /\ UNCHANGED <<endpointVars, about>>
    \/ about = "monitor" /\ MonitorNext /\ UNCHANGED <<endpointVars, about>>
\* Fairness of the part a behaviour is about; the others never move in it.
Spec ==
    /\ Init /\ [][Next]_servingVars
    /\ about = "endpoint" => EndpointFairness
    /\ about = "monitor" => MonitorFairness
============================================================================
