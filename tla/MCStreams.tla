------------------------------ MODULE MCStreams -------------------------------
(***************************************************************************)
(* The two services of cloudcore that carry requests to an edge node: the  *)
(* stream tunnels and the router of rules.  A behaviour is a behaviour of  *)
(* one of them, named by part, while the other rests in its initial state. *)
(* StreamTunnel is extended, RuleRouter is an instance.                    *)
(***************************************************************************)
EXTENDS StreamTunnel

CONSTANTS r1, r2, q1, None, Wild

VARIABLES
  part,
  \* RuleRouter
  apiRules, apiEndpoints, inbox, jobs, rules, ruleEndpoints, handlers, told, loop, forward, target,
  response, callbackHandlers, net, raced, overtaken, changes

routerVars == <<apiRules, apiEndpoints, inbox, jobs, rules, ruleEndpoints, handlers, told, loop,
                forward, target, response, callbackHandlers, net, raced, overtaken, changes>>
allVars == <<part, vars, routerVars>>

\* The node dials again; of the requests one only reads and one also writes.
KindOf == [r \in {r1, r2} |-> IF r = r1 THEN "logs" ELSE "exec"]

\* A rule from REST to a service and one from the bus of the node to REST.
Router == INSTANCE RuleRouter
            WITH req <- forward, Rules <- {r1, r2}, Requests <- {q1},
                 Source <- [r \in {r1, r2} |-> IF r = r1 THEN "rest" ELSE "bus"],
                 Target <- [r \in {r1, r2} |-> IF r = r1 THEN "servicebus" ELSE "rest"],
                 PathOf <- [r \in {r1, r2} |-> <<"ns", Wild>>],
                 UriOf <- [q \in {q1} |-> <<"n", "ns", "a">>],
                 MaxTries <- 2, MaxChanges <- 3

MCInit == part \in {"tunnel", "router"} /\ Init /\ Router!Init

\* Only one part moves.
InTunnel == part = "tunnel" /\ UNCHANGED <<part, routerVars>>
InRouter == part = "router" /\ UNCHANGED <<part, vars>>

MCNext == (InTunnel /\ Next) \/ (InRouter /\ Router!Next)

MCSpec == MCInit /\ [][MCNext]_allVars

-----------------------------------------------------------------------------
\* The variables of the part that moves have their types.
AllTypeOK == (part = "tunnel" => TypeOK) /\ (part = "router" => Router!TypeOK)

\* The listeners are those of the rules of the API server once every message is
\* handled, unless messages overtook each other (RuleRouter).
QuietRules == Router!QuietRules
=============================================================================
