-------------------------------- MODULE MCLive --------------------------------
(***************************************************************************)
(* What must eventually happen on the way between the API server and an    *)
(* edge node: objects reach the node (ReliableSync), the sessions of its   *)
(* stream tunnel release their lock (StreamTunnel), requests of the router *)
(* end (RuleRouter).  A behaviour is a fair behaviour of one of the three, *)
(* named by part, while the other two rest in their initial states.        *)
(***************************************************************************)
EXTENDS ReliableSync

CONSTANTS o1, n1, r1, r2, q1, q2, None, Wild

VARIABLES
  part,
  \* StreamTunnel
  dialled, edgeSession, broken, handler, sessions, toEdge, toCloud, apiServerConn, signal,
  nextMessageID, req, edgePeerStop, gone, localCons,
  \* RuleRouter
  apiRules, apiEndpoints, inbox, jobs, rules, ruleEndpoints, handlers, told, loop, forward, target,
  response, callbackHandlers, net, raced, overtaken, changes

tunnelVars == <<dialled, edgeSession, broken, handler, sessions, toEdge, toCloud, apiServerConn,
                signal, nextMessageID, req, edgePeerStop, gone, localCons>>
routerVars == <<apiRules, apiEndpoints, inbox, jobs, rules, ruleEndpoints, handlers, told, loop,
                forward, target, response, callbackHandlers, net, raced, overtaken, changes>>
allVars == <<part, vars, tunnelVars, routerVars>>

\* One incarnation of one name.
OneObject == [o \in {o1} |-> n1]

\* One tunnel; of the requests one only reads and one also writes.
Tunnel == INSTANCE StreamTunnel
            WITH edge <- edgeSession, down <- toEdge, up <- toCloud, Requests <- {r1, r2},
                 Kind <- [r \in {r1, r2} |-> IF r = r1 THEN "attach" ELSE "metrics"],
                 MaxTunnels <- 1, MaxQueue <- 1

\* A rule with a service or one with the event bus as target, and two requests.
Router == INSTANCE RuleRouter
            WITH req <- forward, Rules <- {r1, r2}, Requests <- {q1, q2},
                 Source <- [r \in {r1, r2} |-> "rest"],
                 Target <- [r \in {r1, r2} |-> IF r = r1 THEN "servicebus" ELSE "eventbus"],
                 PathOf <- [r \in {r1, r2} |-> <<"ns", Wild>>],
                 UriOf <- [q \in {q1, q2} |-> <<"n", "ns", "a">>],
                 MaxTries <- 1, MaxChanges <- 1

LiveInit ==
  /\ part \in {"sync", "tunnel", "router"}
  /\ Init /\ Tunnel!Init /\ Router!Init

\* Only one part moves.
InSync   == part = "sync" /\ UNCHANGED <<part, tunnelVars, routerVars>>
InTunnel == part = "tunnel" /\ UNCHANGED <<part, vars, routerVars>>
InRouter == part = "router" /\ UNCHANGED <<part, vars, tunnelVars>>

LiveNext == (InSync /\ Next) \/ (InTunnel /\ Tunnel!Next) \/ (InRouter /\ Router!Next)

\* The fairness each part states for itself, of the part that moves: its steps
\* leave the variables of the others alone.
Moves(A) == part = "sync" /\ A

SyncFairness ==
  /\ WF_vars(Moves(DispatcherStep))
  /\ \A s \in Sessions : WF_vars(Moves(SenderStep(s)))
  /\ \A o \in Objects : WF_vars(Moves(InformerSync(o))) /\ WF_vars(Moves(Ripen(o)))
  /\ WF_vars(Moves(ReceiveAck))
  /\ WF_vars(Moves(ReceiveQuery))
  /\ WF_vars(Moves(Connect))
  /\ WF_vars(Moves(EdgeProcess))
  /\ WF_vars(Moves(EdgeAnswered))
  /\ SF_vars(Moves(EdgeControllerSync))
  /\ \A o \in Objects : SF_vars(Moves(ReconcileObjectSync(o)))
  /\ SF_vars(Moves(\E m \in answers : PublishAnswer(m)))

TunnelFairness ==
  /\ \A t \in Tunnel!Tunnels : WF_tunnelVars(part = "tunnel" /\ Tunnel!CloudSteps(t))
  /\ \A r \in {r1, r2} : WF_tunnelVars(part = "tunnel" /\ Tunnel!RequestSteps(r))

RouterFairness == \A q \in {q1, q2} : WF_routerVars(part = "router" /\ Router!RequestSteps(q))

LiveSpec ==
  LiveInit /\ [][LiveNext]_allVars /\ SyncFairness /\ TunnelFairness /\ RouterFairness

-----------------------------------------------------------------------------
\* The lock of a tunnel's session is released in the end (StreamTunnel).
LockIsReleased == Tunnel!LockIsReleased

\* A request that is forwarded ends, unless its timer fired while it was
\* answered or its target did not listen; the loop of the router waits only
\* for a request that still receives, and none ends with "message delivered"
\* whose service did not answer in time (RuleRouter).
RequestEnds == Router!RequestEnds /\ [](Router!LoopCanGoOn /\ Router!DeliveredIsPublished)
=============================================================================
