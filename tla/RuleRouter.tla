------------------------------ MODULE RuleRouter ------------------------------
(***************************************************************************)
(* The router of the cloud (cloud/pkg/router): rules that forward HTTP     *)
(* requests to services and topics of edge nodes, and messages of edge     *)
(* nodes to HTTP services.                                                 *)
(*                                                                         *)
(* EdgeController tells the router of rules and of their endpoints; every  *)
(* such message is handled by a goroutine of its own.  A rule with a REST  *)
(* source serves requests: Forward starts a goroutine for the target and   *)
(* waits for it, for a timer or for the client.  The target "servicebus"   *)
(* sends the request to the node and waits on the channel stop, to which   *)
(* both the callback of the answer, which runs in the loop of the router,  *)
(* and the timer send.  The target "eventbus" only publishes.              *)
(***************************************************************************)
EXTENDS Naturals, Sequences, FiniteSets, SequencesExt

CONSTANTS
    Rules, Requests,
    Source,         \* the type of the source of a rule: "rest" or "bus"
    Target,         \* the type of the target of a rule: "servicebus", "eventbus" or "rest"
    PathOf,         \* the path of a rule, as a sequence of segments
    UriOf,          \* the URI of a request, with the node name as first segment
    Wild,           \* a segment in braces
    None,
    MaxTries,       \* how often addRuleWithRetry tries
    MaxChanges      \* bound: changes of rules and endpoints

VARIABLES
    apiRules,       \* the rules of the API server
    apiEndpoints,   \* and their endpoints, "source" and "target"
    inbox,          \* messages to the router, in order
    jobs,           \* goroutines that handle messages of EdgeController
    rules, ruleEndpoints, handlers,
    told,           \* what the edge node of a bus rule was told last
    loop,           \* the request whose callback the loop of the router is in, or None
    req,            \* a request: where Forward is, and the rule
    target,         \* where the goroutine of its target is
    response,       \* requests whose callback has stored the response
    callbackHandlers,
    net,            \* requests on their way to the node or back
    raced,          \* history: requests that timed out while they were answered
    overtaken,      \* history: rules whose messages were not handled in order
    changes

vars == <<apiRules, apiEndpoints, inbox, jobs, rules, ruleEndpoints, handlers, told, loop, req, target,
          response, callbackHandlers, net, raced, overtaken, changes>>

config == <<apiRules, apiEndpoints, jobs, rules, ruleEndpoints, handlers, told, overtaken, changes>>
serving == <<loop, req, target, response, callbackHandlers, net, raced>>

EndpointMessage(op, e) == [type |-> "endpoint", op |-> op, rule |-> e, request |-> None]
Endpoints == {"source", "target"}

RuleMessage(op, r) == [type |-> "rule", op |-> op, rule |-> r, request |-> None]
AnswerTo(q) == [type |-> "answer", op |-> "upload", rule |-> None, request |-> q]

-----------------------------------------------------------------------------
(* The paths of requests.                                                  *)

\* IsMatch: the pattern matches anywhere in the path.
IsMatch(reg, path) ==
    \E i \in 0..(Len(path) - Len(reg)) :
        \A j \in DOMAIN reg : reg[j] \in {Wild, path[i + j]}

\* RuleContains compares the segments the two paths both have.
RuleContains(p1, p2) ==
    \A i \in DOMAIN p1 : i \in DOMAIN p2 => p1[i] = p2[i]

\* matchedPath: the paths are seen in any order, and a path replaces the
\* candidate unless it contains it.
matchedPath(q) ==
    LET matching == {r \in handlers : Source[r] = "rest" /\ IsMatch(PathOf[r], UriOf[q])}
        better(c, r) == IF c # None /\ RuleContains(PathOf[r], PathOf[c]) THEN c ELSE r
    IN  {FoldLeft(better, None, s) :
           s \in {t \in [1..Cardinality(matching) -> matching] : Cardinality(ToSet(t)) = Len(t)}}

-----------------------------------------------------------------------------
(* Rules.                                                                  *)

MayChange == changes < MaxChanges /\ changes' = changes + 1

\* A rule is created, which admission allows only with its endpoints, or
\* deleted (syncRule).
ChangeRule(r) ==
    /\ MayChange
    /\ \/ /\ r \notin apiRules /\ apiEndpoints = Endpoints
          /\ apiRules' = apiRules \cup {r}
          /\ inbox' = Append(inbox, RuleMessage("insert", r))
       \/ /\ r \in apiRules
          /\ apiRules' = apiRules \ {r}
          /\ inbox' = Append(inbox, RuleMessage("delete", r))
    /\ UNCHANGED <<apiEndpoints, jobs, rules, ruleEndpoints, handlers, told, overtaken, serving>>

\* An endpoint is created or deleted (syncRuleEndpoint).
ChangeEndpoint(e) ==
    /\ MayChange
    /\ \/ /\ e \notin apiEndpoints
          /\ apiEndpoints' = apiEndpoints \cup {e}
          /\ inbox' = Append(inbox, EndpointMessage("insert", e))
       \/ /\ e \in apiEndpoints
          /\ apiEndpoints' = apiEndpoints \ {e}
          /\ inbox' = Append(inbox, EndpointMessage("delete", e))
    /\ UNCHANGED <<apiRules, jobs, rules, ruleEndpoints, handlers, told, overtaken, serving>>

\* The number of a new goroutine: those that are older have smaller ones.
NextJob == IF jobs = {} THEN 1 ELSE 1 + CHOOSE n \in {j.n : j \in jobs} : \A j \in jobs : j.n <= n

\* HandleMessage: a message without parent is handled by a goroutine.
HandleMessage ==
    /\ loop = None /\ inbox # <<>> /\ Head(inbox).type # "answer"
    /\ LET m == Head(inbox)
       IN  jobs' = jobs \cup {[n |-> NextJob, type |-> m.type, op |-> m.op, rule |-> m.rule,
                               at |-> "start", tries |-> 0]}
    /\ inbox' = Tail(inbox)
    /\ UNCHANGED <<apiRules, apiEndpoints, rules, ruleEndpoints, handlers, told, overtaken, changes,
                   serving>>

\* Handlers of the same rule, or of the endpoint, run out of order.
Overtakes(j, affected) ==
    overtaken' = IF \E k \in jobs : k.n < j.n /\ (k.type = "endpoint" \/ j.type = "endpoint" \/ k.rule = j.rule)
                 THEN overtaken \cup affected ELSE overtaken

\* handleRuleEndpoint: the endpoint is stored or deleted; the rules stay as they are.
handleRuleEndpoint(j) ==
    /\ j.type = "endpoint"
    /\ ruleEndpoints' = IF j.op = "insert" THEN ruleEndpoints \cup {j.rule} ELSE ruleEndpoints \ {j.rule}
    /\ jobs' = jobs \ {j}
    /\ Overtakes(j, Rules)
    /\ UNCHANGED <<apiRules, apiEndpoints, inbox, rules, handlers, told, changes, serving>>

\* Both look the endpoint up.
getSourceOfRule == "source" \in ruleEndpoints
getTargetOfRule == "target" \in ruleEndpoints

\* RegisterListener: the node of a bus source is told.
RegisterListener(r) ==
    /\ handlers' = handlers \cup {r}
    /\ told' = IF Source[r] = "bus" THEN [told EXCEPT ![r] = "subscribe"] ELSE told

\* addRule up to RegisterListener; addRuleWithRetry tries again after a while
\* when an endpoint is missing.
addRule(j) ==
    /\ j.op = "insert" /\ j.type = "rule" /\ j.at = "start"
    /\ IF getSourceOfRule /\ getTargetOfRule
       THEN /\ RegisterListener(j.rule)
            /\ jobs' = (jobs \ {j}) \cup {[j EXCEPT !.at = "store"]}
            /\ Overtakes(j, {j.rule})
       ELSE /\ jobs' = IF j.tries + 1 < MaxTries THEN (jobs \ {j}) \cup {[j EXCEPT !.tries = @ + 1]}
                       ELSE jobs \ {j}
            /\ overtaken' = IF j.tries + 1 < MaxTries THEN overtaken ELSE overtaken \cup {j.rule}
            /\ UNCHANGED <<handlers, told>>
    /\ UNCHANGED <<apiRules, apiEndpoints, inbox, rules, ruleEndpoints, changes, serving>>

\* ... and the rule is stored.
storeRule(j) ==
    /\ j.op = "insert" /\ j.at = "store"
    /\ rules' = rules \cup {j.rule}
    /\ jobs' = jobs \ {j}
    /\ Overtakes(j, {j.rule})
    /\ UNCHANGED <<apiRules, apiEndpoints, inbox, ruleEndpoints, handlers, told, changes, serving>>

\* The listener stays.
UnregisterNothing(r) == UNCHANGED <<handlers, told>>

\* UnregisterListener, if there is still a source.
UnregisterListener(r) ==
    IF getSourceOfRule
    THEN /\ handlers' = handlers \ {r}
         /\ told' = IF Source[r] = "bus" THEN [told EXCEPT ![r] = "unsubscribe"] ELSE told
    ELSE UNCHANGED <<handlers, told>>

\* delRule: an unknown rule is left alone.
delRule(j) ==
    /\ j.op = "delete" /\ j.type = "rule" /\ j.at = "start"
    /\ IF j.rule \in rules
       THEN UnregisterListener(j.rule) /\ jobs' = (jobs \ {j}) \cup {[j EXCEPT !.at = "delete"]}
       ELSE UNCHANGED <<handlers, told>> /\ jobs' = jobs \ {j}
    /\ overtaken' = IF ~getSourceOfRule \/ \E k \in jobs : k.n < j.n /\ (k.rule = j.rule \/ k.type = "endpoint")
                    THEN overtaken \cup {j.rule} ELSE overtaken
    /\ UNCHANGED <<apiRules, apiEndpoints, inbox, rules, ruleEndpoints, changes, serving>>

deleteRule(j) ==
    /\ j.op = "delete" /\ j.at = "delete"
    /\ rules' = rules \ {j.rule}
    /\ jobs' = jobs \ {j}
    /\ Overtakes(j, {j.rule})
    /\ UNCHANGED <<apiRules, apiEndpoints, inbox, ruleEndpoints, handlers, told, changes, serving>>

-----------------------------------------------------------------------------
(* Requests.                                                               *)

\* RestHandler.httpHandler: the handler of the rule calls Forward.
httpHandler(q) ==
    /\ req[q].at = "new"
    /\ \E r \in matchedPath(q) :
          IF r = None
          THEN req' = [req EXCEPT ![q].at = "refused"] /\ UNCHANGED target
          ELSE req' = [req EXCEPT ![q] = [at |-> "waiting", rule |-> r]]
               /\ target' = [target EXCEPT ![q] = "start"]
    /\ UNCHANGED <<config, inbox, loop, response, callbackHandlers, net, raced>>

\* ServiceBus.GoToTarget sends the request to the node.
SendToServiceBus(q) ==
    /\ target[q] = "start" /\ Target[req[q].rule] = "servicebus"
    /\ target' = [target EXCEPT ![q] = "sent"]
    /\ net' = net \cup {q}
    /\ UNCHANGED <<config, inbox, loop, req, response, callbackHandlers, raced>>

\* EventBus.GoToTarget publishes and returns.
PublishToEventBus(q) ==
    /\ target[q] = "start" /\ Target[req[q].rule] = "eventbus"
    /\ target' = [target EXCEPT ![q] = "return"]
    /\ UNCHANGED <<config, inbox, loop, req, response, callbackHandlers, net, raced>>

\* SetCallback, after the request was sent.
SetCallback(q) ==
    /\ target[q] = "sent"
    /\ target' = [target EXCEPT ![q] = "stop"]
    /\ callbackHandlers' = callbackHandlers \cup {q}
    /\ UNCHANGED <<config, inbox, loop, req, response, net, raced>>

\* DispatchUpstream of CloudHub passes what has the operation "upload" to the
\* router; an error of the node has none and is not passed on.
DispatchUpstream(q, failed) == IF failed THEN inbox ELSE Append(inbox, AnswerTo(q))

\* The node calls its service and answers, with the response or an error.
processMessage(q) ==
    /\ q \in net
    /\ net' = net \ {q}
    /\ \E failed \in BOOLEAN : inbox' = DispatchUpstream(q, failed)
    /\ UNCHANGED <<config, loop, req, target, response, callbackHandlers, raced>>

\* The request or its answer is lost with the connection.
Lose(q) ==
    /\ q \in net
    /\ net' = net \ {q}
    /\ UNCHANGED <<config, inbox, loop, req, target, response, callbackHandlers, raced>>

\* The loop of the router takes an answer: its callback, if there is one,
\* stores it and sends to the channel stop.
Callback(q) ==
    IF q \in callbackHandlers
    THEN /\ loop' = q
         /\ response' = response \cup {q}
         /\ raced' = IF req[q].at \in {"stopping", "timeout"} THEN raced \cup {q} ELSE raced
    ELSE UNCHANGED <<loop, response, raced>>

callback ==
    /\ loop = None /\ inbox # <<>> /\ Head(inbox).type = "answer"
    /\ Callback(Head(inbox).request)
    /\ inbox' = Tail(inbox)
    /\ UNCHANGED <<config, req, target, callbackHandlers, net>>

\* The target of the request receives it.
CallbackStops(q) ==
    /\ loop = q /\ target[q] = "stop"
    /\ loop' = None
    /\ target' = [target EXCEPT ![q] = "stopped"]
    /\ callbackHandlers' = callbackHandlers \ {q}
    /\ UNCHANGED <<config, inbox, req, response, net, raced>>

\* No timer.
TimeoutNever(q) == FALSE /\ UNCHANGED vars

\* The timer of Forward, which then sends to stop; a target that has stopped,
\* or does not listen, never receives it.
Timeout(q) ==
    /\ req[q].at = "waiting"
    /\ req' = [req EXCEPT ![q].at = "stopping"]
    /\ raced' = IF loop = q \/ target[q] \in {"stopped", "return"} \/ Target[req[q].rule] = "eventbus"
                THEN raced \cup {q} ELSE raced
    /\ UNCHANGED <<config, inbox, loop, target, response, callbackHandlers, net>>

TimerStops(q) ==
    /\ req[q].at = "stopping" /\ target[q] = "stop"
    /\ req' = [req EXCEPT ![q].at = "timeout"]
    /\ target' = [target EXCEPT ![q] = "stopped"]
    /\ UNCHANGED <<config, inbox, loop, response, callbackHandlers, net, raced>>

\* DelCallback, and GoToTarget returns the response.
DelCallback(q) ==
    /\ target[q] = "stopped"
    /\ target' = [target EXCEPT ![q] = "return"]
    /\ callbackHandlers' = callbackHandlers \ {q}
    /\ UNCHANGED <<config, inbox, loop, req, response, net, raced>>

\* Forward receives it: no response is "message delivered".
Delivered(q) == IF q \in response THEN "answered" ELSE "delivered"

Forward(q) ==
    /\ req[q].at = "waiting" /\ target[q] = "return"
    /\ req' = [req EXCEPT ![q].at = Delivered(q)]
    /\ target' = [target EXCEPT ![q] = "none"]
    /\ UNCHANGED <<config, inbox, loop, response, callbackHandlers, net, raced>>

\* The client leaves: Forward returns and its target is not told.
Disconnect(q) ==
    /\ req[q].at = "waiting"
    /\ req' = [req EXCEPT ![q].at = "gone"]
    /\ UNCHANGED <<config, inbox, loop, target, response, callbackHandlers, net, raced>>

-----------------------------------------------------------------------------
Init ==
    /\ apiRules = {} /\ apiEndpoints = Endpoints /\ inbox = <<>> /\ jobs = {}
    /\ rules = {} /\ ruleEndpoints = Endpoints /\ handlers = {} /\ told = [r \in Rules |-> "none"]
    /\ loop = None
    /\ req = [q \in Requests |-> [at |-> "new", rule |-> None]]
    /\ target = [q \in Requests |-> "none"]
    /\ response = {} /\ callbackHandlers = {} /\ net = {}
    /\ raced = {} /\ overtaken = {} /\ changes = 0

Job(j) == handleRuleEndpoint(j) \/ addRule(j) \/ storeRule(j) \/ delRule(j) \/ deleteRule(j)

RequestSteps(q) ==
    \/ SendToServiceBus(q) \/ PublishToEventBus(q) \/ SetCallback(q) \/ CallbackStops(q) \/ Timeout(q) \/ TimerStops(q)
    \/ DelCallback(q) \/ Forward(q)

Next ==
    \/ \E r \in Rules : ChangeRule(r)
    \/ \E e \in Endpoints : ChangeEndpoint(e)
    \/ HandleMessage \/ callback
    \/ \E j \in jobs : Job(j)
    \/ \E q \in Requests : httpHandler(q) \/ processMessage(q) \/ Lose(q) \/ Disconnect(q) \/ RequestSteps(q)

\* Goroutines that can run do run, and timers fire.
Fairness == \A q \in Requests : WF_vars(RequestSteps(q))

Spec == Init /\ [][Next]_vars
FairSpec == Spec /\ Fairness

-----------------------------------------------------------------------------
\* The variables have their types.
TypeOK ==
    /\ apiRules \cup rules \cup handlers \cup overtaken \subseteq Rules
    /\ loop \in Requests \cup {None}
    /\ response \cup callbackHandlers \cup net \cup raced \subseteq Requests
    /\ \A q \in Requests : req[q].rule \in Rules \cup {None}

\* When every message is handled the listeners are those of the rules of the
\* API server, and the nodes of bus rules are subscribed accordingly, unless
\* messages were handled out of order, tried in vain or came without endpoint.
QuietRules ==
    inbox = <<>> /\ jobs = {} =>
        \A r \in Rules \ overtaken :
            /\ (r \in handlers) = (r \in apiRules)
            /\ Source[r] = "bus" => (told[r] = "subscribe") = (r \in apiRules)

\* Only the callback answers a request: "message delivered" is what rules
\* with an event bus return, never a service that did not answer in time.
DeliveredIsPublished ==
    \A q \in Requests : req[q].at = "delivered" => Target[req[q].rule] = "eventbus"

\* The loop of the router waits for a request only as long as the request
\* still receives, unless its timer fired while it was answered.
LoopCanGoOn == loop # None /\ loop \notin raced => target[loop] = "stop"

\* Every request that is forwarded ends, unless its timer fired while it was
\* answered or when its target did not listen.
RequestEnds ==
    \A q \in Requests :
        req[q].at = "waiting" ~> (req[q].at \in {"answered", "delivered", "timeout", "gone"} \/ q \in raced)
=============================================================================
