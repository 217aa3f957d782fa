----------------------------- MODULE StreamTunnel -----------------------------
(***************************************************************************)
(* Requests of the API server for containers of an edge node (logs,        *)
(* metrics, exec, attach), carried over the tunnel of the node.            *)
(*                                                                         *)
(* edgestream dials tunnels one after the other; cloudstream has a handler *)
(* (TunnelServer.connect) per tunnel, which registers a Session and then   *)
(* reads it.  A request finds the session of its node, adds itself to the  *)
(* session and serves until the client or the edge ends it.  The lock      *)
(* apiConnlock of a session is held by its reader while it tells requests  *)
(* that their edge peer is done (SetEdgePeerDone), which may block.        *)
(*                                                                         *)
(* Requests for logs and metrics wait in a select with an unbuffered       *)
(* channel; exec and attach read the client between two looks at a channel *)
(* with a buffer.                                                          *)
(***************************************************************************)
EXTENDS Naturals, Sequences, FiniteSets

CONSTANTS
    MaxTunnels,     \* bound: how often edgestream dials
    Requests,       \* bound: the requests of the API server
    Kind,           \* the kind of a request: "logs", "metrics", "exec" or "attach"
    MaxQueue        \* bound: messages in a direction of a tunnel

VARIABLES
    dialled,        \* tunnels dialled so far; the last one is the node's
    edge,           \* the edge session of the last tunnel, "up" or "down"
    broken,         \* tunnels whose connection is closed
    handler,        \* the handler in the cloud, per tunnel
    sessions,       \* TunnelServer.sessions, by host name and by address; 0 is none
    down, up,       \* messages to the edge and from it, per tunnel
    apiServerConn,  \* Session.apiServerConn, from message ids to requests
    signal,         \* the requests the reader of a session has yet to tell
    nextMessageID,
    req,            \* a request: where it is, its tunnel and its message id
    edgePeerStop,   \* what the channel of a request has buffered
    gone,           \* requests whose client left
    localCons       \* edge connections, per tunnel and message id

vars == <<dialled, edge, broken, handler, sessions, down, up, apiServerConn, signal,
          nextMessageID, req, edgePeerStop, gone, localCons>>

Tunnels == 1..MaxTunnels
MessageIds == 0..Cardinality(Requests)
Keys == {"host", "ip"}
NoRequest == [at |-> "none", request |-> 0]

\* Messages; request is a history variable that says whose edge connection sent it.
Message(type, id, r) == [type |-> type, id |-> id, request |-> r]

-----------------------------------------------------------------------------
(* Writing to a tunnel fails once it is closed.                            *)

Written(queue, t, m) ==
    IF t \in broken THEN queue ELSE [queue EXCEPT ![t] = Append(@, m)]

Closed(t) ==
    /\ broken' = broken \cup {t}
    /\ down' = [down EXCEPT ![t] = <<>>]
    /\ up' = [up EXCEPT ![t] = <<>>]

\* Requests that read their client.
Reads(r) == Kind[r] \in {"exec", "attach"}

\* The deferred close(closeChan) of Serve.
closeChan(r) == req[r].at \in {"failed", "over"}

\* The lock of a session is free.
Unlocked(t) == handler[t] \notin {"stopping", "closing"}

-----------------------------------------------------------------------------
(* The tunnel.                                                             *)

\* edgestream.Start, TLSClientConnect: the next tunnel once the last ended.
TLSClientConnect ==
    /\ edge = "down" /\ dialled < MaxTunnels
    /\ dialled' = dialled + 1
    /\ edge' = "up"
    /\ handler' = [handler EXCEPT ![dialled + 1] = "updating"]
    /\ UNCHANGED <<broken, sessions, down, up, apiServerConn, signal, nextMessageID, req,
                   edgePeerStop, gone, localCons>>

\* The connection breaks, and what is under way is lost.
Break(t) ==
    /\ t <= dialled /\ t \notin broken
    /\ Closed(t)
    /\ UNCHANGED <<dialled, edge, handler, sessions, apiServerConn, signal, nextMessageID, req,
                   edgePeerStop, gone, localCons>>

\* The rest of connect that none of its steps changes.
ConnectFrame ==
    UNCHANGED <<dialled, edge, broken, up, apiServerConn, signal, nextMessageID, req, edgePeerStop,
                gone, localCons>>

\* updateNodeKubeletEndpoint retries for up to two minutes; a handler whose
\* update failed tells the edge to close.
updateNodeKubeletEndpoint(t) ==
    /\ handler[t] = "updating"
    /\ \/ handler' = [handler EXCEPT ![t] = "updated"] /\ UNCHANGED down
       \/ /\ handler' = [handler EXCEPT ![t] = "refused"]
          /\ down' = Written(down, t, Message("close", 0, 0))
    /\ ConnectFrame /\ UNCHANGED sessions

\* addSession, first under the name of the node and then under its address;
\* whatever is registered there is replaced.
addSession(t) ==
    /\ \/ /\ handler[t] = "updated"
          /\ handler' = [handler EXCEPT ![t] = "host"]
          /\ sessions' = [sessions EXCEPT !["host"] = t]
       \/ /\ handler[t] = "host"
          /\ handler' = [handler EXCEPT ![t] = "serving"]
          /\ sessions' = [sessions EXCEPT !["ip"] = t]
    /\ ConnectFrame /\ UNCHANGED down

\* TunnelServer.connect up to Session.Serve.
connect(t) == updateNodeKubeletEndpoint(t) \/ addSession(t)

\* Session.Serve reads a message for a request (ProxyTunnelMessageToApiserver).
Serve(t) ==
    /\ handler[t] = "serving" /\ up[t] # <<>>
    /\ LET m == Head(up[t])
       IN  IF m.type = "remove" /\ m.id \in DOMAIN apiServerConn[t]
           THEN /\ handler' = [handler EXCEPT ![t] = "stopping"]
                /\ signal' = [signal EXCEPT ![t] = {apiServerConn[t][m.id]}]
           ELSE UNCHANGED <<handler, signal>>
    /\ up' = [up EXCEPT ![t] = Tail(@)]
    /\ UNCHANGED <<dialled, edge, broken, sessions, down, apiServerConn, nextMessageID, req,
                   edgePeerStop, gone, localCons>>

\* Session.Serve ends and Close takes the lock.
Close(t) ==
    /\ handler[t] = "serving" /\ t \in broken
    /\ handler' = [handler EXCEPT ![t] = "closing"]
    /\ signal' = [signal EXCEPT ![t] = {apiServerConn[t][i] : i \in DOMAIN apiServerConn[t]}]
    /\ UNCHANGED <<dialled, edge, broken, sessions, down, up, apiServerConn, nextMessageID, req,
                   edgePeerStop, gone, localCons>>

\* The channel has room for one signal.
ChannelOf1(r) == IF Reads(r) THEN 1 ELSE 0

\* The capacity of edgePeerStop.
Capacity(r) == IF Reads(r) THEN 2 ELSE 0

\* SetEdgePeerDone: the request has ended, or takes the signal from its
\* select, or the channel has room.
SetEdgePeerDone(t, r) ==
    /\ r \in signal[t]
    /\ \/ closeChan(r) /\ UNCHANGED <<req, edgePeerStop>>
       \/ /\ ~Reads(r) /\ req[r].at = "loop"
          /\ req' = [req EXCEPT ![r].at = "failed"]
          /\ UNCHANGED edgePeerStop
       \/ /\ edgePeerStop[r] < Capacity(r)
          /\ edgePeerStop' = [edgePeerStop EXCEPT ![r] = @ + 1]
          /\ UNCHANGED req
    /\ signal' = [signal EXCEPT ![t] = @ \ {r}]
    /\ UNCHANGED <<dialled, edge, broken, handler, sessions, down, up, apiServerConn,
                   nextMessageID, gone, localCons>>

\* All are told: the lock is released.  Close also closes the tunnel and
\* sets tunnelClosed.
Unlock(t) ==
    /\ ~Unlocked(t) /\ signal[t] = {}
    /\ IF handler[t] = "closing"
       THEN handler' = [handler EXCEPT ![t] = "closed"] /\ Closed(t)
       ELSE handler' = [handler EXCEPT ![t] = "serving"] /\ UNCHANGED <<broken, down, up>>
    /\ UNCHANGED <<dialled, edge, sessions, apiServerConn, signal, nextMessageID, req,
                   edgePeerStop, gone, localCons>>

-----------------------------------------------------------------------------
(* A request (getContainerLogs, getMetrics, getExec, getAttach).           *)

Step(r, at) == req' = [req EXCEPT ![r].at = at]

\* getSession: a request without session fails.
getSession(r, key) ==
    req' = [req EXCEPT ![r].at = IF sessions[key] = 0 THEN "over" ELSE "found",
                       ![r].tunnel = sessions[key]]

\* getSessionKey: the name of the node of the pod; the pod may be unknown.
getSessionKey(r) == getSession(r, "host") \/ Step(r, "over")

RequestFrame ==
    UNCHANGED <<dialled, edge, broken, handler, sessions, down, up, apiServerConn, signal,
                nextMessageID, edgePeerStop, gone, localCons>>

\* The handlers up to AddAPIServerConnection.
getContainerLogs(r) ==
    Kind[r] = "logs" /\ req[r].at = "new" /\ getSessionKey(r) /\ RequestFrame

\* Metrics are asked for at the address of the node, or with its name in
\* X-Forwarded-Uri.
getMetrics(r) ==
    /\ Kind[r] = "metrics" /\ req[r].at = "new"
    /\ \E k \in Keys : getSession(r, k)
    /\ RequestFrame

\* Exec and attach may also fail to hijack the connection.
getExec(r) ==
    Kind[r] = "exec" /\ req[r].at = "new" /\ getSessionKey(r) /\ RequestFrame

getAttach(r) ==
    Kind[r] = "attach" /\ req[r].at = "new" /\ getSessionKey(r) /\ RequestFrame

\* The request is added under the id, whatever became of the tunnel.
AddedAlways(r, t, id) ==
    /\ req' = [req EXCEPT ![r].at = "added", ![r].id = id]
    /\ apiServerConn' = [apiServerConn EXCEPT ![t] =
          [i \in DOMAIN @ \cup {id} |-> IF i = id THEN r ELSE @[i]]]

\* The request is added under the id unless the tunnel was closed.
Added(r, t, id) ==
    IF handler[t] = "closed" THEN Step(r, "over") /\ UNCHANGED apiServerConn
    ELSE /\ req' = [req EXCEPT ![r].at = "added", ![r].id = id]
         /\ apiServerConn' = [apiServerConn EXCEPT ![t] =
               [i \in DOMAIN @ \cup {id} |-> IF i = id THEN r ELSE @[i]]]

\* The counter is read and not increased.
AddAPIServerConnectionStale(r) ==
    /\ req[r].at = "found" /\ Unlocked(req[r].tunnel)
    /\ Added(r, req[r].tunnel, nextMessageID)
    /\ UNCHANGED <<dialled, edge, broken, handler, sessions, down, up, signal, nextMessageID,
                   edgePeerStop, gone, localCons>>

\* The counter is increased twice, for the message and for the connection.
AddAPIServerConnectionTwice(r) ==
    /\ req[r].at = "found" /\ Unlocked(req[r].tunnel)
    /\ nextMessageID' = nextMessageID + 2
    /\ Added(r, req[r].tunnel, nextMessageID + 2)
    /\ UNCHANGED <<dialled, edge, broken, handler, sessions, down, up, signal, edgePeerStop, gone,
                   localCons>>

\* AddAPIServerConnection, under the lock.
AddAPIServerConnection(r) ==
    /\ req[r].at = "found" /\ Unlocked(req[r].tunnel)
    /\ nextMessageID' = nextMessageID + 1
    /\ Added(r, req[r].tunnel, nextMessageID + 1)
    /\ UNCHANGED <<dialled, edge, broken, handler, sessions, down, up, signal, edgePeerStop, gone,
                   localCons>>

\* SendConnection: Serve fails when it cannot tell the edge.
SendConnection(r) ==
    /\ req[r].at = "added"
    /\ Step(r, IF req[r].tunnel \in broken THEN "failed" ELSE "loop")
    /\ down' = Written(down, req[r].tunnel, Message("connect", req[r].id, r))
    /\ UNCHANGED <<dialled, edge, broken, handler, sessions, up, apiServerConn, signal,
                   nextMessageID, edgePeerStop, gone, localCons>>

\* The client left (ctx.Done, or only the end of what exec reads from it).
ClientLeaves(r) ==
    /\ req[r].at \in {"loop", "reading"} /\ r \notin gone
    /\ gone' = gone \cup {r}
    /\ UNCHANGED <<dialled, edge, broken, handler, sessions, down, up, apiServerConn, signal,
                   nextMessageID, req, edgePeerStop, localCons>>

ServeFrame ==
    UNCHANGED <<dialled, edge, broken, handler, sessions, up, apiServerConn, signal, nextMessageID,
                gone, localCons>>

\* The edge is told that the request is over.
sendCloseMessage(r) ==
    /\ Len(down[req[r].tunnel]) < MaxQueue
    /\ down' = Written(down, req[r].tunnel, Message("remove", req[r].id, r))

\* ctx.Done: Serve ends without an error.
ContextDone(r) ==
    /\ req[r].at = "loop" /\ r \in gone /\ sendCloseMessage(r)
    /\ Step(r, "over")
    /\ UNCHANGED edgePeerStop /\ ServeFrame

\* One look at the context and at the channel, then a read of the client,
\* which blocks while the client is silent; at the end of what the client
\* sends the edge is told, and the loop goes on.
ReadLoop(r) ==
    \/ ContextDone(r)
    \/ /\ req[r].at = "loop" /\ edgePeerStop[r] > 0
       /\ Step(r, "failed")
       /\ edgePeerStop' = [edgePeerStop EXCEPT ![r] = @ - 1]
       /\ UNCHANGED down /\ ServeFrame
    \/ /\ req[r].at = "loop" /\ edgePeerStop[r] = 0
       /\ Step(r, "reading")
       /\ UNCHANGED <<down, edgePeerStop>> /\ ServeFrame
    \/ /\ req[r].at = "reading" /\ r \in gone /\ sendCloseMessage(r)
       /\ Step(r, "loop")
       /\ UNCHANGED edgePeerStop /\ ServeFrame

\* The loops of Serve.  Those of logs and metrics take the signal of the edge
\* in SetEdgePeerDone, for the channel has no buffer.
ServeLogs(r) == Kind[r] = "logs" /\ ContextDone(r)
ServeMetrics(r) == Kind[r] = "metrics" /\ ContextDone(r)
ServeExec(r) == Kind[r] = "exec" /\ ReadLoop(r)
ServeAttach(r) == Kind[r] = "attach" /\ ReadLoop(r)

\* The client of exec sends data, which is passed on.
ClientSends(r) ==
    /\ req[r].at = "reading" /\ r \notin gone
    /\ Step(r, "loop")
    /\ UNCHANGED <<dialled, edge, broken, handler, sessions, down, up, apiServerConn, signal,
                   nextMessageID, edgePeerStop, gone, localCons>>

\* A request that failed deletes itself; one whose client left does not.
DeleteAPIServerConnection(r) ==
    LET t == req[r].tunnel
    IN  /\ req[r].at = "failed" /\ Unlocked(t)
        /\ Step(r, "over")
        /\ apiServerConn' = [apiServerConn EXCEPT ![t] =
              [i \in DOMAIN @ \ {req[r].id} |-> @[i]]]
        /\ UNCHANGED <<dialled, edge, broken, handler, sessions, down, up, signal, nextMessageID,
                       edgePeerStop, gone, localCons>>

-----------------------------------------------------------------------------
(* The edge (TunnelSession).                                               *)

\* TunnelSession.Serve reads a message.  A connection is served by a
\* goroutine of its own, and what arrives before that goroutine has added the
\* connection is dropped.
EdgeServe ==
    LET t == dialled
        m == Head(down[t])
    IN  /\ edge = "up" /\ dialled > 0 /\ down[t] # <<>>
        /\ IF m.type = "close"
           THEN edge' = "down" /\ Closed(t) /\ UNCHANGED localCons
           ELSE /\ down' = [down EXCEPT ![t] = Tail(@)]
                /\ localCons' =
                     IF m.type = "connect"
                     THEN [localCons EXCEPT ![t][m.id] = [at |-> "starting", request |-> m.request]]
                     ELSE IF localCons[t][m.id].at = "serving"
                     THEN [localCons EXCEPT ![t][m.id].at = "removed"]
                     ELSE localCons
                /\ UNCHANGED <<edge, broken, up>>
        /\ UNCHANGED <<dialled, handler, sessions, apiServerConn, signal, nextMessageID, req,
                       edgePeerStop, gone>>

\* It ends when the connection is closed.
EdgeClose ==
    /\ edge = "up" /\ dialled \in broken
    /\ edge' = "down"
    /\ UNCHANGED <<dialled, broken, handler, sessions, down, up, apiServerConn, signal,
                   nextMessageID, req, edgePeerStop, gone, localCons>>

\* ServeConnection adds the connection.
AddLocalConnection(t, id) ==
    /\ localCons[t][id].at = "starting"
    /\ localCons' = [localCons EXCEPT ![t][id].at = "serving"]
    /\ UNCHANGED <<dialled, edge, broken, handler, sessions, down, up, apiServerConn, signal,
                   nextMessageID, req, edgePeerStop, gone>>

\* The connection sends data of the container (EdgedConnection.Serve).
EdgeData(t, id) ==
    /\ localCons[t][id].at = "serving" /\ t \notin broken /\ Len(up[t]) < MaxQueue
    /\ up' = Written(up, t, Message("data", id, localCons[t][id].request))
    /\ UNCHANGED <<dialled, edge, broken, handler, sessions, down, apiServerConn, signal,
                   nextMessageID, req, edgePeerStop, gone, localCons>>

\* The connection ends, tells the cloud and is deleted.
DeleteLocalConnection(t, id) ==
    /\ localCons[t][id].at \in {"serving", "removed"} /\ Len(up[t]) <= MaxQueue
    /\ up' = Written(up, t, Message("remove", id, localCons[t][id].request))
    /\ localCons' = [localCons EXCEPT ![t][id] = NoRequest]
    /\ UNCHANGED <<dialled, edge, broken, handler, sessions, down, apiServerConn, signal,
                   nextMessageID, req, edgePeerStop, gone>>

-----------------------------------------------------------------------------
Init ==
    /\ dialled = 0 /\ edge = "down" /\ broken = {}
    /\ handler = [t \in Tunnels |-> "none"]
    /\ sessions = [k \in Keys |-> 0]
    /\ down = [t \in Tunnels |-> <<>>] /\ up = [t \in Tunnels |-> <<>>]
    /\ apiServerConn = [t \in Tunnels |-> <<>>]
    /\ signal = [t \in Tunnels |-> {}]
    /\ nextMessageID = 0
    /\ req = [r \in Requests |-> [at |-> "new", tunnel |-> 0, id |-> 0]]
    /\ edgePeerStop = [r \in Requests |-> 0]
    /\ gone = {}
    /\ localCons = [t \in Tunnels |-> [i \in MessageIds |-> NoRequest]]

CloudSteps(t) ==
    connect(t) \/ Serve(t) \/ Close(t) \/ Unlock(t) \/ \E r \in Requests : SetEdgePeerDone(t, r)

Handlers(r) == getContainerLogs(r) \/ getMetrics(r) \/ getExec(r) \/ getAttach(r)

RequestSteps(r) ==
    \/ AddAPIServerConnection(r) \/ SendConnection(r) \/ DeleteAPIServerConnection(r)
    \/ ServeLogs(r) \/ ServeMetrics(r) \/ ServeExec(r) \/ ServeAttach(r)

Next ==
    \/ TLSClientConnect \/ EdgeServe \/ EdgeClose
    \/ \E t \in Tunnels : Break(t) \/ CloudSteps(t)
    \/ \E r \in Requests : Handlers(r) \/ ClientLeaves(r) \/ ClientSends(r) \/ RequestSteps(r)
    \/ \E t \in Tunnels, i \in MessageIds :
          AddLocalConnection(t, i) \/ EdgeData(t, i) \/ DeleteLocalConnection(t, i)

\* Goroutines that can run do run; clients may be silent for ever.
Fairness ==
    /\ \A t \in Tunnels : WF_vars(CloudSteps(t))
    /\ \A r \in Requests : WF_vars(RequestSteps(r))

Spec == Init /\ [][Next]_vars
FairSpec == Spec /\ Fairness

-----------------------------------------------------------------------------
\* The variables have their types.
TypeOK ==
    /\ dialled \in 0..MaxTunnels /\ edge \in {"up", "down"} /\ broken \subseteq Tunnels
    /\ handler \in [Tunnels -> {"none", "updating", "updated", "host", "serving", "stopping", "closing",
                                "closed", "refused"}]
    /\ sessions \in [Keys -> 0..MaxTunnels]
    /\ \A t \in Tunnels : DOMAIN apiServerConn[t] \subseteq MessageIds
    /\ \A r \in Requests : edgePeerStop[r] \in 0..2

\* A message of an edge connection finds the request that opened it, or none:
\* ids are never used again, within a tunnel or after the node reconnected.
OwnPeer ==
    \A t \in Tunnels : \A i \in DOMAIN up[t] :
        LET m == up[t][i]
        IN  m.id \in DOMAIN apiServerConn[t] => apiServerConn[t][m.id] = m.request

\* Once a tunnel is closed no request waits for it unknowingly: a request
\* that still serves has been told, also one that came as it broke.
NoneOrphaned ==
    \A r \in Requests :
        LET t == req[r].tunnel
        IN  t # 0 /\ req[r].at \in {"added", "loop", "reading"} /\ handler[t] = "closed"
              => edgePeerStop[r] > 0

\* The reader of a session never keeps its lock for ever, whatever requests
\* it has to tell and whatever their clients do.
LockIsReleased == \A t \in Tunnels : ~Unlocked(t) ~> Unlocked(t)
=============================================================================
