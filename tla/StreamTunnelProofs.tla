-------------------------- MODULE StreamTunnelProofs --------------------------
(***************************************************************************)
(* Two properties of stream tunnels, for any number of tunnels, requests   *)
(* and messages: what an edge connection sends finds the request that      *)
(* opened it or none, and no request serves unknowingly on a closed tunnel.*)
(*                                                                         *)
(* The first rests on the ids: a request gets its id when it is added, and *)
(* no other has it (Numbered); so connections in the cloud (Connected),    *)
(* messages (Carried) and connections at the edge (Served) that have the   *)
(* same id are of the same request.  The second rests on the lock: while   *)
(* Close holds it nothing is added, and what serves on the tunnel is in    *)
(* apiServerConn (Connected); hence it is still to be told, or it is told  *)
(* already, or it ended (Told).                                            *)
(***************************************************************************)
EXTENDS StreamTunnel, TLAPS

HandlerStates == {"none", "updating", "updated", "host", "serving", "stopping", "closing", "closed",
                  "refused"}
Serving == {"added", "loop", "reading"}
RequestStates == {"new", "found", "failed", "over"} \cup Serving

\* The types the argument needs.
Typed ==
    /\ dialled \in 0..MaxTunnels
    /\ handler \in [Tunnels -> HandlerStates]
    /\ sessions \in [Keys -> Tunnels \cup {0}]
    /\ signal \in [Tunnels -> SUBSET Requests]
    /\ nextMessageID \in Nat
    /\ req \in [Requests -> [at : RequestStates, tunnel : Tunnels \cup {0}, id : Nat]]
    /\ edgePeerStop \in [Requests -> Nat]
    /\ DOMAIN apiServerConn = Tunnels

\* Ids are given in turn, once each, to requests that are added.
Numbered ==
    /\ \A r \in Requests :
          /\ req[r].id <= nextMessageID
          /\ req[r].at \in {"new", "found"} => req[r].id = 0
    /\ \A r, s \in Requests : req[r].id # 0 /\ req[r].id = req[s].id => r = s

\* A session knows its requests by their ids; those that serve are known.
Connected ==
    /\ \A t \in Tunnels : \A i \in DOMAIN apiServerConn[t] :
          /\ i # 0 /\ apiServerConn[t][i] \in Requests
          /\ req[apiServerConn[t][i]].id = i
    /\ \A r \in Requests :
          /\ req[r].at \notin {"new", "over"} => req[r].tunnel \in Tunnels
          /\ req[r].at \in Serving =>
                /\ req[r].id # 0
                /\ req[r].id \in DOMAIN apiServerConn[req[r].tunnel]
                /\ apiServerConn[req[r].tunnel][req[r].id] = r

\* The messages of a request, and those that close a tunnel.
Genuine == {m \in [type : {"connect", "remove", "data"}, id : Nat, request : Requests] :
              m.id # 0 /\ req[m.request].id = m.id}
Closing == [type : {"close"}, id : {0}, request : {0}]

\* Messages carry the id of their request.
Carried ==
    /\ down \in [Tunnels -> Seq(Genuine \cup Closing)]
    /\ up \in [Tunnels -> Seq(Genuine)]

\* So do the connections of the edge.
Served ==
    /\ localCons \in [Tunnels -> [MessageIds -> [at : {"none", "starting", "serving", "removed"},
                                                 request : Requests \cup {0}]]]
    /\ \A t \in Tunnels, i \in MessageIds :
          localCons[t][i].at # "none" =>
            /\ i # 0 /\ localCons[t][i].request \in Requests
            /\ req[localCons[t][i].request].id = i

\* What serves on a tunnel that closes will be told, and has been once it is closed.
Told ==
    \A r \in Requests : req[r].at \in Serving =>
        /\ handler[req[r].tunnel] = "closing" =>
              r \in signal[req[r].tunnel] \/ edgePeerStop[r] > 0
        /\ handler[req[r].tunnel] = "closed" => edgePeerStop[r] > 0

\* The inductive invariant.
IInv == Typed /\ Numbered /\ Connected /\ Carried /\ Served /\ Told

-----------------------------------------------------------------------------
\* Sequences over a larger set; their ends.
LEMMA SeqWiden ==
  ASSUME NEW S, NEW T, S \subseteq T, NEW q \in Seq(S)
  PROVE  q \in Seq(T)
  OBVIOUS

LEMMA SeqEnds ==
  ASSUME NEW S, NEW q \in Seq(S), q # <<>>
  PROVE  Head(q) \in S /\ Tail(q) \in Seq(S)
  OBVIOUS

LEMMA SeqAppend ==
  ASSUME NEW S, NEW q \in Seq(S), NEW x \in S
  PROVE  Append(q, x) \in Seq(S)
  OBVIOUS

\* Writing to a tunnel, and closing it, leave messages that were there or written.
LEMMA WrittenKeeps ==
  ASSUME NEW S, NEW q \in [Tunnels -> Seq(S)], NEW t, NEW m \in S
  PROVE  Written(q, t, m) \in [Tunnels -> Seq(S)]
<1>1. CASE t \in Tunnels
  <2>1. Append(q[t], m) \in Seq(S)
    BY Zenon, <1>1, SeqAppend
  <2> QED BY Zenon, <2>1 DEF Written
<1>2. CASE t \notin Tunnels
  BY Zenon, <1>2 DEF Written
<1> QED BY Zenon, <1>1, <1>2

LEMMA ClosedKeeps ==
  ASSUME Carried, NEW t, Closed(t)
  PROVE  /\ down' \in [Tunnels -> Seq(Genuine \cup Closing)]
         /\ up' \in [Tunnels -> Seq(Genuine)]
<1>1. <<>> \in Seq(Genuine \cup Closing) /\ <<>> \in Seq(Genuine)
  OBVIOUS
<1> QED BY Zenon, <1>1 DEF Carried, Closed

\* Genuine messages stay genuine while no id is changed but from 0.
IdsStay == \A r \in Requests : req[r].id # 0 => req'[r].id = req[r].id

LEMMA GenuineStays == ASSUME IdsStay PROVE Genuine \subseteq Genuine'
  BY Zenon DEF IdsStay, Genuine

LEMMA CarriedStays ==
  ASSUME IdsStay,
         down' \in [Tunnels -> Seq(Genuine \cup Closing)],
         up' \in [Tunnels -> Seq(Genuine)]
  PROVE  Carried'
<1>1. Genuine \subseteq Genuine' /\ Genuine \cup Closing \subseteq (Genuine \cup Closing)'
  BY Zenon, GenuineStays DEF Closing
<1>2. \A t \in Tunnels : down'[t] \in Seq((Genuine \cup Closing)') /\ up'[t] \in Seq(Genuine')
  BY Zenon, <1>1, SeqWiden
<1> QED BY Zenon, <1>2 DEF Carried

LEMMA ServedStays == ASSUME Served, IdsStay, UNCHANGED localCons PROVE Served'
  BY DEF Served, IdsStay

\* Connections of the edge that change but for their request.
LEMMA ServedFrom ==
  ASSUME Served, UNCHANGED req,
         localCons' \in [Tunnels -> [MessageIds -> [at : {"none", "starting", "serving", "removed"},
                                                   request : Requests \cup {0}]]],
         \A u \in Tunnels, j \in MessageIds :
            localCons'[u][j].at # "none" =>
              localCons[u][j].at # "none" /\ localCons'[u][j].request = localCons[u][j].request
  PROVE  Served'
<1>1. ASSUME NEW u \in Tunnels, NEW j \in MessageIds, localCons'[u][j].at # "none"
      PROVE  /\ j # 0 /\ localCons'[u][j].request \in Requests
             /\ req'[localCons'[u][j].request].id = j
  <2>1. localCons[u][j].at # "none" /\ localCons'[u][j].request = localCons[u][j].request
    BY Zenon, <1>1
  <2> QED BY <2>1 DEF Served
<1> QED BY Zenon, <1>1 DEF Served

\* The cloud's side of the invariant when neither requests nor sessions change.
LEMMA RequestsStay ==
  ASSUME IInv, UNCHANGED <<nextMessageID, req, apiServerConn>>
  PROVE  Numbered' /\ Connected' /\ IdsStay
  BY DEF IInv, Numbered, Connected, IdsStay

-----------------------------------------------------------------------------
(* The tunnel.                                                             *)

\* In the initial states there is no request, message or connection.
LEMMA InitIInv == ASSUME MaxTunnels \in Nat, Init PROVE IInv
<1>1. Typed /\ Numbered /\ Connected /\ Told
  BY DEF Init, Typed, Numbered, Connected, Told, Tunnels, HandlerStates, RequestStates, Serving
<1>2. Carried
  BY DEF Init, Carried
<1>3. Served
  BY Zenon DEF Init, Served, NoRequest
<1> QED BY Zenon, <1>1, <1>2, <1>3 DEF IInv

\* A new tunnel has a handler that is neither closing nor closed.
LEMMA DialKeeps == ASSUME MaxTunnels \in Nat, IInv, TLSClientConnect PROVE IInv'
<1>1. UNCHANGED <<sessions, down, up, apiServerConn, signal, nextMessageID, req, edgePeerStop,
                  localCons>>
  BY Zenon DEF TLSClientConnect
<1>2. /\ dialled < MaxTunnels /\ dialled' = dialled + 1
      /\ handler' = [handler EXCEPT ![dialled + 1] = "updating"]
  BY Zenon DEF TLSClientConnect
<1>3. Typed'
  BY <1>1, <1>2 DEF IInv, Typed, Tunnels, HandlerStates
<1>4. Numbered' /\ Connected' /\ IdsStay
  BY Zenon, <1>1, RequestsStay
<1>5. Carried' /\ Served'
  BY Zenon, <1>1, <1>4, CarriedStays, ServedStays DEF IInv, Carried
<1>6. Told'
  BY Zenon, <1>1, <1>2 DEF IInv, Typed, Connected, Told, Serving
<1> QED BY Zenon, <1>3, <1>4, <1>5, <1>6 DEF IInv

\* A connection that breaks loses messages.
LEMMA BreakKeeps == ASSUME IInv, NEW t \in Tunnels, Break(t) PROVE IInv'
<1>1. UNCHANGED <<dialled, handler, sessions, apiServerConn, signal, nextMessageID, req,
                  edgePeerStop, localCons>>
  BY Zenon DEF Break
<1>2. Numbered' /\ Connected' /\ IdsStay
  BY Zenon, <1>1, RequestsStay
<1>3. Carried'
  BY Zenon, <1>2, ClosedKeeps, CarriedStays DEF IInv, Break
<1>4. Served'
  BY Zenon, <1>1, <1>2, ServedStays DEF IInv
<1>5. Typed' /\ Told'
  BY Zenon, <1>1 DEF IInv, Typed, Told
<1> QED BY Zenon, <1>2, <1>3, <1>4, <1>5 DEF IInv

\* The handler registers the session; the only message is to close.
LEMMA ConnectKeeps == ASSUME IInv, NEW t \in Tunnels, connect(t) PROVE IInv'
<1>1. UNCHANGED <<dialled, up, apiServerConn, signal, nextMessageID, req, edgePeerStop, localCons>>
  BY Zenon DEF connect, updateNodeKubeletEndpoint, addSession, ConnectFrame
<1>2. PICK h \in {"updated", "refused", "host", "serving"} : handler' = [handler EXCEPT ![t] = h]
  BY Zenon DEF connect, updateNodeKubeletEndpoint, addSession
<1>3. sessions' \in [Keys -> Tunnels \cup {0}]
  BY DEF connect, updateNodeKubeletEndpoint, addSession, IInv, Typed
<1>4. Typed'
  BY Zenon, <1>1, <1>2, <1>3 DEF IInv, Typed, HandlerStates
<1>5. Numbered' /\ Connected' /\ IdsStay
  BY Zenon, <1>1, RequestsStay
<1>6. down' \in [Tunnels -> Seq(Genuine \cup Closing)]
  <2>1. Message("close", 0, 0) \in Genuine \cup Closing
    BY Zenon DEF Message, Closing
  <2>2. down' = down \/ down' = Written(down, t, Message("close", 0, 0))
    BY Zenon DEF connect, updateNodeKubeletEndpoint, addSession
  <2>3. down \in [Tunnels -> Seq(Genuine \cup Closing)]
    BY Zenon DEF IInv, Carried
  <2>4. Written(down, t, Message("close", 0, 0)) \in [Tunnels -> Seq(Genuine \cup Closing)]
    BY Zenon, <2>1, <2>3, WrittenKeeps
  <2> QED BY Zenon, <2>2, <2>3, <2>4
<1>7. Carried' /\ Served'
  BY Zenon, <1>1, <1>5, <1>6, CarriedStays, ServedStays DEF IInv, Carried
<1>8. Told'
  BY Zenon, <1>1, <1>2 DEF IInv, Typed, Connected, Told, Serving
<1> QED BY Zenon, <1>4, <1>5, <1>7, <1>8 DEF IInv

\* The reader of a session tells the request of a message, if it is known.
LEMMA ServeKeeps == ASSUME IInv, NEW t \in Tunnels, Serve(t) PROVE IInv'
<1>1. UNCHANGED <<dialled, sessions, down, apiServerConn, nextMessageID, req, edgePeerStop,
                  localCons>>
  BY Zenon DEF Serve
<1>2. Numbered' /\ Connected' /\ IdsStay
  BY Zenon, <1>1, RequestsStay
<1>3. \/ UNCHANGED <<handler, signal>>
      \/ /\ handler' = [handler EXCEPT ![t] = "stopping"]
         /\ \E i \in DOMAIN apiServerConn[t] :
               signal' = [signal EXCEPT ![t] = {apiServerConn[t][i]}]
  BY Zenon DEF Serve
<1>4. Typed'
  BY <1>1, <1>3 DEF IInv, Typed, Connected, HandlerStates
<1>5. up' \in [Tunnels -> Seq(Genuine)]
  <2>1. Tail(up[t]) \in Seq(Genuine)
    BY Zenon, SeqEnds DEF Serve, IInv, Carried
  <2> QED BY Zenon, <2>1 DEF Serve, IInv, Carried
<1>6. Carried' /\ Served'
  BY Zenon, <1>1, <1>2, <1>5, CarriedStays, ServedStays DEF IInv, Carried
<1>7. Told'
  <2>1. handler[t] = "serving"
    BY Zenon DEF Serve
  <2> QED BY <1>1, <1>3, <2>1 DEF IInv, Typed, Connected, Told, Serving
<1> QED BY Zenon, <1>2, <1>4, <1>6, <1>7 DEF IInv

\* Close will tell all that is known to the session, hence all that serve on it.
LEMMA CloseKeeps == ASSUME IInv, NEW t \in Tunnels, Close(t) PROVE IInv'
<1>1. UNCHANGED <<dialled, sessions, down, up, apiServerConn, nextMessageID, req, edgePeerStop,
                  localCons>>
  BY Zenon DEF Close
<1>2. /\ handler' = [handler EXCEPT ![t] = "closing"]
      /\ signal' = [signal EXCEPT ![t] = {apiServerConn[t][i] : i \in DOMAIN apiServerConn[t]}]
  BY Zenon DEF Close
<1>3. Numbered' /\ Connected' /\ IdsStay
  BY Zenon, <1>1, RequestsStay
<1>4. Typed'
  BY <1>1, <1>2 DEF IInv, Typed, Connected, HandlerStates
<1>5. Carried' /\ Served'
  BY Zenon, <1>1, <1>3, CarriedStays, ServedStays DEF IInv, Carried
<1>6. Told'
  BY <1>1, <1>2 DEF IInv, Typed, Connected, Told, Serving
<1> QED BY Zenon, <1>3, <1>4, <1>5, <1>6 DEF IInv

\* The lock is released when all are told.
LEMMA UnlockKeeps == ASSUME IInv, NEW t \in Tunnels, Unlock(t) PROVE IInv'
<1>1. UNCHANGED <<dialled, sessions, apiServerConn, signal, nextMessageID, req, edgePeerStop,
                  localCons>>
  BY Zenon DEF Unlock
<1>2. Numbered' /\ Connected' /\ IdsStay
  BY Zenon, <1>1, RequestsStay
<1>3. Carried'
  <2>1. Closed(t) \/ UNCHANGED <<down, up>>
    BY Zenon DEF Unlock
  <2> QED BY Zenon, <1>2, <2>1, ClosedKeeps, CarriedStays DEF IInv, Carried
<1>4. Served'
  BY Zenon, <1>1, <1>2, ServedStays DEF IInv
<1>5. /\ signal[t] = {}
      /\ \/ handler[t] = "closing" /\ handler' = [handler EXCEPT ![t] = "closed"]
         \/ handler' = [handler EXCEPT ![t] = "serving"]
  BY Zenon DEF Unlock
<1>6. Typed'
  BY Zenon, <1>1, <1>5 DEF IInv, Typed, HandlerStates
<1>7. Told'
  BY <1>1, <1>5 DEF IInv, Typed, Connected, Told, Serving
<1> QED BY Zenon, <1>2, <1>3, <1>4, <1>6, <1>7 DEF IInv

\* What a step changes in a request, written out.
LEMMA StepRecord ==
  ASSUME Typed, NEW r \in Requests, NEW a \in RequestStates, Step(r, a)
  PROVE  req' = [req EXCEPT ![r] = [at |-> a, tunnel |-> req[r].tunnel, id |-> req[r].id]]
<1>1. [req[r] EXCEPT !.at = a] = [at |-> a, tunnel |-> req[r].tunnel, id |-> req[r].id]
  BY DEF Typed
<1> QED BY Zenon, <1>1 DEF Step

LEMMA TwoFields ==
  ASSUME NEW q \in [at : RequestStates, tunnel : Tunnels \cup {0}, id : Nat],
         NEW a \in RequestStates, NEW u \in Tunnels \cup {0}
  PROVE  [q EXCEPT !.at = a, !.tunnel = u] = [at |-> a, tunnel |-> u, id |-> q.id]
<1>1. [q EXCEPT !.at = a] = [at |-> a, tunnel |-> q.tunnel, id |-> q.id]
  OBVIOUS
<1>2. [[at |-> a, tunnel |-> q.tunnel, id |-> q.id] EXCEPT !.tunnel = u]
        = [at |-> a, tunnel |-> u, id |-> q.id]
  OBVIOUS
<1>3. [q EXCEPT !.at = a, !.tunnel = u] = [[q EXCEPT !.at = a] EXCEPT !.tunnel = u]
  BY Zenon
<1> QED BY Zenon, <1>1, <1>2, <1>3

LEMMA GetSessionRecord ==
  ASSUME Typed, NEW r \in Requests, NEW k \in Keys, getSession(r, k)
  PROVE  \E a \in {"over", "found"} :
           /\ req' = [req EXCEPT ![r] = [at |-> a, tunnel |-> sessions[k], id |-> req[r].id]]
           /\ a = "found" => sessions[k] # 0
<1> DEFINE a == IF sessions[k] = 0 THEN "over" ELSE "found"
<1>1. /\ sessions[k] \in Tunnels \cup {0}
      /\ a \in RequestStates /\ a \in {"over", "found"}
      /\ a = "found" => sessions[k] # 0
  BY Zenon DEF Typed, RequestStates
<1>2. req' = [req EXCEPT ![r].at = a, ![r].tunnel = sessions[k]]
  BY Zenon DEF getSession
<1> HIDE DEF a
<1>3. req' = [req EXCEPT ![r] = [at |-> a, tunnel |-> sessions[k], id |-> req[r].id]]
  <2>1. req[r] \in [at : RequestStates, tunnel : Tunnels \cup {0}, id : Nat]
    BY Zenon DEF Typed
  <2>2. [req[r] EXCEPT !.at = a, !.tunnel = sessions[k]]
          = [at |-> a, tunnel |-> sessions[k], id |-> req[r].id]
    BY <1>1, <2>1, TwoFields, Zenon
  <2>3. req' = [req EXCEPT ![r] = [req[r] EXCEPT !.at = a, !.tunnel = sessions[k]]]
    BY Zenon, <1>2 DEF Typed
  <2> QED BY Zenon, <2>2, <2>3
<1> QED BY Zenon, <1>1, <1>3

\* A request is told: it has ended, it ends, or it will find the signal.
LEMMA PeerDoneKeeps ==
  ASSUME IInv, NEW t \in Tunnels, NEW r \in Requests, SetEdgePeerDone(t, r)
  PROVE  IInv'
<1>1. /\ UNCHANGED <<dialled, handler, sessions, down, up, apiServerConn, nextMessageID, localCons>>
      /\ signal' = [signal EXCEPT ![t] = @ \ {r}]
  BY Zenon DEF SetEdgePeerDone
<1>2. \/ req[r].at \notin Serving /\ UNCHANGED <<req, edgePeerStop>>
      \/ /\ req[r].at = "loop" /\ UNCHANGED edgePeerStop
         /\ req' = [req EXCEPT ![r] = [at |-> "failed", tunnel |-> req[r].tunnel, id |-> req[r].id]]
      \/ edgePeerStop' = [edgePeerStop EXCEPT ![r] = @ + 1] /\ UNCHANGED req
  <2>1. ASSUME Step(r, "failed")
        PROVE  req' = [req EXCEPT ![r] = [at |-> "failed", tunnel |-> req[r].tunnel,
                                          id |-> req[r].id]]
    BY Zenon, <2>1, StepRecord DEF IInv, RequestStates
  <2> QED BY Zenon, <2>1 DEF SetEdgePeerDone, Step, closeChan, Serving
<1>3. Typed'
  BY <1>1, <1>2 DEF IInv, Typed, RequestStates
<1>4. \A s \in Requests :
        /\ req'[s].id = req[s].id /\ req'[s].tunnel = req[s].tunnel
        /\ req'[s].at \in {"new", "found"} => req[s].at \in {"new", "found"}
        /\ req'[s].at \in Serving => req[s].at \in Serving
        /\ req'[s].at \notin {"new", "over"} => req[s].at \notin {"new", "over"}
  BY <1>2 DEF IInv, Typed, Serving
<1>5. Numbered' /\ Connected' /\ IdsStay
  <2>1. Numbered' /\ IdsStay
    BY <1>1, <1>4 DEF IInv, Numbered, IdsStay
  <2>2. Connected'
    BY <1>1, <1>4 DEF IInv, Connected
  <2> QED BY Zenon, <2>1, <2>2
<1>6. Carried' /\ Served'
  BY Zenon, <1>1, <1>5, CarriedStays, ServedStays DEF IInv, Carried
<1>7. Told'
  <2>1. \A s \in Requests : req'[s].at \in Serving =>
          /\ req[s].at \in Serving /\ req'[s].tunnel = req[s].tunnel
          /\ \/ s = r /\ edgePeerStop'[s] > 0
             \/ s # r /\ edgePeerStop'[s] = edgePeerStop[s]
    BY <1>2 DEF IInv, Typed, Serving
  <2> QED BY <1>1, <2>1 DEF IInv, Typed, Connected, Told, Serving
<1> QED BY Zenon, <1>3, <1>5, <1>6, <1>7 DEF IInv

-----------------------------------------------------------------------------
(* Requests.                                                               *)

\* A request moves on: one that serves did so before, and one that is told fails.
LEMMA StepKeeps ==
  ASSUME IInv, NEW r \in Requests, NEW a \in {"failed", "over"} \cup Serving, Step(r, a),
         a \in Serving => req[r].at \in Serving,
         a # "over" => req[r].at \notin {"new", "over"},
         \/ UNCHANGED edgePeerStop
         \/ a = "failed" /\ edgePeerStop' \in [Requests -> Nat]
                /\ \A s \in Requests \ {r} : edgePeerStop'[s] = edgePeerStop[s],
         UNCHANGED <<dialled, handler, sessions, signal, apiServerConn, nextMessageID>>
  PROVE  Typed' /\ Numbered' /\ Connected' /\ Told' /\ IdsStay
<1>1. req' = [req EXCEPT ![r] = [at |-> a, tunnel |-> req[r].tunnel, id |-> req[r].id]]
  BY Zenon, StepRecord DEF IInv, RequestStates
<1>2. Typed'
  BY Zenon, <1>1 DEF IInv, Typed, RequestStates
<1>3. Numbered' /\ IdsStay
  BY Zenon, <1>1 DEF IInv, Typed, Numbered, IdsStay, Serving
<1>4. Connected'
  BY <1>1 DEF IInv, Typed, Connected, Serving
<1>5. Told'
  <2>1. \A s \in Requests : req'[s].at \in Serving =>
          /\ req[s].at \in Serving /\ req'[s].tunnel = req[s].tunnel
          /\ edgePeerStop'[s] = edgePeerStop[s]
    BY Zenon, <1>1 DEF IInv, Typed, Serving
  <2> QED BY Zenon, <2>1 DEF IInv, Told
<1> QED BY Zenon, <1>2, <1>3, <1>4, <1>5

\* A request looks for a session: it serves on none yet.
LEMMA HandlersKeep == ASSUME IInv, NEW r \in Requests, Handlers(r) PROVE IInv'
<1>1. /\ req[r].at = "new"
      /\ UNCHANGED <<dialled, handler, sessions, down, up, apiServerConn, signal, nextMessageID,
                     edgePeerStop, localCons>>
  BY Zenon DEF Handlers, getContainerLogs, getMetrics, getExec, getAttach, RequestFrame
<1>2. Step(r, "over") \/ \E k \in Keys : getSession(r, k)
  BY Zenon DEF Handlers, getContainerLogs, getMetrics, getExec, getAttach, getSessionKey, Keys
<1>3. PICK a \in {"over", "found"}, u \in Tunnels \cup {0} :
        /\ req' = [req EXCEPT ![r] = [at |-> a, tunnel |-> u, id |-> req[r].id]]
        /\ a = "found" => u # 0
  <2>1. CASE Step(r, "over")
    <3>1. req' = [req EXCEPT ![r] = [at |-> "over", tunnel |-> req[r].tunnel, id |-> req[r].id]]
      BY Zenon, <2>1, StepRecord DEF IInv, RequestStates
    <3> QED BY Zenon, <3>1 DEF IInv, Typed
  <2>2. ASSUME NEW k \in Keys, getSession(r, k)
        PROVE  \E a \in {"over", "found"}, u \in Tunnels \cup {0} :
                 /\ req' = [req EXCEPT ![r] = [at |-> a, tunnel |-> u, id |-> req[r].id]]
                 /\ a = "found" => u # 0
    <3>1. PICK a \in {"over", "found"} :
            /\ req' = [req EXCEPT ![r] = [at |-> a, tunnel |-> sessions[k], id |-> req[r].id]]
            /\ a = "found" => sessions[k] # 0
      BY Zenon, <2>2, GetSessionRecord DEF IInv
    <3>2. sessions[k] \in Tunnels \cup {0}
      BY Zenon DEF IInv, Typed
    <3> QED BY Zenon, <3>1, <3>2
  <2> QED BY Zenon, <1>2, <2>1, <2>2
<1>4. Typed'
  BY Zenon, <1>1, <1>3 DEF IInv, Typed, RequestStates
<1>5. Numbered' /\ IdsStay
  BY Zenon, <1>1, <1>3 DEF IInv, Typed, Numbered, IdsStay
<1>6. Connected'
  <2>1. req[r].id = 0
    BY Zenon, <1>1 DEF IInv, Numbered
  <2> QED BY <1>1, <1>3, <2>1 DEF IInv, Typed, Connected, Serving
<1>7. Told'
  BY Zenon, <1>1, <1>3 DEF IInv, Typed, Told, Serving
<1>8. Carried' /\ Served'
  BY Zenon, <1>1, <1>5, CarriedStays, ServedStays DEF IInv, Carried
<1> QED BY Zenon, <1>4, <1>5, <1>6, <1>7, <1>8 DEF IInv

\* A request is added under the next id, unless the tunnel is closed; the lock
\* is free, so that Close is not under way.
LEMMA AddKeeps == ASSUME IInv, NEW r \in Requests, AddAPIServerConnection(r) PROVE IInv'
<1> DEFINE t == req[r].tunnel
           n == nextMessageID + 1
<1>1. /\ req[r].at = "found" /\ Unlocked(t)
      /\ nextMessageID' = n /\ Added(r, t, n)
      /\ UNCHANGED <<dialled, handler, sessions, down, up, signal, edgePeerStop, localCons>>
  BY Zenon DEF AddAPIServerConnection
<1>2. t \in Tunnels /\ req[r].id = 0 /\ n \in Nat /\ n # 0
  BY <1>1 DEF IInv, Typed, Numbered, Connected
<1>3. CASE handler[t] = "closed"
  <2>1. /\ req' = [req EXCEPT ![r] = [at |-> "over", tunnel |-> t, id |-> 0]]
        /\ UNCHANGED apiServerConn
    BY <1>1, <1>2, <1>3 DEF Added, Step, IInv, Typed
  <2>2. Typed' /\ Numbered' /\ IdsStay
    BY <1>1, <1>2, <2>1 DEF IInv, Typed, Numbered, IdsStay, RequestStates
  <2>3. Connected' /\ Told'
    <3>1. \A s \in Requests :
            /\ req'[s].id = req[s].id /\ req'[s].tunnel = req[s].tunnel
            /\ req'[s].at \in Serving => req[s].at \in Serving
            /\ req'[s].at \notin {"new", "over"} => req[s].at \notin {"new", "over"}
      BY Zenon, <1>2, <2>1 DEF IInv, Typed, Serving
    <3>2. Connected'
      BY <2>1, <3>1 DEF IInv, Connected
    <3>3. Told'
      BY Zenon, <1>1, <3>1 DEF IInv, Told
    <3> QED BY Zenon, <3>2, <3>3
  <2>4. Carried' /\ Served'
    BY Zenon, <1>1, <2>2, CarriedStays, ServedStays DEF IInv, Carried
  <2> QED BY Zenon, <2>2, <2>3, <2>4 DEF IInv
<1>4. CASE handler[t] # "closed"
  <2>1. req' = [req EXCEPT ![r] = [at |-> "added", tunnel |-> t, id |-> n]]
    BY <1>1, <1>2, <1>4 DEF Added, IInv, Typed
  <2>2. apiServerConn' = [apiServerConn EXCEPT ![t] =
          [i \in DOMAIN apiServerConn[t] \cup {n} |-> IF i = n THEN r ELSE apiServerConn[t][i]]]
    BY Zenon, <1>1, <1>4 DEF Added
  <2>3. Typed'
    BY Zenon, <1>1, <1>2, <2>1, <2>2 DEF IInv, Typed, RequestStates, Serving
  <2>4. Numbered' /\ IdsStay
    BY <1>1, <1>2, <2>1 DEF IInv, Typed, Numbered, IdsStay
  <2>5. \A s \in Requests : req[s].id # n
    BY <1>2 DEF IInv, Typed, Numbered
  <2>6. Connected'
    <3>1. /\ req'[r].at = "added" /\ req'[r].tunnel = t /\ req'[r].id = n
          /\ \A s \in Requests \ {r} : req'[s] = req[s]
      BY Zenon, <1>2, <2>1 DEF IInv, Typed
    <3>2. /\ DOMAIN apiServerConn'[t] = DOMAIN apiServerConn[t] \cup {n}
          /\ apiServerConn'[t][n] = r
          /\ \A i \in DOMAIN apiServerConn[t] \ {n} : apiServerConn'[t][i] = apiServerConn[t][i]
          /\ \A u \in Tunnels \ {t} : apiServerConn'[u] = apiServerConn[u]
      BY Zenon, <1>2, <2>2 DEF IInv, Typed
    <3> HIDE DEF t, n
    <3>3. \A u \in Tunnels : \A i \in DOMAIN apiServerConn[u] : apiServerConn[u][i] # r
      BY <1>2 DEF IInv, Connected
    <3>4. \A u \in Tunnels : \A i \in DOMAIN apiServerConn'[u] :
            /\ i # 0 /\ apiServerConn'[u][i] \in Requests
            /\ req'[apiServerConn'[u][i]].id = i
      BY <1>2, <3>1, <3>2, <3>3 DEF IInv, Connected
    <3>5. \A s \in Requests :
            /\ req'[s].at \notin {"new", "over"} => req'[s].tunnel \in Tunnels
            /\ req'[s].at \in Serving =>
                  /\ req'[s].id # 0
                  /\ req'[s].id \in DOMAIN apiServerConn'[req'[s].tunnel]
                  /\ apiServerConn'[req'[s].tunnel][req'[s].id] = s
      <4>1. ASSUME NEW s \in Requests \ {r}, req[s].at \in Serving
            PROVE  /\ req[s].id # n /\ req[s].tunnel \in Tunnels
                   /\ req[s].id \in DOMAIN apiServerConn'[req[s].tunnel]
                   /\ apiServerConn'[req[s].tunnel][req[s].id] = s
        <5>1. req[s].id # n /\ req[s].tunnel \in Tunnels
          BY Zenon, <2>5, <4>1 DEF IInv, Connected, Serving
        <5> QED BY <3>2, <4>1, <5>1 DEF IInv, Connected
      <4> QED BY <1>2, <3>1, <3>2, <4>1 DEF IInv, Connected
    <3> QED BY Zenon, <3>4, <3>5 DEF Connected
  <2>7. Told'
    BY Zenon, <1>1, <1>2, <1>4, <2>1 DEF IInv, Typed, Told, Unlocked
  <2>8. Carried' /\ Served'
    BY Zenon, <1>1, <2>4, CarriedStays, ServedStays DEF IInv, Carried
  <2> QED BY Zenon, <2>3, <2>4, <2>6, <2>7, <2>8 DEF IInv
<1> QED BY Zenon, <1>3, <1>4

\* The message a request sends to the edge carries its id.
LEMMA SendKeeps ==
  ASSUME IInv, NEW r \in Requests, NEW type \in {"connect", "remove"}, req[r].id # 0, IdsStay,
         down' = Written(down, req[r].tunnel, Message(type, req[r].id, r)),
         UNCHANGED <<up, localCons>>
  PROVE  Carried' /\ Served'
<1>1. Message(type, req[r].id, r) \in Genuine \cup Closing
  BY Zenon DEF Message, Genuine, IInv, Typed
<1>2. down \in [Tunnels -> Seq(Genuine \cup Closing)]
  BY Zenon DEF IInv, Carried
<1>3. down' \in [Tunnels -> Seq(Genuine \cup Closing)]
  BY Zenon, <1>1, <1>2, WrittenKeeps
<1> QED BY Zenon, <1>3, CarriedStays, ServedStays DEF IInv, Carried

\* Serve begins: the edge is told, or the request fails.
LEMMA SendConnectionKeeps == ASSUME IInv, NEW r \in Requests, SendConnection(r) PROVE IInv'
<1> DEFINE a == IF req[r].tunnel \in broken THEN "failed" ELSE "loop"
<1>1. req[r].at = "added" /\ Step(r, a)
  BY Zenon DEF SendConnection
<1>2. UNCHANGED <<dialled, handler, sessions, up, apiServerConn, signal, nextMessageID,
                  edgePeerStop, localCons>>
  BY Zenon DEF SendConnection
<1>3. /\ a \in {"failed", "over"} \cup Serving /\ a # "over"
      /\ req[r].at \in Serving /\ req[r].at \notin {"new", "over"}
  BY Zenon, <1>1 DEF Serving
<1> HIDE DEF a
<1>4. Typed' /\ Numbered' /\ Connected' /\ Told' /\ IdsStay
  BY Zenon, <1>1, <1>2, <1>3, StepKeeps
<1>5. Carried' /\ Served'
  <2>1. req[r].id # 0
    BY Zenon, <1>3 DEF IInv, Connected
  <2>2. down' = Written(down, req[r].tunnel, Message("connect", req[r].id, r))
    BY Zenon DEF SendConnection
  <2> QED BY Zenon, <1>2, <1>4, <2>1, <2>2, SendKeeps
<1> QED BY Zenon, <1>4, <1>5 DEF IInv

\* The client leaves, which is noted; or it sends, and the loop goes on.
LEMMA ClientKeeps ==
  ASSUME IInv, NEW r \in Requests, ClientLeaves(r) \/ ClientSends(r)
  PROVE  IInv'
<1>1. UNCHANGED <<dialled, handler, sessions, down, up, apiServerConn, signal, nextMessageID,
                  edgePeerStop, localCons>>
  BY Zenon DEF ClientLeaves, ClientSends
<1>2. Typed' /\ Numbered' /\ Connected' /\ Told' /\ IdsStay
  <2>1. CASE ClientLeaves(r)
    <3>1. UNCHANGED req
      BY Zenon, <2>1 DEF ClientLeaves
    <3>2. Typed' /\ Told'
      BY Zenon, <1>1, <3>1 DEF IInv, Typed, Told
    <3> QED BY Zenon, <1>1, <3>1, <3>2, RequestsStay
  <2>2. CASE ClientSends(r)
    <3>1. /\ Step(r, "loop") /\ "loop" \in {"failed", "over"} \cup Serving
          /\ req[r].at \in Serving /\ req[r].at \notin {"new", "over"}
      BY Zenon, <2>2 DEF ClientSends, Serving
    <3> QED BY Zenon, <1>1, <3>1, StepKeeps
  <2> QED BY Zenon, <2>1, <2>2
<1>3. Carried' /\ Served'
  BY Zenon, <1>1, <1>2, CarriedStays, ServedStays DEF IInv, Carried
<1> QED BY Zenon, <1>2, <1>3 DEF IInv

\* What a step of a loop of Serve does: the request moves on, a signal is
\* taken only by one that fails, and the edge is told or not.
Looped(r) ==
    /\ ServeFrame /\ req[r].at \in Serving
    /\ \E a \in {"failed", "over", "loop", "reading"} :
          /\ Step(r, a)
          /\ \/ UNCHANGED edgePeerStop
             \/ /\ a = "failed" /\ edgePeerStop[r] > 0
                /\ edgePeerStop' = [edgePeerStop EXCEPT ![r] = @ - 1]
    /\ \/ UNCHANGED down
       \/ down' = Written(down, req[r].tunnel, Message("remove", req[r].id, r))

LEMMA LoopsAreLooped ==
  ASSUME NEW r \in Requests, ServeLogs(r) \/ ServeMetrics(r) \/ ServeExec(r) \/ ServeAttach(r)
  PROVE  Looped(r)
<1>1. ASSUME ContextDone(r) PROVE Looped(r)
  BY Zenon, <1>1 DEF ContextDone, sendCloseMessage, Looped, Serving
<1>2. CASE ReadLoop(r)
  <2>1. CASE ContextDone(r)
    BY Zenon, <1>1, <2>1
  <2>2. CASE /\ req[r].at = "loop" /\ edgePeerStop[r] > 0
             /\ Step(r, "failed")
             /\ edgePeerStop' = [edgePeerStop EXCEPT ![r] = @ - 1]
             /\ UNCHANGED down /\ ServeFrame
    BY Zenon, <2>2 DEF Looped, Serving
  <2>3. CASE /\ req[r].at = "loop" /\ edgePeerStop[r] = 0
             /\ Step(r, "reading")
             /\ UNCHANGED <<down, edgePeerStop>> /\ ServeFrame
    BY Zenon, <2>3 DEF Looped, Serving
  <2>4. CASE /\ req[r].at = "reading" /\ r \in gone /\ sendCloseMessage(r)
             /\ Step(r, "loop")
             /\ UNCHANGED edgePeerStop /\ ServeFrame
    BY Zenon, <2>4 DEF sendCloseMessage, Looped, Serving
  <2> QED BY Zenon, <1>2, <2>1, <2>2, <2>3, <2>4 DEF ReadLoop
<1> QED BY Zenon, <1>1, <1>2 DEF ServeLogs, ServeMetrics, ServeExec, ServeAttach

LEMMA LoopKeeps == ASSUME IInv, NEW r \in Requests, Looped(r) PROVE IInv'
<1>1. UNCHANGED <<dialled, handler, sessions, up, apiServerConn, signal, nextMessageID, localCons>>
  BY Zenon DEF Looped, ServeFrame
<1>2. req[r].at \in Serving /\ req[r].at \notin {"new", "over"} /\ req[r].id # 0
  BY Zenon DEF Looped, Serving, IInv, Connected
<1>3. PICK a \in {"failed", "over", "loop", "reading"} :
        /\ Step(r, a)
        /\ \/ UNCHANGED edgePeerStop
           \/ /\ a = "failed" /\ edgePeerStop[r] > 0
              /\ edgePeerStop' = [edgePeerStop EXCEPT ![r] = @ - 1]
  BY Zenon DEF Looped
<1>4. \/ UNCHANGED edgePeerStop
      \/ /\ a = "failed" /\ edgePeerStop' \in [Requests -> Nat]
         /\ \A s \in Requests \ {r} : edgePeerStop'[s] = edgePeerStop[s]
  BY <1>3 DEF IInv, Typed
<1>5. a \in {"failed", "over"} \cup Serving
  BY Zenon DEF Serving
<1>6. Typed' /\ Numbered' /\ Connected' /\ Told' /\ IdsStay
  BY Zenon, <1>1, <1>2, <1>3, <1>4, <1>5, StepKeeps
<1>7. Carried' /\ Served'
  <2>1. CASE UNCHANGED down
    BY Zenon, <1>1, <1>6, <2>1, CarriedStays, ServedStays DEF IInv, Carried
  <2>2. CASE down' = Written(down, req[r].tunnel, Message("remove", req[r].id, r))
    BY Zenon, <1>1, <1>2, <1>6, <2>2, SendKeeps
  <2> QED BY Zenon, <2>1, <2>2 DEF Looped
<1> QED BY Zenon, <1>6, <1>7 DEF IInv

\* A request that failed is deleted under its id, which no other has.
LEMMA DeleteKeeps == ASSUME IInv, NEW r \in Requests, DeleteAPIServerConnection(r) PROVE IInv'
<1> DEFINE t == req[r].tunnel
<1>1. /\ req[r].at = "failed" /\ Step(r, "over")
      /\ apiServerConn' = [apiServerConn EXCEPT ![t] =
            [i \in DOMAIN apiServerConn[t] \ {req[r].id} |-> apiServerConn[t][i]]]
      /\ UNCHANGED <<dialled, handler, sessions, down, up, signal, nextMessageID, edgePeerStop,
                     localCons>>
  BY Zenon DEF DeleteAPIServerConnection
<1>2. req' = [req EXCEPT ![r] = [at |-> "over", tunnel |-> t, id |-> req[r].id]]
  BY Zenon, <1>1, StepRecord DEF IInv, RequestStates
<1>3. t \in Tunnels
  BY Zenon, <1>1 DEF IInv, Connected
<1>4. Typed'
  BY Zenon, <1>1, <1>2 DEF IInv, Typed, RequestStates
<1>5. Numbered' /\ IdsStay
  BY Zenon, <1>1, <1>2 DEF IInv, Typed, Numbered, IdsStay
<1>6. Connected'
  <2>1. \A s \in Requests : s # r /\ req[s].at \in Serving => req[s].id # req[r].id
    BY Zenon DEF IInv, Numbered, Connected
  <2>2. /\ req'[r].at = "over" /\ req'[r].id = req[r].id
        /\ \A s \in Requests \ {r} : req'[s] = req[s]
    BY Zenon, <1>2 DEF IInv, Typed
  <2>3. /\ DOMAIN apiServerConn'[t] = DOMAIN apiServerConn[t] \ {req[r].id}
        /\ \A i \in DOMAIN apiServerConn[t] \ {req[r].id} :
              apiServerConn'[t][i] = apiServerConn[t][i]
        /\ \A u \in Tunnels \ {t} : apiServerConn'[u] = apiServerConn[u]
    BY Zenon, <1>1, <1>3 DEF IInv, Typed
  <2> HIDE DEF t
  <2>4. \A u \in Tunnels : \A i \in DOMAIN apiServerConn'[u] :
          i \in DOMAIN apiServerConn[u] /\ apiServerConn'[u][i] = apiServerConn[u][i]
    BY Zenon, <2>3
  <2>5. \A u \in Tunnels : \A i \in DOMAIN apiServerConn'[u] :
          /\ i # 0 /\ apiServerConn'[u][i] \in Requests
          /\ req'[apiServerConn'[u][i]].id = i
    BY <2>2, <2>4 DEF IInv, Connected
  <2>6. ASSUME NEW s \in Requests, s # r, req[s].at \in Serving
        PROVE  /\ req[s].id # 0
               /\ req[s].id \in DOMAIN apiServerConn'[req[s].tunnel]
               /\ apiServerConn'[req[s].tunnel][req[s].id] = s
    <3>1. req[s].tunnel \in Tunnels /\ req[s].id # req[r].id
      BY Zenon, <2>1, <2>6 DEF IInv, Connected, Serving
    <3>2. /\ req[s].id # 0 /\ req[s].id \in DOMAIN apiServerConn[req[s].tunnel]
          /\ apiServerConn[req[s].tunnel][req[s].id] = s
      BY Zenon, <2>6 DEF IInv, Connected
    <3>3. CASE req[s].tunnel = t
      BY Zenon, <2>3, <3>1, <3>2, <3>3
    <3>4. CASE req[s].tunnel # t
      BY Zenon, <2>3, <3>1, <3>2, <3>4
    <3> QED BY Zenon, <3>3, <3>4
  <2>7. \A s \in Requests :
          /\ req'[s].at \notin {"new", "over"} => req'[s].tunnel \in Tunnels
          /\ req'[s].at \in Serving =>
                /\ req'[s].id # 0
                /\ req'[s].id \in DOMAIN apiServerConn'[req'[s].tunnel]
                /\ apiServerConn'[req'[s].tunnel][req'[s].id] = s
    <3> SUFFICES ASSUME NEW s \in Requests, s # r
                 PROVE  /\ req[s].at \notin {"new", "over"} => req[s].tunnel \in Tunnels
                        /\ req[s].at \in Serving =>
                              /\ req[s].id # 0
                              /\ req[s].id \in DOMAIN apiServerConn'[req[s].tunnel]
                              /\ apiServerConn'[req[s].tunnel][req[s].id] = s
      BY Zenon, <2>2 DEF Serving
    <3> QED BY Zenon, <2>6 DEF IInv, Connected
  <2> QED BY Zenon, <2>5, <2>7 DEF Connected
<1>7. Told'
  BY Zenon, <1>1, <1>2 DEF IInv, Typed, Told, Serving
<1>8. Carried' /\ Served'
  BY Zenon, <1>1, <1>5, CarriedStays, ServedStays DEF IInv, Carried
<1> QED BY Zenon, <1>4, <1>5, <1>6, <1>7, <1>8 DEF IInv

-----------------------------------------------------------------------------
(* The edge.                                                               *)

\* Steps of the edge change messages and its connections only.
LEMMA EdgeFrame ==
  ASSUME IInv,
         UNCHANGED <<dialled, handler, sessions, apiServerConn, signal, nextMessageID, req,
                     edgePeerStop>>
  PROVE  Typed' /\ Numbered' /\ Connected' /\ Told' /\ IdsStay
<1>1. Typed' /\ Told'
  BY Zenon DEF IInv, Typed, Told
<1> QED BY Zenon, <1>1, RequestsStay

\* The edge opens a connection for a message, under the id it carries.
LEMMA EdgeServeKeeps == ASSUME MaxTunnels \in Nat, IInv, EdgeServe PROVE IInv'
<1> DEFINE t == dialled
           m == Head(down[t])
<1>1. Typed' /\ Numbered' /\ Connected' /\ Told' /\ IdsStay
  BY Zenon, EdgeFrame DEF EdgeServe
<1>2. t \in Tunnels /\ down[t] # <<>>
  <2>1. dialled > 0 /\ down[dialled] # <<>>
    BY Zenon DEF EdgeServe
  <2>2. dialled \in 1..MaxTunnels
    BY <2>1 DEF IInv, Typed
  <2> QED BY Zenon, <2>1, <2>2 DEF Tunnels
<1>3. m \in Genuine \cup Closing /\ Tail(down[t]) \in Seq(Genuine \cup Closing)
  BY Zenon, <1>2, SeqEnds DEF IInv, Carried
<1>4. CASE m.type = "close"
  BY Zenon, <1>1, <1>4, ClosedKeeps, CarriedStays, ServedStays DEF EdgeServe, IInv
<1>5. CASE m.type # "close"
  <2>1. /\ down' = [down EXCEPT ![t] = Tail(@)] /\ UNCHANGED up
        /\ localCons' = IF m.type = "connect"
                        THEN [localCons EXCEPT ![t][m.id] = [at |-> "starting", request |-> m.request]]
                        ELSE IF localCons[t][m.id].at = "serving"
                        THEN [localCons EXCEPT ![t][m.id].at = "removed"]
                        ELSE localCons
    BY Zenon, <1>5 DEF EdgeServe
  <2>2. Carried'
    BY Zenon, <1>1, <1>3, <2>1, CarriedStays DEF IInv, Carried
  <2>3. m.request \in Requests /\ m.id # 0 /\ req[m.request].id = m.id
    BY Zenon, <1>3, <1>5 DEF Genuine, Closing
  <2>4. req' = req
    BY Zenon DEF EdgeServe
  <2> HIDE DEF m, t
  <2>5. Served'
    <3>1. CASE m.type = "connect"
      BY Zenon, <1>2, <2>1, <2>3, <2>4, <3>1 DEF IInv, Served
    <3>2. CASE m.type # "connect" /\ localCons[t][m.id].at = "serving"
      <4>1. localCons' = [localCons EXCEPT ![t] = [localCons[t] EXCEPT ![m.id] =
                            [localCons[t][m.id] EXCEPT !.at = "removed"]]]
        BY Zenon, <2>1, <3>2
      <4>2. CASE m.id \in MessageIds
        <5>1. PICK i \in MessageIds : i = m.id
          BY Zenon, <4>2
        <5>2. [localCons[t][i] EXCEPT !.at = "removed"]
                = [at |-> "removed", request |-> localCons[t][i].request]
          BY <1>2 DEF IInv, Served
        <5>3. localCons' = [localCons EXCEPT ![t] = [localCons[t] EXCEPT ![i] =
                              [at |-> "removed", request |-> localCons[t][i].request]]]
          BY Zenon, <4>1, <5>1, <5>2
        <5>4. localCons[t][i].at # "none"
          BY Zenon, <3>2, <5>1
        <5>5. /\ localCons'[t][i] = [at |-> "removed", request |-> localCons[t][i].request]
              /\ \A u \in Tunnels, j \in MessageIds :
                    u # t \/ j # i => localCons'[u][j] = localCons[u][j]
          BY Zenon, <1>2, <5>3 DEF IInv, Served
        <5>6. localCons' \in [Tunnels -> [MessageIds ->
                               [at : {"none", "starting", "serving", "removed"},
                                request : Requests \cup {0}]]]
          BY <1>2, <5>3 DEF IInv, Served
        <5>7. ASSUME NEW u \in Tunnels, NEW j \in MessageIds, localCons'[u][j].at # "none"
              PROVE  /\ localCons[u][j].at # "none"
                     /\ localCons'[u][j].request = localCons[u][j].request
          BY <5>4, <5>5, <5>7
        <5> QED BY Zenon, <2>4, <5>6, <5>7, ServedFrom DEF IInv
      <4>3. CASE m.id \notin MessageIds
        <5> DEFINE c == [localCons[t][m.id] EXCEPT !.at = "removed"]
        <5> HIDE DEF c
        <5>1. localCons' = [localCons EXCEPT ![t] = [localCons[t] EXCEPT ![m.id] = c]]
          BY Zenon, <4>1 DEF c
        <5>2. [localCons[t] EXCEPT ![m.id] = c] = localCons[t]
          BY Zenon, <1>2, <4>3 DEF IInv, Served
        <5>3. localCons' = localCons
          BY <5>1, <5>2 DEF IInv, Served
        <5> QED BY Zenon, <1>1, <5>3, ServedStays DEF IInv
      <4> QED BY Zenon, <4>2, <4>3
    <3>3. CASE m.type # "connect" /\ localCons[t][m.id].at # "serving"
      BY Zenon, <1>1, <2>1, <3>3, ServedStays DEF IInv
    <3> QED BY Zenon, <3>1, <3>2, <3>3
  <2> QED BY Zenon, <1>1, <2>2, <2>5 DEF IInv
<1> QED BY Zenon, <1>4, <1>5

\* A connection of the edge is added.
LEMMA AddLocalKeeps ==
  ASSUME IInv, NEW t \in Tunnels, NEW i \in MessageIds, AddLocalConnection(t, i)
  PROVE  IInv'
<1>1. Typed' /\ Numbered' /\ Connected' /\ Told' /\ IdsStay
  BY Zenon, EdgeFrame DEF AddLocalConnection
<1>2. Carried'
  BY Zenon, <1>1, CarriedStays DEF AddLocalConnection, IInv, Carried
<1>3. [localCons[t][i] EXCEPT !.at = "serving"]
        = [at |-> "serving", request |-> localCons[t][i].request]
  BY DEF IInv, Served
<1>4. Served'
  <2>1. /\ localCons' = [localCons EXCEPT ![t][i] = [at |-> "serving",
                                                     request |-> localCons[t][i].request]]
        /\ localCons[t][i].at # "none" /\ UNCHANGED req
    BY Zenon, <1>3 DEF AddLocalConnection
  <2>2. localCons' \in [Tunnels -> [MessageIds -> [at : {"none", "starting", "serving", "removed"},
                                                   request : Requests \cup {0}]]]
    BY Zenon, <2>1 DEF IInv, Served
  <2>3. ASSUME NEW u \in Tunnels, NEW j \in MessageIds, localCons'[u][j].at # "none"
        PROVE  localCons[u][j].at # "none" /\ localCons'[u][j].request = localCons[u][j].request
    BY Zenon, <2>1, <2>3 DEF IInv, Served
  <2> QED BY Zenon, <2>1, <2>2, <2>3, ServedFrom DEF IInv
<1> QED BY Zenon, <1>1, <1>2, <1>4 DEF IInv

\* What a connection of the edge sends carries its id.
LEMMA ReplyKeeps ==
  ASSUME IInv, NEW t \in Tunnels, NEW i \in MessageIds, NEW type \in {"data", "remove"},
         localCons[t][i].at # "none"
  PROVE  Written(up, t, Message(type, i, localCons[t][i].request)) \in [Tunnels -> Seq(Genuine)]
<1>1. Message(type, i, localCons[t][i].request) \in Genuine
  BY DEF Message, Genuine, IInv, Typed, Served
<1>2. up \in [Tunnels -> Seq(Genuine)]
  BY Zenon DEF IInv, Carried
<1> QED BY Zenon, <1>1, <1>2, WrittenKeeps

LEMMA EdgeDataKeeps ==
  ASSUME IInv, NEW t \in Tunnels, NEW i \in MessageIds, EdgeData(t, i)
  PROVE  IInv'
<1>1. Typed' /\ Numbered' /\ Connected' /\ Told' /\ IdsStay
  BY Zenon, EdgeFrame DEF EdgeData
<1>2. up' \in [Tunnels -> Seq(Genuine)]
  BY Zenon, ReplyKeeps DEF EdgeData
<1>3. Carried' /\ Served'
  BY Zenon, <1>1, <1>2, CarriedStays, ServedStays DEF EdgeData, IInv, Carried
<1> QED BY Zenon, <1>1, <1>3 DEF IInv

LEMMA DeleteLocalKeeps ==
  ASSUME IInv, NEW t \in Tunnels, NEW i \in MessageIds, DeleteLocalConnection(t, i)
  PROVE  IInv'
<1>1. Typed' /\ Numbered' /\ Connected' /\ Told' /\ IdsStay
  BY Zenon, EdgeFrame DEF DeleteLocalConnection
<1>2. up' \in [Tunnels -> Seq(Genuine)]
  BY Zenon, ReplyKeeps DEF DeleteLocalConnection
<1>3. Carried'
  BY Zenon, <1>1, <1>2, CarriedStays DEF DeleteLocalConnection, IInv, Carried
<1>4. Served'
  <2>1. localCons' = [localCons EXCEPT ![t][i] = [at |-> "none", request |-> 0]] /\ UNCHANGED req
    BY Zenon DEF DeleteLocalConnection, NoRequest
  <2>2. localCons' \in [Tunnels -> [MessageIds -> [at : {"none", "starting", "serving", "removed"},
                                                   request : Requests \cup {0}]]]
    BY Zenon, <2>1 DEF IInv, Served
  <2>3. ASSUME NEW u \in Tunnels, NEW j \in MessageIds, localCons'[u][j].at # "none"
        PROVE  localCons[u][j].at # "none" /\ localCons'[u][j].request = localCons[u][j].request
    BY Zenon, <2>1, <2>3 DEF IInv, Served
  <2> QED BY Zenon, <2>1, <2>2, <2>3, ServedFrom DEF IInv
<1> QED BY Zenon, <1>1, <1>3, <1>4 DEF IInv

-----------------------------------------------------------------------------
\* Every step keeps the invariant.
LEMMA NextIInv == ASSUME MaxTunnels \in Nat PROVE IInv /\ [Next]_vars => IInv'
<1> SUFFICES ASSUME IInv, [Next]_vars PROVE IInv'
  BY Zenon
<1>1. CASE UNCHANGED vars
  <2>1. Typed' /\ Numbered' /\ Connected' /\ Told' /\ IdsStay
    BY Zenon, <1>1, EdgeFrame DEF vars
  <2> QED BY Zenon, <1>1, <2>1, CarriedStays, ServedStays DEF vars, IInv, Carried
<1>2. CASE TLSClientConnect
  BY Zenon, <1>2, DialKeeps
<1>3. CASE EdgeServe
  BY Zenon, <1>3, EdgeServeKeeps
<1>4. CASE EdgeClose
  <2>1. Typed' /\ Numbered' /\ Connected' /\ Told' /\ IdsStay
    BY Zenon, <1>4, EdgeFrame DEF EdgeClose
  <2> QED BY Zenon, <1>4, <2>1, CarriedStays, ServedStays DEF EdgeClose, IInv, Carried
<1>5. ASSUME NEW t \in Tunnels, Break(t) \/ CloudSteps(t) PROVE IInv'
  <2>1. ASSUME NEW r \in Requests, SetEdgePeerDone(t, r) PROVE IInv'
    BY Zenon, <2>1, PeerDoneKeeps
  <2> QED BY Zenon, <1>5, <2>1, BreakKeeps, ConnectKeeps, ServeKeeps, CloseKeeps, UnlockKeeps
     DEF CloudSteps
<1>6. ASSUME NEW r \in Requests,
             Handlers(r) \/ ClientLeaves(r) \/ ClientSends(r) \/ RequestSteps(r)
      PROVE  IInv'
  <2>1. CASE Handlers(r) \/ ClientLeaves(r) \/ ClientSends(r)
    BY Zenon, <2>1, HandlersKeep, ClientKeeps
  <2>2. CASE RequestSteps(r)
    BY Zenon, <2>2, AddKeeps, SendConnectionKeeps, DeleteKeeps, LoopsAreLooped, LoopKeeps
       DEF RequestSteps
  <2> QED BY Zenon, <1>6, <2>1, <2>2
<1>7. ASSUME NEW t \in Tunnels, NEW i \in MessageIds,
             AddLocalConnection(t, i) \/ EdgeData(t, i) \/ DeleteLocalConnection(t, i)
      PROVE  IInv'
  BY Zenon, <1>7, AddLocalKeeps, EdgeDataKeeps, DeleteLocalKeeps
<1> QED BY Zenon, <1>1, <1>2, <1>3, <1>4, <1>5, <1>6, <1>7 DEF Next

\* A message of an edge connection finds the request that opened it, or none:
\* an id is never used again, whatever tunnels break and whatever requests come.
THEOREM PeersAreOwn == ASSUME MaxTunnels \in Nat PROVE Spec => []OwnPeer
<1>1. IInv => OwnPeer
  <2> SUFFICES ASSUME IInv, NEW t \in Tunnels, NEW i \in DOMAIN up[t],
                      up[t][i].id \in DOMAIN apiServerConn[t]
               PROVE  apiServerConn[t][up[t][i].id] = up[t][i].request
    BY Zenon DEF OwnPeer
  <2>1. up[t][i] \in Genuine
    BY DEF IInv, Carried
  <2>2. /\ up[t][i].id # 0 /\ up[t][i].request \in Requests
        /\ req[up[t][i].request].id = up[t][i].id
    BY Zenon, <2>1 DEF Genuine
  <2>3. PICK s \in Requests : s = apiServerConn[t][up[t][i].id] /\ req[s].id = up[t][i].id
    BY DEF IInv, Connected
  <2> QED BY Zenon, <2>2, <2>3 DEF IInv, Numbered
<1>2. Init => IInv
  BY Zenon, InitIInv
<1> QED BY <1>1, <1>2, NextIInv, PTL DEF Spec

\* Once a tunnel is closed every request that still serves on it has been
\* told, also one that was added while the tunnel broke.
THEOREM NobodyIsOrphaned == ASSUME MaxTunnels \in Nat PROVE Spec => []NoneOrphaned
<1>1. IInv => NoneOrphaned
  BY Zenon DEF IInv, Told, Serving, NoneOrphaned
<1>2. Init => IInv
  BY Zenon, InitIInv
<1> QED BY <1>1, <1>2, NextIInv, PTL DEF Spec
=============================================================================
