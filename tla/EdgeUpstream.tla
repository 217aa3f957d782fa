------------------------------ MODULE EdgeUpstream ------------------------------
(***************************************************************************)
(* What an edge node writes to the API server through the cloud: the state *)
(* of a pod, of its lease and of its node object.                          *)
(*                                                                         *)
(* The clients of edged (metamanager/client) send one request at a time    *)
(* and wait for its answer (SendSync), send it again when it is late and   *)
(* give up in the end.  MetaManager answers most updates itself and only   *)
(* forwards them.  In the cloud dispatchMessage sorts the requests into    *)
(* one channel per kind, from which several workers serve them, with one   *)
(* call of the API server or two.                                          *)
(*                                                                         *)
(* There is one pod name; the pods that have had it are told apart by      *)
(* their uid.  How far a pod has run (its status) is a number; at          *)
(* MaxStatus its containers are terminated.                                *)
(***************************************************************************)
EXTENDS Naturals, Sequences, FiniteSets

CONSTANTS
    None,
    Workers,        \* workers per channel (config.Load)
    MaxUids,        \* bound: pods of the name
    MaxStatus,      \* bound: how far a pod runs
    MaxTries,       \* SendSync tries a message three times
    MaxRequests,    \* bound: requests, after which a client sends no more
    MaxTimeouts,    \* bound: answers that are late
    MaxForeign,     \* bound: changes of the node by others
    ClientSets      \* bound: which clients call in one behaviour

VARIABLES
    pod, lease, node,   \* objects in the API server, or None
    rv,                 \* the last resource version given
    leaseLister,        \* the lease in the informer's cache
    uids,               \* pods created so far
    callers,            \* the clients that call
    client,             \* the request a client waits for, if any
    requests, timeouts, foreign,
    up,                 \* requests on their way to dispatchMessage
    chan,               \* the channels of UpstreamController
    jobs,               \* what the workers are doing
    down,               \* answers and deletions on their way to the edge
    local,              \* the pod the node runs
    db,                 \* the row of the pod in the edge database
    known,              \* the lease the kubelet knows, if it knows
    \* history
    ran,                \* how far each pod has run on the node
    ackedLease          \* the last renewal that was answered with success

vars == <<pod, lease, node, rv, leaseLister, uids, callers, client, requests, timeouts, foreign,
          up, chan, jobs, down, local, db, known, ran, ackedLease>>

api == <<pod, lease, node, rv>>
edge == <<local, db, known, ran, ackedLease>>
sent == <<callers, client, requests, timeouts, up>>

Clients == {"pod", "lease", "node"}
PodKinds == {"podStatus", "podPatch", "podDelete", "podCreate"}
NodeKinds == {"nodeCreate", "nodePatch", "nodeUpdate", "nodeStatus"}
LeaseKinds == {"leaseCreate", "leaseUpdate", "leaseQuery"}

ClientOf(kind) == IF kind \in PodKinds THEN "pod" ELSE IF kind \in NodeKinds THEN "node" ELSE "lease"

\* The channel of a kind of message: createLeaseChan serves insertions and updates.
ChanOf(kind) == IF kind = "leaseCreate" THEN "leaseUpdate" ELSE kind
Chans == (PodKinds \cup NodeKinds \cup LeaseKinds) \ {"leaseCreate"}

Waiting(c) == client[c] # None

\* The body of a message, and the lease that is not there.
NoBody == [uid |-> 0, st |-> 0, rv |-> 0, renew |-> 0]
NoLease == [rv |-> 0, renew |-> 0]

-----------------------------------------------------------------------------
(* The clients of edged.                                                   *)

Request(kind, body) ==
    /\ requests < MaxRequests[ClientOf(kind)]
    /\ ClientOf(kind) \in callers
    /\ ~Waiting(ClientOf(kind))
    /\ requests' = requests + 1
    /\ up' = Append(up, [id |-> requests + 1, try |-> 1, kind |-> kind, body |-> body])

\* SendSync: the caller waits for the answer.
SendSync(kind, body) ==
    /\ Request(kind, body)
    /\ client' = [client EXCEPT ![ClientOf(kind)] =
                    [id |-> requests + 1, try |-> 1, kind |-> kind, body |-> body]]
    /\ UNCHANGED <<callers, timeouts>>

\* metaManager.processUpdate answers OK itself and forwards the message.
SendUpdate(kind, body) ==
    /\ Request(kind, body)
    /\ UNCHANGED <<callers, client, timeouts>>

\* The answer is late: SendSync sends the same message again or returns the error.
Late(c) ==
    /\ Waiting(c)
    /\ timeouts < MaxTimeouts
    /\ timeouts' = timeouts + 1
    /\ LET again == [client[c] EXCEPT !.try = @ + 1]
       IN  \/ /\ client[c].try < MaxTries
              /\ client' = [client EXCEPT ![c] = again]
              /\ up' = Append(up, again)
              /\ known' = known
           \/ /\ client' = [client EXCEPT ![c] = None]
              /\ up' = up
              /\ known' = IF c = "lease" THEN None ELSE known
    /\ UNCHANGED <<api, leaseLister, uids, callers, requests, foreign, chan, jobs, down,
                   local, db, ran, ackedLease>>

PodBody == [NoBody EXCEPT !.uid = local.uid, !.st = local.st]

pods_Patch ==
    /\ local # None
    /\ SendSync("podPatch", PodBody)
    /\ UNCHANGED <<api, leaseLister, uids, foreign, chan, jobs, down, edge>>

podStatus_Update ==
    /\ local # None
    /\ SendUpdate("podStatus", PodBody)
    /\ UNCHANGED <<api, leaseLister, uids, foreign, chan, jobs, down, edge>>

\* The kubelet deletes a pod it was told to terminate, naming its uid.
pods_Delete ==
    /\ local # None /\ local.st = MaxStatus
    /\ SendSync("podDelete", PodBody)
    /\ UNCHANGED <<api, leaseLister, uids, foreign, chan, jobs, down, edge>>

\* The kubelet creates the mirror of a static pod.
pods_Create ==
    /\ local = None
    /\ SendSync("podCreate", NoBody)
    /\ UNCHANGED <<api, leaseLister, uids, foreign, chan, jobs, down, edge>>

\* The lease is looked up while unknown, created when absent, renewed from the known one.
leases_Call ==
    /\ \/ known = None /\ SendSync("leaseQuery", NoBody)
       \/ known = NoLease /\ SendSync("leaseCreate", [NoBody EXCEPT !.renew = 1])
       \/ /\ known \notin {None, NoLease}
          /\ SendSync("leaseUpdate", [NoBody EXCEPT !.rv = known.rv, !.renew = known.renew + 1])
    /\ UNCHANGED <<api, leaseLister, uids, foreign, chan, jobs, down, edge>>

nodes_Call ==
    /\ \/ SendSync("nodeCreate", NoBody)
       \/ SendSync("nodePatch", NoBody)
       \/ SendUpdate("nodeUpdate", NoBody)
       \/ SendUpdate("nodeStatus", NoBody)
    /\ UNCHANGED <<api, leaseLister, uids, foreign, chan, jobs, down, edge>>

-----------------------------------------------------------------------------
(* The answer of a request, and the deletion of a pod by name.             *)

handlePodResp(answer) ==
    /\ db' = answer.object
    /\ UNCHANGED <<known, ackedLease>>

handleLeaseResp(answer) ==
    /\ known' = IF answer.err THEN None ELSE answer.object
    /\ ackedLease' = IF answer.kind = "leaseUpdate" /\ ~answer.err
                       THEN answer.object.renew ELSE ackedLease
    /\ UNCHANGED db

Answered(answer) ==
    /\ answer \in down
    /\ answer.kind # "delete"
    /\ down' = down \ {answer}
    /\ LET c == ClientOf(answer.kind)
           mine == Waiting(c) /\ client[c].id = answer.id
       IN  /\ client' = IF mine THEN [client EXCEPT ![c] = None] ELSE client
           /\ IF mine /\ answer.kind \in {"podPatch", "podCreate"} /\ ~answer.err
                THEN handlePodResp(answer)
              ELSE IF mine /\ c = "lease"
                THEN handleLeaseResp(answer)
              ELSE UNCHANGED <<db, known, ackedLease>>
    /\ UNCHANGED <<api, leaseLister, uids, callers, requests, timeouts, foreign, up, chan, jobs,
                   local, ran>>

\* metaManager.processDelete with a pod without uid removes the row whatever its uid is;
\* edged.handlePod then takes the pods from the database.
Deleted ==
    /\ \E m \in down : m.kind = "delete" /\ down' = down \ {m}
    /\ db' = None
    /\ local' = None
    /\ UNCHANGED <<api, leaseLister, uids, sent, foreign, chan, jobs,
                   known, ran, ackedLease>>

\* The pod of the API server reaches the node (ReliableSync models how).
Pushed ==
    /\ pod # None
    /\ ~(local # None /\ local.uid = pod.uid)
    /\ local' = [uid |-> pod.uid, st |-> ran[pod.uid]]
    /\ db' = pod
    /\ UNCHANGED <<api, leaseLister, uids, sent, foreign, chan, jobs, down,
                   known, ran, ackedLease>>

\* The pod runs on.
Runs ==
    /\ local # None /\ local.st < MaxStatus
    /\ local' = [local EXCEPT !.st = @ + 1]
    /\ ran' = [ran EXCEPT ![local.uid] = @ + 1]
    /\ UNCHANGED <<api, leaseLister, uids, sent, foreign, chan, jobs, down,
                   db, known, ackedLease>>

-----------------------------------------------------------------------------
(* The workers of UpstreamController.                                      *)

dispatchMessage ==
    /\ up # <<>>
    /\ chan' = [chan EXCEPT ![ChanOf(Head(up).kind)] = Append(@, Head(up))]
    /\ up' = Tail(up)
    /\ UNCHANGED <<api, leaseLister, uids, callers, client, requests, timeouts, foreign, jobs, down,
                   edge>>

Take(k) ==
    /\ chan[k] # <<>>
    /\ Cardinality({j \in jobs : ChanOf(j.msg.kind) = k}) < Workers
    /\ jobs' = jobs \cup {[at |-> "first", msg |-> Head(chan[k]), got |-> None]}
    /\ chan' = [chan EXCEPT ![k] = Tail(@)]
    /\ UNCHANGED <<api, leaseLister, uids, sent, foreign, down, edge>>

Answer(m, err, object) == [id |-> m.id, kind |-> m.kind, err |-> err, object |-> object]

\* Nobody waits for the answer of a message MetaManager has answered itself.
Respond(m, err, object) ==
    down \cup IF m.kind \in {"podStatus", "nodeUpdate", "nodeStatus"} THEN {}
              ELSE {Answer(m, err, object)}

Done(j) == jobs' = jobs \ {j}
Next2(j, at, got) == jobs' = (jobs \ {j}) \cup {[j EXCEPT !.at = at, !.got = got]}

\* A call of the API server fails.
Fails(j) ==
    /\ Done(j)
    /\ down' = Respond(j.msg, TRUE, None)
    /\ UNCHANGED <<api, uids>>

\* The body of a pod status names another pod than the one of that name, or none is there.
OtherPodByName(uid) == pod = None
OtherPod(uid) == ~(pod # None /\ pod.uid = uid)

\* All containers of the pod are terminated.
isPodNotRunning(st) == st = MaxStatus

updatePodStatus(j) ==
    /\ j.msg.kind = "podStatus"
    /\ \/ /\ j.at = "first"
          /\ OtherPod(j.msg.body.uid)
          /\ Done(j)
          /\ down' = Respond(j.msg, FALSE, None) \cup {[kind |-> "delete", id |-> j.msg.id]}
          /\ UNCHANGED <<api, uids>>
       \/ /\ j.at = "first"
          /\ ~OtherPod(j.msg.body.uid)
          /\ Next2(j, "second", pod)
          /\ UNCHANGED <<api, uids, down>>
       \/ /\ j.at = "second"
          /\ pod # None /\ pod.rv = j.got.rv
          /\ pod' = [pod EXCEPT !.st = j.msg.body.st, !.rv = rv + 1]
          /\ rv' = rv + 1
          /\ down' = Respond(j.msg, FALSE, None)
          /\ IF pod.terminating /\ isPodNotRunning(j.msg.body.st) THEN Next2(j, "delete", None) ELSE Done(j)
          /\ UNCHANGED <<lease, node, uids>>
       \/ j.at \in {"first", "second"} /\ Fails(j)
       \/ /\ j.at = "delete"
          /\ Done(j)
          /\ pod' \in {None, pod}       \* the deletion, or its failure, is only logged
          /\ UNCHANGED <<lease, node, rv, uids, down>>

patchPod(j) ==
    /\ j.msg.kind = "podPatch"
    /\ \/ /\ pod # None /\ pod.uid = j.msg.body.uid
          /\ Done(j)
          /\ pod' = [pod EXCEPT !.st = j.msg.body.st, !.rv = rv + 1]
          /\ rv' = rv + 1
          /\ down' = Respond(j.msg, FALSE, pod')
          /\ UNCHANGED <<lease, node, uids>>
       \/ Fails(j)

NewPod == [uid |-> uids + 1, rv |-> rv + 1, st |-> 0, terminating |-> FALSE]

createPod(j) ==
    /\ j.msg.kind = "podCreate"
    /\ \/ /\ pod = None /\ uids < MaxUids
          /\ Done(j)
          /\ pod' = NewPod
          /\ rv' = rv + 1
          /\ uids' = uids + 1
          /\ down' = Respond(j.msg, FALSE, pod')
          /\ UNCHANGED <<lease, node>>
       \/ Fails(j)

\* The precondition of a deletion: the uid it names.
Precondition(uid) == pod.uid = uid

deletePod(j) ==
    /\ j.msg.kind = "podDelete"
    /\ \/ /\ Done(j)
          /\ pod' = IF pod # None /\ Precondition(j.msg.body.uid) THEN None ELSE pod
          /\ down' = Respond(j.msg, FALSE, None)
          /\ UNCHANGED <<lease, node, rv, uids>>
       \/ Fails(j)

\* An update of the lease succeeds when it carries the version that is stored.
AnyVersion(m) == lease # None
SameVersion(m) == lease # None /\ lease.rv = m.body.rv

createOrUpdateLease(j) ==
    /\ j.msg.kind \in {"leaseCreate", "leaseUpdate"}
    /\ \/ /\ IF j.msg.kind = "leaseCreate" THEN lease = None ELSE SameVersion(j.msg)
          /\ Done(j)
          /\ lease' = [rv |-> rv + 1, renew |-> j.msg.body.renew]
          /\ rv' = rv + 1
          /\ down' = Respond(j.msg, FALSE, lease')
          /\ UNCHANGED <<pod, node, uids>>
       \/ Fails(j)

\* The lease of the informer's cache, which may be behind.
queryLease(j) ==
    /\ j.msg.kind = "leaseQuery"
    /\ Done(j)
    /\ down' = Respond(j.msg, FALSE, IF leaseLister = None THEN NoLease ELSE leaseLister)
    /\ UNCHANGED <<api, uids>>

registerNode(j) ==
    /\ j.msg.kind = "nodeCreate"
    /\ \/ /\ node = None
          /\ Done(j)
          /\ node' = [rv |-> rv + 1, foreign |-> foreign]
          /\ rv' = rv + 1
          /\ down' = Respond(j.msg, FALSE, None)
          /\ UNCHANGED <<pod, lease, uids>>
       \/ Fails(j)

patchNode(j) ==
    /\ j.msg.kind = "nodePatch"
    /\ \/ /\ node # None
          /\ Done(j)
          /\ node' = [node EXCEPT !.rv = rv + 1]
          /\ rv' = rv + 1
          /\ down' = Respond(j.msg, FALSE, None)
          /\ UNCHANGED <<pod, lease, uids>>
       \/ Fails(j)

\* updateNode and updateNodeStatus read the node, change what the message has in it and write
\* it back with the version they read.
StillThere(got) == node # None
Unchanged(got) == node # None /\ node.rv = got.rv

GetNode(j) ==
    /\ j.at = "first" /\ node # None
    /\ Next2(j, "second", node)
    /\ UNCHANGED <<api, uids, down>>

PutNode(j) ==
    /\ j.at = "second" /\ Unchanged(j.got)
    /\ Done(j)
    /\ node' = [j.got EXCEPT !.rv = rv + 1]
    /\ rv' = rv + 1
    /\ UNCHANGED <<pod, lease, uids, down>>

updateNode(j) == j.msg.kind = "nodeUpdate" /\ (GetNode(j) \/ PutNode(j) \/ Fails(j))
updateNodeStatus(j) == j.msg.kind = "nodeStatus" /\ (GetNode(j) \/ PutNode(j) \/ Fails(j))

Serve(j) ==
    /\ \/ updatePodStatus(j) \/ patchPod(j) \/ createPod(j) \/ deletePod(j)
       \/ createOrUpdateLease(j) \/ queryLease(j)
       \/ registerNode(j) \/ patchNode(j) \/ updateNode(j) \/ updateNodeStatus(j)
    /\ UNCHANGED <<leaseLister, sent, foreign, chan, edge>>

-----------------------------------------------------------------------------
(* The API server: other users of it, and the informer's cache.            *)

UserCreates ==
    /\ "pod" \in callers
    /\ pod = None /\ uids < MaxUids
    /\ pod' = NewPod
    /\ rv' = rv + 1
    /\ uids' = uids + 1
    /\ UNCHANGED <<lease, node, leaseLister, sent, foreign, chan, jobs, down, edge>>

UserDeletes ==
    /\ pod # None
    /\ \/ /\ ~pod.terminating
          /\ pod' = [pod EXCEPT !.terminating = TRUE, !.rv = rv + 1]
          /\ rv' = rv + 1
       \/ pod' = None /\ rv' = rv
    /\ UNCHANGED <<lease, node, leaseLister, uids, sent, foreign, chan, jobs, down, edge>>

\* Labels, taints and attached volumes of the node are written by others.
OtherWrites ==
    /\ node # None
    /\ foreign < MaxForeign
    /\ foreign' = foreign + 1
    /\ node' = [rv |-> rv + 1, foreign |-> foreign + 1]
    /\ rv' = rv + 1
    /\ UNCHANGED <<pod, lease, leaseLister, uids, sent, chan, jobs, down, edge>>

CacheFollows ==
    /\ leaseLister # lease
    /\ leaseLister' = lease
    /\ UNCHANGED <<api, uids, sent, foreign, chan, jobs, down, edge>>

Init ==
    /\ pod = None /\ lease = None /\ node = None
    /\ rv = 0 /\ leaseLister = None /\ uids = 0
    /\ callers \in ClientSets
    /\ client = [c \in Clients |-> None]
    /\ requests = 0 /\ timeouts = 0 /\ foreign = 0
    /\ up = <<>>
    /\ chan = [k \in Chans |-> <<>>]
    /\ jobs = {} /\ down = {}
    /\ local = None /\ db = None /\ known = None
    /\ ran = [u \in 1..MaxUids |-> 0]
    /\ ackedLease = 0

Next ==
    \/ \E c \in Clients : Late(c)
    \/ pods_Patch \/ podStatus_Update \/ pods_Delete \/ pods_Create
    \/ leases_Call \/ nodes_Call
    \/ \E answer \in down : Answered(answer)
    \/ Deleted \/ Pushed \/ Runs
    \/ dispatchMessage
    \/ \E k \in Chans : Take(k)
    \/ \E j \in jobs : Serve(j)
    \/ UserCreates \/ UserDeletes \/ OtherWrites \/ CacheFollows

Spec == Init /\ [][Next]_vars

-----------------------------------------------------------------------------
(* Properties.                                                             *)

Objects == [uid : 1..MaxUids, rv : Nat, st : 0..MaxStatus, terminating : BOOLEAN]
Messages == [id : Nat, try : 1..MaxTries, kind : PodKinds \cup NodeKinds \cup LeaseKinds,
             body : [uid : 0..MaxUids, st : 0..MaxStatus, rv : Nat, renew : Nat]]

\* The variables have their types, and a client waits only for requests of its own.
TypeOK ==
    /\ pod \in Objects \cup {None} /\ db \in Objects \cup {None}
    /\ lease \in [rv : Nat, renew : Nat] \cup {None}
    /\ node \in [rv : Nat, foreign : 0..MaxForeign] \cup {None}
    /\ \A c \in Clients : Waiting(c) => client[c] \in Messages /\ ClientOf(client[c].kind) = c
    /\ \A k \in Chans : Len(chan[k]) <= requests + timeouts
    /\ \A j \in jobs : j.msg \in Messages /\ j.at \in {"first", "second", "delete"}

\* A pod has no status but one it had on the node: a status is never written to another pod
\* that has since taken the name (updatePodStatus, patchPod).
StatusOfOwnRun == pod # None => pod.st <= ran[pod.uid]

\* A renewal of the lease that was answered with success is not undone, even by requests that
\* were sent twice or given up (createOrUpdateLease, handleLeaseResp).
AckedLeaseStays == ackedLease > 0 => lease # None /\ lease.renew >= ackedLease

\* No worker takes back what it does not know of: deletePod removes no pod but the one the edge
\* named, and what others have written to the node object survives a worker that read it before
\* (deletePod, updateNode, updateNodeStatus).
OthersKept ==
    [][/\ \A j \in jobs : deletePod(j) /\ pod # None /\ pod' = None => pod.uid = j.msg.body.uid
       /\ node # None /\ node' # None => node'.foreign >= node.foreign]_vars
=============================================================================
