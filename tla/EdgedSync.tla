------------------------------- MODULE EdgedSync -------------------------------
(***************************************************************************)
(* The main loops of MetaManager and of edged, which handle one message    *)
(* after the other: pods, and operations of the CSI driver on volumes.     *)
(*                                                                         *)
(* A call of the CSI driver is a message that is waited for twice: in the  *)
(* cloud by the socket server, which sends it without acknowledgement, and *)
(* on the edge by MetaManager (processVolume), whose loop stands still     *)
(* until edged answers or the time is over.  edged does not answer when    *)
(* the plugin fails.  Messages between two modules keep their order.       *)
(*                                                                         *)
(* Pods are told apart by uid; they all have one name, so the database has *)
(* one row.  Kubelet is told of single pods (UPDATE, REMOVE), and of all   *)
(* pods of the database (SET) when edged does not know what it deletes.    *)
(***************************************************************************)
EXTENDS Naturals, Sequences, SequencesExt

CONSTANTS
    Volumes,
    Uids,           \* bound: pods of the name
    MaxMessages,    \* bound: calls of the CSI driver and messages about pods
    MaxFailures     \* bound: failures of the database, of the plugin and of the network

VARIABLES
    call,       \* the call the CSI driver waits for, per volume; 0 is none
    calls, sent, failures,
    mmq,        \* the channel of MetaManager
    mm,         \* the volume message MetaManager waits for, or NoVolume
    edq,        \* the channel of edged
    edged,      \* the volume message edged passed to the plugin, or NoVolume
    answers,    \* answers on their way to the cloud
    volume,     \* what became of the volume
    db,         \* the row of the pod: its uid, or 0
    kubelet,    \* the pods kubelet was told of
    \* history
    acked,      \* what the last successful call of the driver made of the volume
    open,       \* volumes with a call since
    deleted,    \* uids whose deletion MetaManager handled last
    unlisted    \* a query of the database failed

vars == <<call, calls, sent, failures, mmq, mm, edq, edged, answers, volume, db, kubelet, acked,
          open, deleted, unlisted>>

cloud == <<call, calls, acked, open>>
pods == <<db, kubelet, deleted, unlisted>>

NoVolume == [type |-> "none", id |-> 0, volume |-> 0, op |-> "none"]
Operations == {"create", "publish", "unpublish", "delete"}

MayFail == failures < MaxFailures /\ failures' = failures + 1

-----------------------------------------------------------------------------
(* The CSI driver and the socket server of CloudHub.                       *)

\* The answer of an operation: the new state of a volume.
After(op) ==
    CASE op = "create" -> "created" [] op = "publish" -> "published"
      [] op = "unpublish" -> "created" [] op = "delete" -> "absent"

\* syncNoAckMessage: the message is sent once, or lost with the connection of the node.
syncNoAckMessage(m) ==
    \/ mmq' = Append(mmq, m) /\ UNCHANGED failures
    \/ MayFail /\ UNCHANGED mmq

sendToKubeEdge(v, op) ==
    /\ call[v] = 0 /\ calls + sent < MaxMessages
    /\ calls' = calls + 1
    /\ call' = [call EXCEPT ![v] = calls + 1]
    /\ open' = open \cup {v}
    /\ syncNoAckMessage([type |-> "volume", id |-> calls + 1, volume |-> v, op |-> op])
    /\ UNCHANGED <<sent, mm, edq, edged, answers, volume, pods, acked>>

CreateVolume(v) == acked[v] = "absent" /\ sendToKubeEdge(v, "create")
DeleteVolume(v) == acked[v] = "created" /\ sendToKubeEdge(v, "delete")
ControllerPublishVolume(v) == acked[v] = "created" /\ sendToKubeEdge(v, "publish")
\* A volume is also unpublished when nobody knows whether it was published.
ControllerUnpublishVolume(v) ==
    (acked[v] = "published" \/ (acked[v] = "created" /\ v \in open)) /\ sendToKubeEdge(v, "unpublish")

\* SendSync in the cloud returns an error: the driver fails.
CloudTimeout(v) ==
    /\ call[v] # 0
    /\ call' = [call EXCEPT ![v] = 0]
    /\ UNCHANGED <<calls, sent, failures, mmq, mm, edq, edged, answers, volume, pods, acked, open>>

\* The answer belongs to the call that waits, whichever that is.
AnswersAny(a, v) == call[v] # 0 /\ a.volume = v

\* The answer belongs to the call with the id of the message it answers.
Answers(a, v) == call[v] # 0 /\ call[v] = a.id

\* DispatchUpstream hands the answer over (SendResp); a late one has no taker.
\* An answer without content is an error to the driver.
SendResp(a) ==
    /\ answers' = answers \ {a}
    /\ \/ \E v \in Volumes :
             /\ Answers(a, v)
             /\ call' = [call EXCEPT ![v] = 0]
             /\ IF a.ok THEN acked' = [acked EXCEPT ![v] = After(a.op)] /\ open' = open \ {v}
                ELSE UNCHANGED <<acked, open>>
             /\ UNCHANGED failures
       \/ (\A v \in Volumes : ~Answers(a, v)) /\ UNCHANGED <<call, acked, open, failures>>
       \/ MayFail /\ UNCHANGED <<call, acked, open>>
    /\ UNCHANGED <<calls, sent, mmq, mm, edq, edged, volume, pods>>

\* EdgeController sends a pod, or deletes it: with all of it, or bare (SyncController).
SendPod(type, u) ==
    /\ calls + sent < MaxMessages
    /\ sent' = sent + 1
    /\ mmq' = Append(mmq, [type |-> type, uid |-> u])
    /\ UNCHANGED <<cloud, failures, mm, edq, edged, answers, volume, pods>>

-----------------------------------------------------------------------------
(* MetaManager.                                                            *)

Handled == mm = NoVolume /\ mmq # <<>> /\ mmq' = Tail(mmq)

\* processVolume up to the end of SendSync.
processVolume ==
    /\ Handled /\ Head(mmq).type = "volume"
    /\ mm' = Head(mmq)
    /\ edq' = Append(edq, Head(mmq))
    /\ UNCHANGED <<cloud, sent, failures, edged, answers, volume, pods>>

Answer(m, ok) == [id |-> m.id, volume |-> m.volume, op |-> m.op, ok |-> ok]

\* SendSync returns an error: the answer has no content.
VolumeTimeout ==
    /\ mm # NoVolume
    /\ mm' = NoVolume
    /\ answers' = answers \cup {Answer(mm, FALSE)}
    /\ UNCHANGED <<cloud, sent, failures, mmq, edq, edged, volume, pods>>

\* processInsert, processUpdate: the row is written and edged is told; an
\* error of the database is only answered.
processInsert ==
    /\ Handled /\ Head(mmq).type = "insert"
    /\ \/ /\ db' = Head(mmq).uid
          /\ deleted' = deleted \ {Head(mmq).uid}
          /\ edq' = Append(edq, Head(mmq))
          /\ UNCHANGED failures
       \/ MayFail /\ UNCHANGED <<db, deleted, edq>>
    /\ UNCHANGED <<cloud, sent, mm, edged, answers, volume, kubelet, unlisted>>

\* processDelete, processDeletePodDB: the row goes if it has the uid.
processDelete ==
    /\ Handled /\ Head(mmq).type \in {"delete", "bare"}
    /\ \/ /\ db' = IF db = Head(mmq).uid THEN 0 ELSE db
          /\ deleted' = deleted \cup {Head(mmq).uid}
          /\ edq' = Append(edq, Head(mmq))
          /\ UNCHANGED failures
       \/ MayFail /\ UNCHANGED <<db, deleted, edq>>
    /\ UNCHANGED <<cloud, sent, mm, edged, answers, volume, kubelet, unlisted>>

\* processQuery: edged gets the pods of the database, or an error it ignores.
processQuery ==
    /\ Handled /\ Head(mmq).type = "query"
    /\ \/ /\ edq' = Append(edq, [type |-> "list", uids |-> {db} \ {0}])
          /\ UNCHANGED <<failures, unlisted>>
       \/ MayFail /\ unlisted' = TRUE /\ UNCHANGED edq
    /\ UNCHANGED <<cloud, sent, mm, edged, answers, volume, db, kubelet, deleted>>

-----------------------------------------------------------------------------
(* edged.                                                                  *)

\* syncPod takes the next message.
Taken(m) == m = Head(edq) /\ edq' = Tail(edq)

\* The list only adds pods.
handlePodListAdds(uids) == kubelet \cup uids
handlePodListFromMetaManager(uids) == uids

\* handlePod: UPDATE and REMOVE of a pod with a spec; a bare deletion makes
\* edged query MetaManager.
handlePod ==
    /\ edged = NoVolume /\ edq # <<>>
    /\ \E m \in ToSet(edq) :
          /\ m.type # "volume"
          /\ Taken(m)
          /\ kubelet' = CASE m.type = "insert" -> kubelet \cup {m.uid}
                          [] m.type = "delete" -> kubelet \ {m.uid}
                          [] m.type = "list" -> handlePodListFromMetaManager(m.uids)
                          [] m.type = "bare" -> kubelet
          /\ mmq' = IF m.type = "bare" THEN Append(mmq, [type |-> "query"]) ELSE mmq
    /\ UNCHANGED <<cloud, sent, failures, mm, edged, answers, volume, db, deleted, unlisted>>

\* handleVolume calls the plugin.
handleVolume ==
    /\ edged = NoVolume /\ edq # <<>>
    /\ \E m \in ToSet(edq) : m.type = "volume" /\ Taken(m) /\ edged' = m
    /\ UNCHANGED <<cloud, sent, failures, mmq, mm, answers, volume, pods>>

\* What the plugin can do.
Possible(v, op) ==
    CASE op = "create" -> TRUE
      [] op = "publish" -> volume[v] # "absent"
      [] op = "unpublish" -> volume[v] # "absent"
      [] op = "delete" -> volume[v] # "published"

\* The plugin returns.  MetaManager gets the answer if it still waits for it.
PluginReturns ==
    /\ edged # NoVolume
    /\ edged' = NoVolume
    /\ \/ /\ Possible(edged.volume, edged.op)
          /\ volume' = [volume EXCEPT ![edged.volume] =
                IF edged.op = "create" /\ @ # "absent" THEN @ ELSE After(edged.op)]
          /\ IF mm = edged
             THEN mm' = NoVolume /\ answers' = answers \cup {Answer(edged, TRUE)}
             ELSE UNCHANGED <<mm, answers>>
          /\ UNCHANGED failures
       \/ /\ \/ ~Possible(edged.volume, edged.op) /\ UNCHANGED failures
             \/ MayFail
          /\ UNCHANGED <<volume, mm, answers>>
    /\ UNCHANGED <<cloud, sent, mmq, edq, pods>>

-----------------------------------------------------------------------------
Init ==
    /\ call = [v \in Volumes |-> 0] /\ calls = 0 /\ sent = 0 /\ failures = 0
    /\ mmq = <<>> /\ mm = NoVolume /\ edq = <<>> /\ edged = NoVolume /\ answers = {}
    /\ volume = [v \in Volumes |-> "absent"] /\ acked = volume
    /\ open = {} /\ db = 0 /\ kubelet = {} /\ deleted = {} /\ unlisted = FALSE

Driver(v) ==
    \/ CreateVolume(v) \/ DeleteVolume(v) \/ ControllerPublishVolume(v)
    \/ ControllerUnpublishVolume(v) \/ CloudTimeout(v)

metaManager ==
    processVolume \/ VolumeTimeout \/ processInsert \/ processDelete \/ processQuery

syncPod == handlePod \/ handleVolume \/ PluginReturns

Next ==
    \/ \E v \in Volumes : Driver(v)
    \/ \E a \in answers : SendResp(a)
    \/ \E type \in {"insert", "delete", "bare"}, u \in Uids : SendPod(type, u)
    \/ metaManager \/ syncPod

Spec == Init /\ [][Next]_vars

-----------------------------------------------------------------------------
\* The variables have their types; MetaManager waits only for a volume message.
TypeOK ==
    /\ call \in [Volumes -> 0..calls] /\ mm.id \in 0..calls
    /\ volume \in [Volumes -> {"absent", "created", "published"}]
    /\ db \in Uids \cup {0} /\ kubelet \subseteq Uids
    /\ edged.id # 0 => edged.volume \in Volumes /\ edged.op \in Operations

\* After a call of the driver succeeded the volume is as the call left it until the
\* next call, whatever calls for it timed out before and are still on their way.
DoneStays == \A v \in Volumes \ open : volume[v] = acked[v]

\* When all messages are handled kubelet runs the pod of the database and none that was
\* deleted, although the deletions came with and without the pod and as a list.
QuietFollows ==
    mmq = <<>> /\ edq = <<>> /\ mm = NoVolume /\ edged = NoVolume /\ ~unlisted =>
        {db} \ {0} \subseteq kubelet /\ kubelet \cap deleted = {}
=============================================================================
