----------------------------- MODULE EdgeEventBus -----------------------------
(***************************************************************************)
(* EventBus of an edge node (edge/pkg/eventbus): the topics that rules of  *)
(* the cloud subscribe to, at the MQTT broker inside EdgeCore and at an    *)
(* external one.  Topics are kept in the database; the internal broker     *)
(* reads them when EdgeCore starts, the external one is told them again    *)
(* by a goroutine of every new connection.                                 *)
(***************************************************************************)
EXTENDS Naturals, Sequences, FiniteSets

CONSTANTS
    Topics,
    ServerQOS,      \* the configured quality of service
    MaxMessages,    \* bound: messages from the cloud
    MaxFailures,    \* bound: requests the external broker does not confirm
    MaxBreaks       \* bound: lost connections and restarts

VARIABLES
    wanted,         \* history: the topics the messages of the cloud leave
    inbox,          \* messages that pubCloudMsgToEdge has not taken
    doing,          \* the message it is at, before the database, as a sequence
    db,             \* the table sub_topics
    tree,           \* the subscriptions of the internal broker
    broker,         \* those of the external one
    sub,            \* the client: "starting", "connecting", "subscribing" or "connected"
    resub,          \* what onSubConnect read of the database and has not subscribed
    spoiled,        \* history: topics with an unconfirmed or lost request, and those
                    \* whose message was handled while onSubConnect read the database
                    \* or was about to subscribe them
    restored,       \* history: topics the internal broker has from the database
    messages, failures, breaks

vars == <<wanted, inbox, doing, db, tree, broker, sub, resub, spoiled, restored,
          messages, failures, breaks>>

Entry(t, qos) == [topic |-> t, qos |-> qos]

\* The cloud sends "subscribe" or "unsubscribe".
Tell(t, op) ==
    /\ messages < MaxMessages
    /\ messages' = messages + 1
    /\ inbox' = Append(inbox, [topic |-> t, op |-> op])
    /\ wanted' = IF op = "subscribe" THEN wanted \cup {t} ELSE wanted \ {t}
    /\ UNCHANGED <<doing, db, tree, broker, sub, resub, spoiled, restored, failures, breaks>>

\* Server.SetTopic replaces what the topic had; RemoveTopic removes an entry
\* with quality 0.
SetTopic(t) == {e \in tree : e.topic # t} \cup {Entry(t, 0)}
RemoveTopic(t) == tree \ {Entry(t, 0)}

\* The first steps of subscribe and unsubscribe: both brokers.  When the
\* external one does not confirm, the database is left as it is.
External(m, confirmed) ==
    IF confirmed
    THEN /\ broker' = IF m.op = "subscribe" THEN broker \cup {m.topic} ELSE broker \ {m.topic}
         /\ doing' = <<m>>
         /\ spoiled' = IF m.op = "unsubscribe" /\ m.topic \in resub THEN spoiled \cup {m.topic} ELSE spoiled
         /\ UNCHANGED failures
    ELSE /\ sub # "connecting" => failures < MaxFailures
         /\ failures' = IF sub = "connecting" THEN failures ELSE failures + 1
         /\ UNCHANGED <<broker, doing>>
         /\ spoiled' = spoiled \cup {m.topic}

pubCloudMsgToEdge ==
    /\ doing = <<>> /\ inbox # <<>> /\ sub # "starting"
    /\ LET m == Head(inbox)
       IN  /\ tree' = IF m.op = "subscribe" THEN SetTopic(m.topic) ELSE RemoveTopic(m.topic)
           /\ \E confirmed \in BOOLEAN : (confirmed => sub # "connecting") /\ External(m, confirmed)
           /\ restored' = IF m.op = "subscribe" THEN restored \ {m.topic} ELSE restored
    /\ inbox' = Tail(inbox)
    /\ UNCHANGED <<wanted, db, sub, resub, messages, breaks>>

\* InsertTopics or DeleteTopicsByKey.
TopicsAfter(m) == IF m.op = "subscribe" THEN db \cup {m.topic} ELSE db \ {m.topic}

\* The last step of subscribe and unsubscribe: the database.
UpdateTopics ==
    /\ doing # <<>>
    /\ db' = TopicsAfter(doing[1])
    /\ doing' = <<>>
    /\ spoiled' = IF doing[1].op = "unsubscribe" /\ doing[1].topic \in resub
                  THEN spoiled \cup {doing[1].topic} ELSE spoiled
    /\ UNCHANGED <<wanted, inbox, tree, broker, sub, resub, restored, messages, failures, breaks>>

\* onSubConnectionLost starts InitSubClient: a new client without subscriptions.
onSubConnectionLost ==
    /\ sub \in {"connected", "subscribing"} /\ breaks < MaxBreaks /\ breaks' = breaks + 1
    /\ sub' = "connecting" /\ broker' = {} /\ resub' = {}
    /\ UNCHANGED <<wanted, inbox, doing, db, tree, spoiled, restored, messages, failures>>

\* QueryAllTopics.
QueryAllTopics == db

\* LoopConnect succeeds; onSubConnect reads the database ...
InitSubClient ==
    /\ sub \in {"starting", "connecting"}
    /\ sub' = "subscribing"
    /\ resub' = QueryAllTopics
    /\ spoiled' = spoiled \cup {doing[i].topic : i \in DOMAIN doing}
    /\ UNCHANGED <<wanted, inbox, doing, db, tree, broker, restored, messages, failures, breaks>>

\* ... and subscribes the topics one by one; it gives up when one is not confirmed.
onSubConnect ==
    /\ sub = "subscribing"
    /\ \/ /\ resub = {} /\ sub' = "connected"
          /\ UNCHANGED <<resub, broker, spoiled, failures>>
       \/ \E t \in resub :
             /\ broker' = broker \cup {t}
             /\ resub' = resub \ {t}
             /\ UNCHANGED <<sub, spoiled, failures>>
       \/ /\ resub # {} /\ failures < MaxFailures /\ failures' = failures + 1
          /\ spoiled' = spoiled \cup resub
          /\ resub' = {} /\ UNCHANGED <<sub, broker>>
    /\ UNCHANGED <<wanted, inbox, doing, db, tree, restored, messages, breaks>>

\* The internal broker starts without topics of rules.
InitNoTopics == {}

\* InitInternalTopics, with the configured quality of service.
InitInternalTopics == {Entry(t, ServerQOS) : t \in QueryAllTopics}

\* EdgeCore restarts; Start handles messages once the client is connected.
Restart ==
    /\ breaks < MaxBreaks /\ breaks' = breaks + 1
    /\ inbox' = <<>> /\ doing' = <<>>
    /\ spoiled' = spoiled \cup {inbox[i].topic : i \in DOMAIN inbox} \cup {doing[i].topic : i \in DOMAIN doing}
    /\ sub' = "starting" /\ broker' = {} /\ resub' = {}
    /\ tree' = InitInternalTopics
    /\ restored' = db
    /\ UNCHANGED <<wanted, db, messages, failures>>

Init ==
    /\ wanted = {} /\ inbox = <<>> /\ doing = <<>> /\ db = {} /\ tree = {} /\ broker = {}
    /\ sub = "connected" /\ resub = {} /\ spoiled = {} /\ restored = {}
    /\ messages = 0 /\ failures = 0 /\ breaks = 0

Next ==
    \/ \E t \in Topics, op \in {"subscribe", "unsubscribe"} : Tell(t, op)
    \/ pubCloudMsgToEdge \/ UpdateTopics
    \/ onSubConnectionLost \/ InitSubClient \/ onSubConnect \/ Restart

Spec == Init /\ [][Next]_vars

-----------------------------------------------------------------------------
\* The variables have their types.
TypeOK ==
    /\ wanted \cup db \cup broker \cup resub \cup spoiled \cup restored \subseteq Topics
    /\ sub \in {"starting", "connecting", "subscribing", "connected"}
    /\ tree \subseteq [topic : Topics, qos : 0..2]

Quiet == inbox = <<>> /\ doing = <<>>

\* When the messages are handled the database holds the topics that the cloud
\* subscribed to and did not unsubscribe, and once connected so does the
\* external broker, whatever connections broke and however often EdgeCore
\* restarted, except for the topics of unconfirmed and lost requests and of
\* those that a message and a reconnection handled at the same time.
QuietTopics ==
    /\ Quiet => \A t \in Topics \ spoiled : (t \in db) = (t \in wanted)
    /\ Quiet /\ sub = "connected" => \A t \in Topics \ spoiled : (t \in broker) = (t \in wanted)

\* The internal broker has these topics too, and no others unless it has one
\* from the database with a quality of service other than 0: RemoveTopic does
\* not find that.
QuietTree ==
    Quiet => \A t \in Topics \ spoiled :
                LET has == \E e \in tree : e.topic = t
                IN  /\ t \in wanted => has
                    /\ has => t \in wanted \/ (ServerQOS # 0 /\ t \in restored)
=============================================================================
