---------------------------- MODULE DeviceReports ----------------------------
(***************************************************************************)
(* The way of a reported twin value from the edge to the API server: the   *)
(* communication worker of the edge's device twin module                   *)
(* (edge/pkg/devicetwin/dtmanager/communicate.go), which keeps every       *)
(* message it sent in ConfirmMap and sends it again until it is confirmed, *)
(* and updateDeviceStatus of the device controller                         *)
(* (cloud/pkg/devicecontroller/controller/upstream.go), which patches the  *)
(* status of the device and confirms the message.                          *)
(*                                                                         *)
(* The n-th report of the device is the message n, and n is its value.     *)
(***************************************************************************)
EXTENDS Naturals, Sequences, FiniteSets

CONSTANTS
    MaxReports,     \* bound: reports of the device
    MaxCopies,      \* bound: copies of a message on their way
    MaxDrops,       \* bound: lost connections
    MaxFailures     \* bound: patches the API server fails

VARIABLES
    reports,    \* reports made so far
    comm,       \* the channel of the communication worker
    state,      \* context.State: what that worker knows of the connection
    confirm,    \* ConfirmMap
    link,       \* the connection of the edge hub
    up,         \* messages on their way to the device controller
    down,       \* confirmations on their way to the edge
    sent,       \* the reports ever stored in ConfirmMap
    patched,    \* the reports ever patched to the API server
    api,        \* the value the API server has
    drops, failures

vars == <<reports, comm, state, confirm, link, up, down, sent, patched, api, drops, failures>>

Send(n) == [kind |-> "send", n |-> n]
Confirm(n) == [kind |-> "confirm", n |-> n]
Connected == [kind |-> "up"]
Disconnected == [kind |-> "down"]
Detail == 0     \* the request for the membership, which the cloud ignores

Known == <<reports, sent, patched, api, drops, failures>>

-----------------------------------------------------------------------------
(* The edge                                                                *)

\* dealSyncResult, dealDeviceStateUpdate: a handler sends what it stored.
Report ==
    /\ reports < MaxReports
    /\ reports' = reports + 1
    /\ comm' = Append(comm, Send(reports'))
    /\ UNCHANGED <<state, confirm, link, up, down, sent, patched, api, drops, failures>>

\* The hub writes a message to the connection it has, or drops it.
ToHub(ms) == up' = IF link THEN up \o ms ELSE up

\* The key of ConfirmMap is the number of the next message.
dealSendToCloudNext ==
    /\ comm # << >> /\ Head(comm).kind = "send" /\ state = "connected"
    /\ comm' = Tail(comm)
    /\ ToHub(<<Head(comm).n>>)
    /\ confirm' = confirm \cup {Head(comm).n + 1} /\ sent' = sent \cup {Head(comm).n}
    /\ UNCHANGED <<reports, state, link, down, patched, api, drops, failures>>

\* dealSendToCloud: nothing is kept of a message sent while disconnected.
dealSendToCloud ==
    /\ comm # << >> /\ Head(comm).kind = "send"
    /\ comm' = Tail(comm)
    /\ LET n == Head(comm).n
       IN  \/ /\ state = "disconnected"
              /\ UNCHANGED <<confirm, up, sent>>
           \/ /\ state = "connected"
              /\ ToHub(<<n>>)
              /\ confirm' = confirm \cup {n} /\ sent' = sent \cup {n}
    /\ UNCHANGED <<reports, state, link, down, patched, api, drops, failures>>

\* dealLifeCycle: the membership is requested on every new connection.
dealLifeCycle ==
    /\ comm # << >> /\ Head(comm).kind \in {"up", "down"}
    /\ comm' = Tail(comm)
    /\ \/ /\ Head(comm).kind = "up" /\ state = "disconnected"
          /\ confirm' = confirm \cup {Detail}
          /\ ToHub(<<Detail>>)
          /\ state' = "connected"
       \/ /\ Head(comm).kind = "up" /\ state = "connected"
          /\ UNCHANGED <<confirm, up, state>>
       \/ /\ Head(comm).kind = "down"
          /\ state' = "disconnected"
          /\ UNCHANGED <<confirm, up>>
    /\ UNCHANGED <<Known, link, down>>

dealConfirm ==
    /\ comm # << >> /\ Head(comm).kind = "confirm"
    /\ comm' = Tail(comm)
    /\ confirm' = confirm \ {Head(comm).n}
    /\ UNCHANGED <<Known, state, link, up, down>>

\* A set in any order (ConfirmMap.Range).
Orders(S) == {s \in [1 .. Cardinality(S) -> S] : \A i, j \in DOMAIN s : s[i] = s[j] => i = j}

\* The bound on the copies of a message.
MayCopy ==
    \A n \in confirm : Cardinality({i \in DOMAIN up : up[i] = n})
                         + Cardinality({i \in DOMAIN down : down[i] = n}) < MaxCopies

\* Sent again only while disconnected.
checkConfirmOffline ==
    /\ comm = << >> /\ confirm # {} /\ MayCopy
    /\ state = "disconnected"
    /\ \E s \in Orders(confirm) : ToHub(s)
    /\ UNCHANGED <<Known, comm, state, confirm, link, down>>

\* checkConfirm, when the channel was idle for a minute: every message kept
\* is sent again; while disconnected it is only kept.
checkConfirm ==
    /\ comm = << >> /\ confirm # {} /\ MayCopy
    /\ state = "connected"
    /\ \E s \in Orders(confirm) : ToHub(s)
    /\ UNCHANGED <<Known, comm, state, confirm, link, down>>

-----------------------------------------------------------------------------
(* The device controller                                                   *)

\* The confirmation goes back over the connection, if there is one.
Response(n) == down' = IF link THEN Append(down, n) ELSE down

\* updateDeviceStatus: a message whose patch fails is not confirmed.
updateDeviceStatus ==
    /\ up # << >> /\ Head(up) # Detail
    /\ up' = Tail(up)
    /\ LET n == Head(up)
       IN  \/ /\ api' = n /\ patched' = patched \cup {n}
              /\ Response(n)
              /\ UNCHANGED failures
           \/ /\ failures < MaxFailures /\ failures' = failures + 1
              /\ UNCHANGED <<api, patched, down>>
    /\ UNCHANGED <<reports, comm, state, confirm, link, sent, drops>>

\* dispatchMessage: a request for the membership is taken and ignored.
dispatchDetail ==
    /\ up # << >> /\ Head(up) = Detail
    /\ up' = Tail(up)
    /\ UNCHANGED <<Known, comm, state, confirm, link, down>>

\* distributeMsg: a message with a parent is a confirmation.
distributeMsg ==
    /\ down # << >>
    /\ down' = Tail(down)
    /\ comm' = Append(comm, Confirm(Head(down)))
    /\ UNCHANGED <<Known, state, confirm, link, up>>

-----------------------------------------------------------------------------
(* The connection: the hub tells every module of the edge when it changes. *)

Connect ==
    /\ ~link
    /\ link' = TRUE
    /\ comm' = Append(comm, Connected)
    /\ UNCHANGED <<Known, state, confirm, up, down>>

Disconnect ==
    /\ link /\ drops < MaxDrops
    /\ link' = FALSE /\ drops' = drops + 1
    /\ \E k \in 0 .. Len(up) : up' = SubSeq(up, 1, k)
    /\ down' = << >>
    /\ comm' = Append(comm, Disconnected)
    /\ UNCHANGED <<reports, state, confirm, sent, patched, api, failures>>

Init ==
    /\ reports = 0 /\ comm = << >> /\ state = "disconnected" /\ confirm = {}
    /\ link = FALSE /\ up = << >> /\ down = << >>
    /\ sent = {} /\ patched = {} /\ api = 0 /\ drops = 0 /\ failures = 0

Next ==
    \/ Report \/ dealSendToCloud \/ dealLifeCycle \/ dealConfirm \/ checkConfirm
    \/ updateDeviceStatus \/ dispatchDetail \/ distributeMsg
    \/ Connect \/ Disconnect

Spec == Init /\ [][Next]_vars

\* The workers go on, the hub connects again, and a channel nobody writes to
\* is idle for a minute.
Fairness ==
    /\ WF_vars(dealSendToCloud) /\ WF_vars(dealLifeCycle) /\ WF_vars(dealConfirm)
    /\ WF_vars(checkConfirm)
    /\ WF_vars(updateDeviceStatus) /\ WF_vars(dispatchDetail) /\ WF_vars(distributeMsg)
    /\ WF_vars(Connect)

FairSpec == Spec /\ Fairness

-----------------------------------------------------------------------------
\* The variables have their types.
TypeOK ==
    /\ reports \in 0 .. MaxReports
    /\ \A i \in DOMAIN comm : comm[i].kind \in {"send", "confirm", "up", "down"}
    /\ state \in {"connected", "disconnected"}
    /\ confirm \subseteq 0 .. reports
    /\ sent \subseteq 1 .. reports /\ patched \subseteq 1 .. reports /\ api \in 0 .. reports
    /\ link \in BOOLEAN
    /\ \A i \in DOMAIN up : up[i] \in 0 .. reports
    /\ \A i \in DOMAIN down : down[i] \in 1 .. reports
    /\ drops \in 0 .. MaxDrops /\ failures \in 0 .. MaxFailures

\* The edge forgets a report only when the API server has it: whatever was
\* lost, repeated or failed, what left ConfirmMap was patched.
ForgottenIsPatched == \A n \in sent : n \notin confirm => n \in patched

\* A report that was sent is patched in the end.
SentIsPatched == \A n \in 1 .. MaxReports : n \in sent ~> n \in patched
=============================================================================
