--------------------------- MODULE DeviceController ---------------------------
(***************************************************************************)
(* The device controller (cloud/pkg/devicecontroller/controller): the      *)
(* downstream half follows the devices and device models of the API server *)
(* and tells every node which devices it has and which models they need;   *)
(* the upstream half patches the status of a device with what its node     *)
(* reports.  Both share deviceManager.Device, a map of the devices last    *)
(* seen, without a lock around a load and the store that follows it.       *)
(*                                                                         *)
(* What is sent to a node is delivered in order (ReliableSync), so a node  *)
(* is what it was sent.                                                    *)
(***************************************************************************)
EXTENDS Naturals, Sequences

CONSTANTS
    Devices, Nodes,
    NoNode,         \* an empty NodeName
    None,           \* no such object
    MaxChanges      \* bound: changes made at the API server, and reports

VARIABLES
    api,        \* the device objects of the API server: the node of each
    modelApi,   \* whether the device model they all use exists
    events,     \* events of the device informer that were not handled
    modelEvents,\* events of the model informer that were not handled
    cache,      \* deviceManager.Device: the node of each device last seen
    model,      \* deviceModelManager.DeviceModel has the model
    members,    \* the devices each node was told it has
    models,     \* the nodes that were sent the model
    worker,     \* the status update that is made
    raced,      \* a status update has replaced what was stored meanwhile
    unknown,    \* a device came or went while its model was not known
    changes

vars == <<api, modelApi, events, modelEvents, cache, model, members, models,
          worker, raced, unknown, changes>>

-----------------------------------------------------------------------------
(* The API server and the informers                                        *)

\* An event has a copy of the object; differs says whether its metadata or its
\* specification is another than in the event before.
Event(type, d, n, differs) == [type |-> type, dev |-> d, node |-> n, differs |-> differs]

MayChange == changes < MaxChanges /\ changes' = changes + 1

CreateDevice(d, n) ==
    /\ MayChange /\ api[d] = None
    /\ api' = [api EXCEPT ![d] = n]
    /\ events' = Append(events, Event("added", d, n, TRUE))
    /\ UNCHANGED <<modelApi, modelEvents, cache, model, members, models, worker, raced, unknown>>

MoveDevice(d, n) ==
    /\ MayChange /\ api[d] \notin {None, n}
    /\ api' = [api EXCEPT ![d] = n]
    /\ events' = Append(events, Event("modified", d, n, TRUE))
    /\ UNCHANGED <<modelApi, modelEvents, cache, model, members, models, worker, raced, unknown>>

DeleteDevice(d) ==
    /\ MayChange /\ api[d] # None
    /\ api' = [api EXCEPT ![d] = None]
    /\ events' = Append(events, Event("deleted", d, api[d], TRUE))
    /\ UNCHANGED <<modelApi, modelEvents, cache, model, members, models, worker, raced, unknown>>

ChangeModel ==
    /\ MayChange
    /\ modelApi' = ~modelApi
    /\ modelEvents' = Append(modelEvents, modelApi')
    /\ UNCHANGED <<api, events, cache, model, members, models, worker, raced, unknown>>

-----------------------------------------------------------------------------
(* Downstream                                                              *)

\* syncDeviceModel: a model is only remembered.
syncDeviceModel ==
    /\ modelEvents # << >>
    /\ model' = Head(modelEvents)
    /\ modelEvents' = Tail(modelEvents)
    /\ UNCHANGED <<api, modelApi, events, cache, members, models, worker, raced, unknown, changes>>

\* What the handlers of an event change.
State(c, ms, mo, u) == [cache |-> c, members |-> ms, models |-> mo, unknown |-> u]

\* isExistModel: another device of the map is on the node and uses the model.
isExistModel(c, d, n) == \E e \in Devices \ {d} : c[e] = n

\* deviceAdded: the node is told of the device, and sent the model, when it is
\* known, unless another device should have brought it.
deviceAdded(s, d, n) ==
    LET c == [s.cache EXCEPT ![d] = n]
    IN  IF n = NoNode THEN [s EXCEPT !.cache = c]
        ELSE State(c, [s.members EXCEPT ![n] = @ \cup {d}],
                   IF ~isExistModel(c, d, n) /\ model THEN s.models \cup {n} ELSE s.models,
                   s.unknown \/ ~model)

\* deviceDeleted: the model goes with the last device that uses it.
deviceDeleted(s, d, n) ==
    LET c == [s.cache EXCEPT ![d] = None]
    IN  IF n = NoNode THEN [s EXCEPT !.cache = c]
        ELSE State(c, [s.members EXCEPT ![n] = @ \ {d}],
                   IF ~isExistModel(c, d, n) /\ model THEN s.models \ {n} ELSE s.models,
                   s.unknown \/ ~model)

\* The device is added to the new node only.
deviceUpdatedAddsOnly(s, d, n, differs) == deviceAdded(s, d, n)

\* deviceUpdated: a device that moved is deleted from its node and added to
\* the new one; any other difference is sent with the model.
deviceUpdated(s, d, n, differs) ==
    LET old == s.cache[d]
        t   == [s EXCEPT !.cache[d] = n]
    IN  IF old = None THEN deviceAdded(t, d, n)
        ELSE IF old # n THEN deviceAdded(deviceDeleted(t, d, old), d, n)
        ELSE IF differs /\ n # NoNode /\ model THEN [t EXCEPT !.models = @ \cup {n}]
        ELSE t

syncDevice ==
    LET e == Head(events)
        s == State(cache, members, models, unknown)
        t == CASE e.type = "added"    -> deviceAdded(s, e.dev, e.node)
               [] e.type = "modified" -> deviceUpdated(s, e.dev, e.node, e.differs)
               [] e.type = "deleted"  -> deviceDeleted(s, e.dev, e.node)
    IN  /\ events # << >>
        /\ events' = Tail(events)
        /\ cache' = t.cache /\ members' = t.members /\ models' = t.models
        /\ unknown' = t.unknown
        /\ UNCHANGED <<api, modelApi, modelEvents, model, worker, raced, changes>>

-----------------------------------------------------------------------------
(* Upstream: updateDeviceStatus                                            *)

\* A device that is not in the map is used all the same.
LoadDeviceMissing(d) ==
    /\ MayChange /\ worker = None
    /\ worker' = [dev |-> d, node |-> cache[d], stored |-> FALSE]
    /\ UNCHANGED <<api, modelApi, events, modelEvents, cache, model, members, models,
                   raced, unknown>>

\* A report arrives: the device is loaded from the map, if it is there.
LoadDevice(d) ==
    /\ MayChange /\ worker = None /\ cache[d] # None
    /\ worker' = [dev |-> d, node |-> cache[d], stored |-> FALSE]
    /\ UNCHANGED <<api, modelApi, events, modelEvents, cache, model, members, models,
                   raced, unknown>>

\* What was loaded is stored again, with the new status.
StoreDevice ==
    /\ worker # None /\ ~worker.stored
    /\ cache' = [cache EXCEPT ![worker.dev] = worker.node]
    /\ raced' = (raced \/ cache[worker.dev] # worker.node)
    /\ worker' = [worker EXCEPT !.stored = TRUE]
    /\ UNCHANGED <<api, modelApi, events, modelEvents, model, members, models, unknown, changes>>

\* The status of the object is patched, or the patch fails; the API server may
\* note the writer in the metadata.
PatchDevice ==
    /\ worker # None /\ worker.stored
    /\ worker' = None
    /\ \/ UNCHANGED events
       \/ /\ api[worker.dev] # None
          /\ \E noted \in BOOLEAN :
               events' = Append(events, Event("modified", worker.dev, api[worker.dev], noted))
    /\ UNCHANGED <<api, modelApi, modelEvents, cache, model, members, models, raced, unknown,
                   changes>>

-----------------------------------------------------------------------------
Init ==
    /\ api = [d \in Devices |-> None] /\ modelApi \in BOOLEAN
    /\ events = << >> /\ modelEvents = << >>
    /\ cache = [d \in Devices |-> None] /\ model = modelApi
    /\ members = [n \in Nodes |-> {}] /\ models = {}
    /\ worker = None /\ raced = FALSE /\ unknown = FALSE /\ changes = 0

Next ==
    \/ \E d \in Devices, n \in Nodes \cup {NoNode} : CreateDevice(d, n) \/ MoveDevice(d, n)
    \/ \E d \in Devices : DeleteDevice(d) \/ LoadDevice(d)
    \/ ChangeModel \/ syncDeviceModel \/ syncDevice \/ StoreDevice \/ PatchDevice

Spec == Init /\ [][Next]_vars

-----------------------------------------------------------------------------
\* The variables have their types.
TypeOK ==
    /\ api \in [Devices -> Nodes \cup {NoNode, None}]
    /\ cache \in [Devices -> Nodes \cup {NoNode, None}]
    /\ members \in [Nodes -> SUBSET Devices] /\ models \subseteq Nodes
    /\ modelApi \in BOOLEAN /\ model \in BOOLEAN /\ raced \in BOOLEAN /\ unknown \in BOOLEAN
    /\ worker \in [dev : Devices, node : Nodes \cup {NoNode}, stored : BOOLEAN] \cup {None}
    /\ changes \in 0 .. MaxChanges

\* When every event was handled a node has exactly the devices the API
\* server places on it, through all moves and deletions, unless a status
\* update has put an older device back into the map.
PlacedWhereAsked ==
    ~raced /\ events = << >> =>
        \A n \in Nodes : members[n] = {d \in Devices : api[d] = n}

\* A node is sent the model with its first device and told to drop it with
\* its last, unless a device came or went while the model was not known, or a
\* status update raced.
ModelWithDevices ==
    ~raced /\ ~unknown => \A n \in Nodes : n \in models <=> members[n] # {}
=============================================================================
