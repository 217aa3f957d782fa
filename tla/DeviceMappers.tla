---------------------------- MODULE DeviceMappers -----------------------------
(***************************************************************************)
(* The device mapper interface of an edge node: DMIWorker with its cache   *)
(* of devices and device models, the server at which a mapper registers    *)
(* (dmiserver), the clients that tell mappers of changes (dmiclient), and  *)
(* the local socket on which applications read and set properties.         *)
(*                                                                         *)
(* There is one protocol, hence one client.  The worker handles messages   *)
(* one after the other; a registration runs in a goroutine of the server   *)
(* and a request of the socket in one of its connection.  The mutex of the *)
(* device list is held by a registration until it returns, by the worker   *)
(* for single accesses and by requests of the socket not at all: these     *)
(* lock the mutex of the device models.                                    *)
(***************************************************************************)
EXTENDS Naturals, Sequences, FiniteSets

CONSTANTS
    Devices, Models,
    ModelOf,        \* the model a device refers to
    None,
    MaxMessages,    \* bound: messages from the cloud
    MaxFailures,    \* bound: calls of the mapper that fail while it runs
    MaxStarts,      \* bound: starts of the mapper and of EdgeCore
    MaxRequests     \* bound: requests at the socket

VARIABLES
    db,             \* what MetaManager has stored: devices with versions, and models
    inbox,          \* messages for the worker
    worker,         \* the message it is at, after its first step
    DeviceList, DeviceModelList,
    clients,        \* is there a client for the protocol
    mapper,         \* the mapper: does it run, what does it know
    registration,   \* the devices a registration has collected, or None
    request,        \* the device a request of the socket is about, or None
    set,            \* does it set a property
    unsure,         \* history: devices and models whose call failed or was lost, whose
                    \* model was missing, or whose removal met a registration
    kept,           \* history: devices whose removal failed
    messages, failures, starts, requests

vars == <<db, inbox, worker, DeviceList, DeviceModelList, clients, mapper, registration, request, set,
          unsure, kept, messages, failures, starts, requests>>

bounds == <<messages, failures, starts, requests>>
socket == <<request, set>>

Idle == [op |-> "none", name |-> None, version |-> 0]
Down == [up |-> FALSE, devices |-> [d \in Devices |-> 0], models |-> {}]

\* The mutex is not looked at.
DeviceMuAnyway == TRUE

\* A registration holds the mutex of the device list until it returns.
DeviceMuFree == registration = None

-----------------------------------------------------------------------------
(* dmiclient.  A call fails without client, without mapper, or by itself.  *)

\* RegisterDevice, UpdateDevice and RemoveDevice; version 0 is removal.
MapperDevice(d, version) ==
    mapper' = [mapper EXCEPT !.devices[d] = version]

RegisterDevice(d, version) == MapperDevice(d, version)
UpdateDevice(d, version) == MapperDevice(d, version)
RemoveDevice(d) == MapperDevice(d, 0)

\* CreateDeviceModel, UpdateDeviceModel and RemoveDeviceModel.
CreateDeviceModel(m) == mapper' = [mapper EXCEPT !.models = @ \cup {m}]
UpdateDeviceModel(m) == mapper' = [mapper EXCEPT !.models = @ \cup {m}]
RemoveDeviceModel(m) == mapper' = [mapper EXCEPT !.models = @ \ {m}]

\* getDMIClientConn finds a client, and the mapper answers.
getDMIClientConn == clients /\ mapper.up

\* The worker calls the mapper: it does what, or the call for name fails.
Succeeds(what) == getDMIClientConn /\ what /\ UNCHANGED <<unsure, failures>>

Collected == IF registration = None THEN {} ELSE DOMAIN registration

Fails(name) ==
    /\ getDMIClientConn => failures < MaxFailures
    /\ failures' = IF getDMIClientConn THEN failures + 1 ELSE failures
    /\ unsure' = unsure \cup ({name} \ Collected)
    /\ UNCHANGED mapper

Calls(name, what) == Succeeds(what) \/ Fails(name)

-----------------------------------------------------------------------------
(* DMIWorker.                                                              *)

\* MetaManager stores a device or a model and passes the message on.
Send(op, name) ==
    /\ messages < MaxMessages /\ messages' = messages + 1
    /\ IF name \in Devices
       THEN /\ (op = "insert") = (db.devices[name] = 0)
            /\ db' = [db EXCEPT !.devices[name] = IF op = "delete" THEN 0 ELSE messages + 1]
       ELSE /\ (op = "insert") = (name \notin db.models)
            /\ db' = [db EXCEPT !.models = IF op = "delete" THEN @ \ {name} ELSE @ \cup {name}]
    /\ inbox' = Append(inbox, [op |-> op, name |-> name, version |-> messages + 1])
    /\ UNCHANGED <<worker, DeviceList, DeviceModelList, clients, mapper, registration, socket, unsure,
                   kept, failures, starts, requests>>

\* The worker writes the list under the mutex.
WriteList(list) ==
    /\ DeviceMuFree
    /\ DeviceList' = list

\* dealMetaDeviceOperation for a device, first step: an insertion or an update
\* is cached, a deletion is told the mapper; when that fails the device stays.
dealDevice(m) ==
    IF m.op = "delete"
    THEN /\ \/ Succeeds(RemoveDevice(m.name)) /\ worker' = m /\ UNCHANGED kept
            \/ Fails(m.name) /\ worker' = Idle /\ kept' = kept \cup {m.name}
         /\ UNCHANGED DeviceList
    ELSE /\ WriteList([DeviceList EXCEPT ![m.name] = m.version])
         /\ worker' = m /\ kept' = kept \ {m.name}
         /\ UNCHANGED <<mapper, unsure, failures>>

\* The same for a device model, whose mutex nobody holds for long.
dealDeviceModel(m) ==
    IF m.op = "delete"
    THEN /\ \/ Succeeds(RemoveDeviceModel(m.name)) /\ worker' = m
            \/ Fails(m.name) /\ worker' = Idle
         /\ UNCHANGED <<DeviceList, DeviceModelList, kept>>
    ELSE /\ DeviceModelList' = DeviceModelList \cup {m.name}
         /\ worker' = m /\ UNCHANGED kept
         /\ UNCHANGED <<DeviceList, mapper, unsure, failures>>

dealMetaDeviceOperation ==
    /\ worker = Idle /\ inbox # <<>>
    /\ inbox' = Tail(inbox)
    /\ LET m == Head(inbox)
       IN  IF m.name \in Devices THEN dealDevice(m) /\ UNCHANGED DeviceModelList ELSE dealDeviceModel(m)
    /\ UNCHANGED <<db, clients, registration, socket, messages, starts, requests>>

\* Second step: the mapper is told, or the deletion is cached.  A registration
\* that collected the device in between keeps it.
finishOperation ==
    /\ worker # Idle
    /\ worker' = Idle
    /\ LET m == worker
       IN  \/ /\ m.op # "delete" /\ m.name \in Devices
              /\ Calls(m.name, IF m.op = "insert" THEN RegisterDevice(m.name, m.version)
                               ELSE UpdateDevice(m.name, m.version))
              /\ UNCHANGED <<DeviceList, DeviceModelList>>
           \/ /\ m.op # "delete" /\ m.name \in Models
              /\ Calls(m.name, IF m.op = "insert" THEN CreateDeviceModel(m.name) ELSE UpdateDeviceModel(m.name))
              /\ UNCHANGED <<DeviceList, DeviceModelList>>
           \/ /\ m.op = "delete" /\ m.name \in Devices
              /\ WriteList([DeviceList EXCEPT ![m.name] = 0])
              /\ unsure' = IF mapper.devices[m.name] # 0 THEN unsure \cup {m.name} ELSE unsure
              /\ UNCHANGED <<DeviceModelList, mapper, failures>>
           \/ /\ m.op = "delete" /\ m.name \in Models
              /\ DeviceModelList' = DeviceModelList \ {m.name}
              /\ unsure' = unsure \cup {d \in Devices : ModelOf[d] = m.name} \cup {m.name}
              /\ UNCHANGED <<DeviceList, mapper, failures>>
    /\ UNCHANGED <<db, inbox, clients, registration, socket, kept, messages, starts, requests>>

-----------------------------------------------------------------------------
(* The mapper.                                                             *)

MayStart == starts < MaxStarts /\ starts' = starts + 1

\* The mapper stops, with what it knows.
MapperStops ==
    /\ mapper.up /\ registration = None
    /\ mapper' = Down
    /\ UNCHANGED <<db, inbox, worker, DeviceList, DeviceModelList, clients, registration, socket, unsure, kept,
                   bounds>>

\* The devices whose model is known.
Registered == {d \in Devices : DeviceList[d] # 0 /\ ModelOf[d] \in DeviceModelList}

\* MapperRegister: the mapper starts and registers; its devices are collected
\* under the mutex, those without model are left out.
MapperRegister ==
    /\ MayStart /\ ~mapper.up /\ registration = None
    /\ registration' = [d \in Registered |-> DeviceList[d]]
    /\ unsure' = {d \in Devices \ Registered : DeviceList[d] # 0}
    /\ UNCHANGED <<db, inbox, worker, DeviceList, DeviceModelList, clients, mapper, socket,
                   kept, messages, failures, requests>>

\* The mapper asks for no data: no client is created.
RegisterWithoutData ==
    /\ MayStart /\ ~mapper.up /\ registration = None
    /\ mapper' = [Down EXCEPT !.up = TRUE]
    /\ unsure' = Devices \cup Models
    /\ UNCHANGED <<db, inbox, worker, DeviceList, DeviceModelList, clients, registration, socket,
                   kept, messages, failures, requests>>

\* CreateDMIClient, and the answer.
CreateDMIClient ==
    /\ registration # None
    /\ clients' = TRUE
    /\ registration' = None
    /\ mapper' = [up |-> TRUE,
                  devices |-> [d \in Devices |-> IF d \in DOMAIN registration THEN registration[d] ELSE 0],
                  models |-> {ModelOf[d] : d \in DOMAIN registration}]
    /\ UNCHANGED <<db, inbox, worker, DeviceList, DeviceModelList, socket, unsure, kept, bounds>>

-----------------------------------------------------------------------------
(* The local socket, and EdgeCore.                                         *)

initDeviceInfoFromDB == db.devices
initDeviceModelInfoFromDB == db.models

\* EdgeCore starts: the caches are read from the database; there is no client
\* until the mapper registers again.
EdgeCoreStarts ==
    /\ DeviceList' = initDeviceInfoFromDB /\ DeviceModelList' = initDeviceModelInfoFromDB
    /\ clients' = FALSE /\ inbox' = <<>> /\ worker' = Idle
    /\ registration' = None /\ request' = None /\ set' = FALSE
    /\ kept' = {}
    /\ unsure' = unsure \cup {inbox[i].name : i \in DOMAIN inbox} \cup {worker.name} \cup kept
    /\ UNCHANGED <<db, mapper, messages, failures, requests>>

Restart == MayStart /\ EdgeCoreStarts

\* callForDeviceLocal: the device is looked up and the list is printed ...
callForDeviceLocal(d, sets) ==
    /\ request = None /\ requests < MaxRequests /\ requests' = requests + 1
    /\ request' = d /\ set' = sets
    /\ UNCHANGED <<db, inbox, worker, DeviceList, DeviceModelList, clients, mapper, registration, unsure,
                   kept, messages, failures, starts>>

\* ... while the worker may write it, which may stop EdgeCore; so does setting
\* a property of a device that is not there.
Stops(d, sets) == (sets /\ DeviceList[d] = 0) \/ (worker # Idle /\ worker.name \in Devices)

StopsEdgeCore ==
    /\ request # None /\ Stops(request, set) /\ MayStart
    /\ EdgeCoreStarts

\* echo answers.
echo ==
    /\ request # None
    /\ ~(set /\ DeviceList[request] = 0)
    /\ request' = None /\ set' = FALSE
    /\ UNCHANGED <<db, inbox, worker, DeviceList, DeviceModelList, clients, mapper, registration, unsure,
                   kept, bounds>>

-----------------------------------------------------------------------------
Init ==
    /\ db = [devices |-> [d \in Devices |-> 0], models |-> {}]
    /\ inbox = <<>> /\ worker = Idle
    /\ DeviceList = [d \in Devices |-> 0] /\ DeviceModelList = {}
    /\ clients = FALSE /\ mapper = Down /\ registration = None
    /\ request = None /\ set = FALSE
    /\ unsure = {} /\ kept = {}
    /\ messages = 0 /\ failures = 0 /\ starts = 0 /\ requests = 0

Next ==
    \/ \E op \in {"insert", "update", "delete"}, n \in Devices \cup Models : Send(op, n)
    \/ dealMetaDeviceOperation \/ finishOperation
    \/ MapperStops \/ MapperRegister \/ RegisterWithoutData \/ CreateDMIClient
    \/ Restart \/ StopsEdgeCore \/ echo
    \/ \E d \in Devices, sets \in BOOLEAN : callForDeviceLocal(d, sets)

Spec == Init /\ [][Next]_vars

-----------------------------------------------------------------------------
\* The variables have their types.
TypeOK ==
    /\ db.models \cup DeviceModelList \cup mapper.models \subseteq Models
    /\ DeviceList \in [Devices -> 0..MaxMessages] /\ db.devices \in [Devices -> 0..MaxMessages]
    /\ mapper.devices \in [Devices -> 0..MaxMessages]
    /\ request \in Devices \cup {None}

Quiet == inbox = <<>> /\ worker = Idle /\ registration = None

\* A mapper that has registered knows, when the messages are handled, exactly
\* the devices of the cache in their last version, however its registration
\* and the messages interleaved, except for those of failed calls, without
\* model, or removed while it registered.
MapperKnows ==
    Quiet /\ mapper.up => \A d \in Devices \ unsure : mapper.devices[d] = DeviceList[d]

\* The cache holds what MetaManager has stored, except for devices whose
\* removal the mapper was not told.
CacheFollowsStore ==
    Quiet => \A d \in Devices \ kept : DeviceList[d] = db.devices[d]
=============================================================================
