------------------------------ MODULE MCDevices ------------------------------
(***************************************************************************)
(* The devices and the buses: the device controller in the cloud; on an    *)
(* edge node the membership and the twins of devices, the interface to     *)
(* their mappers, EventBus and ServiceBus.  They are joined by messages    *)
(* that arrive in order (ReliableSync), which each of them sends to, or    *)
(* takes from, its environment.  A behaviour is a behaviour of one of      *)
(* them, named by part, while the others rest in their initial states.     *)
(* The counters of messages and failures are those of the part that moves. *)
(***************************************************************************)
EXTENDS DeviceTwin, Sequences, FiniteSets

CONSTANTS Devices, Nodes, NoNode, None, Handlers, m1, t1, t2, u1, u2, a1

VARIABLES
  part, messages, failures,
  \* DeviceController
  api, modelApi, events, modelEvents, cache, model, members, models, worker, raced, unknown,
  changes,
  \* DeviceMembership
  list, mutex, holder, readers, writer, rows, handler, member, fatal,
  \* DeviceMappers
  db, inbox, dmiWorker, DeviceList, DeviceModelList, clients, mapper, registration, request, set,
  unsure, kept, starts, requests,
  \* EdgeEventBus
  wanted, mqttInbox, doing, sub_topics, tree, broker, sub, resub, spoiled, restored, breaks,
  \* EdgeServiceBus
  allowed, urls, server, jobs, call, disordered, missed, crashes

controllerVars == <<api, modelApi, events, modelEvents, cache, model, members, models, worker,
                    raced, unknown, changes>>
membershipVars == <<list, mutex, holder, readers, writer, rows, handler, member, fatal>>
mapperVars == <<db, inbox, dmiWorker, DeviceList, DeviceModelList, clients, mapper, registration,
                request, set, unsure, kept, starts, requests>>
eventVars == <<wanted, mqttInbox, doing, sub_topics, tree, broker, sub, resub, spoiled, restored,
               breaks>>
serviceVars == <<allowed, urls, server, jobs, call, disordered, missed, crashes>>
allVars == <<part, messages, failures, controllerVars, membershipVars, vars, mapperVars, eventVars,
             serviceVars>>

\* DeviceTwin: a sync is one version ahead on either side, so that each
\* comparison of versions decides.
OneAhead == {[c |-> 1, e |-> 0], [c |-> 0, e |-> 1]}

\* Two devices that come, move, report and go.
Controller == INSTANCE DeviceController WITH MaxChanges <- 4

\* One device, two handlers, a mutex for each time it comes back.
Membership == INSTANCE DeviceMembership
                WITH Devices <- {"d1"}, MaxMutexes <- 3, MaxFailures <- 1

\* Two devices of one model; the mapper or EdgeCore starts again.
Mappers == INSTANCE DeviceMappers
             WITH worker <- dmiWorker, Models <- {m1}, ModelOf <- [d \in Devices |-> m1],
                  MaxMessages <- 3, MaxFailures <- 1, MaxStarts <- 2, MaxRequests <- 1

\* Two topics, a quality of service other than the one RemoveTopic uses.
Events == INSTANCE EdgeEventBus
            WITH inbox <- mqttInbox, db <- sub_topics, Topics <- {t1, t2}, ServerQOS <- 1,
                 MaxMessages <- 3, MaxFailures <- 1, MaxBreaks <- 2

\* Two URLs, one of them called by a local application.
Service == INSTANCE EdgeServiceBus
             WITH Urls <- {u1, u2}, Calls <- {a1}, UrlOf <- [a \in {a1} |-> u1],
                  MaxMessages <- 3, MaxCrashes <- 1

MCInit ==
  /\ part \in {"controller", "membership", "twin", "mappers", "events", "service"}
  /\ Controller!Init /\ Membership!Init /\ Init
  /\ Mappers!Init /\ Events!Init /\ Service!Init
  /\ part # "controller" => modelApi

\* Only one part moves.
InController == /\ part = "controller"
                /\ UNCHANGED <<part, messages, failures, membershipVars, vars, mapperVars,
                               eventVars, serviceVars>>
InMembership == /\ part = "membership"
                /\ UNCHANGED <<part, messages, controllerVars, vars, mapperVars, eventVars,
                               serviceVars>>
InTwin       == /\ part = "twin"
                /\ UNCHANGED <<part, messages, failures, controllerVars, membershipVars, mapperVars,
                               eventVars, serviceVars>>
InMappers    == /\ part = "mappers"
                /\ UNCHANGED <<part, controllerVars, membershipVars, vars, eventVars, serviceVars>>
InEvents     == /\ part = "events"
                /\ UNCHANGED <<part, controllerVars, membershipVars, vars, mapperVars, serviceVars>>
InService    == /\ part = "service"
                /\ UNCHANGED <<part, failures, controllerVars, membershipVars, vars, mapperVars,
                               eventVars>>

MCNext ==
  \/ (InController /\ Controller!Next) \/ (InMembership /\ Membership!Next) \/ (InTwin /\ Next)
  \/ (InMappers /\ Mappers!Next) \/ (InEvents /\ Events!Next) \/ (InService /\ Service!Next)

MCSpec == MCInit /\ [][MCNext]_allVars

-----------------------------------------------------------------------------
\* The variables of the part that moves have their types.
AllTypeOK ==
  /\ part = "controller" => Controller!TypeOK
  /\ part = "membership" => Membership!TypeOK
  /\ part = "twin" => TypeOK
  /\ part = "mappers" => Mappers!TypeOK
  /\ part = "events" => Events!TypeOK
  /\ part = "service" => Service!TypeOK

\* Once all events are handled a node has exactly the devices the API server
\* places on it, through moves and deletions, and it has their model while it
\* has devices; both unless a status update raced (DeviceController).
DevicesArePlaced == Controller!PlacedWhereAsked /\ Controller!ModelWithDevices

\* A device in memory has a lock a handler will find, and between two
\* messages memory and table have the same devices, through restarts and
\* whatever handlers hold (DeviceMembership).
MembersAgree == Membership!ListedHasLock /\ Membership!SettledAgree

\* The cache holds the devices that are stored, also after a restart, and a
\* registered mapper knows those of the cache in their last version, however
\* its registration and the messages interleave (DeviceMappers).
MappersFollow == Mappers!CacheFollowsStore /\ Mappers!MapperKnows

\* The database, the external broker and the internal one have the topics the
\* cloud subscribed to, through broken connections and restarts (EdgeEventBus).
TopicsFollow == Events!QuietTopics /\ Events!QuietTree

\* The HTTP server runs if and only if some URL has a rule (EdgeServiceBus).
QuietServes == Service!QuietServes
=============================================================================
