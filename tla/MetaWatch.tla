------------------------------- MODULE MetaWatch -------------------------------
(***************************************************************************)
(* A watch of the local API of the edge (MetaServer), from the API server  *)
(* to the client of the watch.                                             *)
(*                                                                         *)
(* A watch applies to the DynamicController for a listener.  The listener  *)
(* is first sent the objects of the informer's cache and then registered;  *)
(* a goroutine of its own (dispatchEvents) sends registered listeners the  *)
(* events of the informer.  On the edge MetaManager puts each object into  *)
(* the database and triggers the hooks of the watches (imitator.Inject).   *)
(* A watch lists the database and then adds its hook.  Closing a watch     *)
(* removes its application; the agent then tells the cloud which           *)
(* applications are left (watchSync), which drops the other listeners.     *)
(*                                                                         *)
(* Watches that ask for the same share an application (Agent.Generate):    *)
(* appOf says which.  The applications in Selective have a selector, which *)
(* the one object of the model matches or does not.  Revisions are those   *)
(* of the API server, which other objects use up too.  CloudHub is here    *)
(* what ReliableSync shows it to be: per object the newest message that    *)
(* the edge does not have yet.                                             *)
(***************************************************************************)
EXTENDS Naturals, Sequences, FiniteSets

CONSTANTS
    None,
    Watches,        \* bound: watches of the edge
    Apps,           \* what a watch may ask for: the identifiers of applications
    Selective,      \* the applications with a selector
    Asks,           \* bound: what each watch asks for
    MaxRev,         \* bound: revisions of the API server
    MaxTimeouts     \* bound: applications that time out

VARIABLES
    \* cloud
    obj, rev,       \* the object in the API server, its last revision
    changes,        \* events on their way to the informer
    lister,         \* the object in the informer's cache
    events,         \* CommonResourceEventHandler.events
    listeners,      \* listenerManager: the applications with a listener
    center,         \* the applications that Center.Process adds listeners for, and its message
    \* transport
    up,             \* messages to the cloud
    down, synced,   \* the message to the edge, the revision the edge has acknowledged
    \* edge
    appOf,          \* the application of a watch
    app,            \* Agent.Applications: state and number of the attempt
    users,          \* watches that hold an application
    resync,         \* watchSyncQueue, and the list about to be sent
    meta_v2, revision,
    wc,             \* a watch: where it is and the revision of its hook
    incoming,       \* watchChan.incomingEventChan
    added, view,    \* watchChan.added; what the client of the watch has
    timeouts,
    \* history
    gap,            \* applications whose listener was not registered for the last event
    passed,         \* watches that the last change of the database has passed by
    raced           \* a list of applications was sent when it was no longer true

api == <<obj, rev, changes>>
cloud == <<lister, events, listeners, center>>
net == <<down, synced>>
agent == <<app, users, resync>>
store == <<meta_v2, revision, incoming>>
client == <<added, view>>
history == <<gap, passed, raced>>
vars == <<api, cloud, up, net, appOf, agent, store, wc, client, timeouts, history>>

Object(r, m) == [rev |-> r, match |-> m]
Event(type, o) == [type |-> type, obj |-> o]
Idle == [adds |-> {}, reply |-> 0]
NewWatchChan == [at |-> "new", rev |-> 0]
Matches(a, o) == a \in Selective => o.match

-----------------------------------------------------------------------------
(* The API server and the informer.                                        *)

Change ==
    /\ \E r \in {rev + 1, rev + 2} \cap 1..MaxRev, m \in BOOLEAN :
         /\ rev' = r
         /\ \/ /\ obj' = Object(r, m)
               /\ changes' = Append(changes, Event(IF obj = None THEN "ADDED" ELSE "MODIFIED", obj'))
            \/ /\ obj # None
               /\ m = obj.match
               /\ obj' = None
               /\ changes' = Append(changes, Event("DELETED", Object(r, m)))
    /\ UNCHANGED <<cloud, up, net, appOf, agent, store, wc, client, timeouts, history>>

\* The informer updates its cache and hands the event to the handler (objToEvent).
Inform ==
    /\ changes # <<>>
    /\ lister' = IF Head(changes).type = "DELETED" THEN None ELSE Head(changes).obj
    /\ events' = Append(events, Head(changes))
    /\ changes' = Tail(changes)
    /\ UNCHANGED <<obj, rev, listeners, center, up, net, appOf, agent, store, wc, client,
                   timeouts, history>>

-----------------------------------------------------------------------------
(* DynamicController.                                                      *)

\* CloudHub takes a message for the object unless the edge has it or it has a newer one.
Pooled(m) ==
    IF m.op = "delete" \/ (IF down = None THEN m.obj.rev > synced ELSE m.obj.rev > down.obj.rev)
      THEN m ELSE down

\* The operation of the message for an event.
Operation(type) ==
    CASE type = "ADDED" -> "insert" [] type = "MODIFIED" -> "update" [] type = "DELETED" -> "delete"

\* SelectorListener.sendObj: what does not match the selector is not sent.
sendObj(apps, e) ==
    down' = IF \E a \in apps : Matches(a, e.obj)
              THEN Pooled([op |-> Operation(e.type), obj |-> e.obj]) ELSE down

dispatchEvents ==
    /\ events # <<>>
    /\ events' = Tail(events)
    /\ sendObj(listeners, Head(events))
    /\ gap' = (gap \ listeners) \cup (center.adds \ listeners)
    /\ UNCHANGED <<api, lister, listeners, center, up, synced, appOf, agent, store, wc, client,
                   timeouts, passed, raced>>

\* getWatchDiff: the applications without a listener, the listeners without an application.
addedWatchApp(apps) == apps \ listeners
removedListeners(apps) == listeners \ apps

\* listenerManager.AddListener and DeleteListener.
WithListeners(apps) == listeners \cup apps
WithoutListeners(apps) == listeners \ apps

\* New listeners are sent the objects of the cache (AddListener, sendAllObjects).
sendAllObjects(adds) ==
    IF lister = None THEN UNCHANGED down ELSE sendObj(adds, Event("ADDED", lister))

ProcessApplication(m) ==
    /\ m.verb = "watch"
    /\ center' = [adds |-> m.apps, reply |-> m.id]
    /\ sendAllObjects(m.apps)
    /\ gap' = gap \ m.apps
    /\ UNCHANGED listeners

ProcessWatchSync(m) ==
    /\ m.verb = "sync"
    /\ LET adds == addedWatchApp(m.apps)
           gone == removedListeners(m.apps)
       IN  /\ center' = [adds |-> adds, reply |-> m.id]
           /\ sendAllObjects(adds)
           /\ listeners' = WithoutListeners(gone)
           /\ gap' = gap \ (adds \cup gone)

\* Center.Process takes a message.
Process ==
    /\ center = Idle /\ up # <<>>
    /\ up' = Tail(up)
    /\ ProcessApplication(Head(up)) \/ ProcessWatchSync(Head(up))
    /\ UNCHANGED <<api, lister, events, synced, appOf, agent, store, wc, client, timeouts,
                   passed, raced>>

\* The answer is for the application that still waits for this attempt.
Response(a) ==
    IF app[a].at = "applying" /\ app[a].id = center.reply /\ a \in center.adds
      THEN [app[a] EXCEPT !.at = "approved"] ELSE app[a]

\* The listeners are registered, and the application that waits is approved.
AddListener ==
    /\ center # Idle
    /\ listeners' = WithListeners(center.adds)
    /\ center' = Idle
    /\ app' = [a \in Apps |-> Response(a)]
    /\ UNCHANGED <<api, lister, events, up, net, appOf, users, resync, store, wc, client,
                   timeouts, history>>

-----------------------------------------------------------------------------
(* The agent of the edge.                                                  *)

\* Generate and Apply: the first watch of the application sends it, the others wait for it.
Watch(w) ==
    /\ wc[w].at = "new"
    /\ wc' = [wc EXCEPT ![w].at = "apply"]
    /\ users' = users \cup {w}
    /\ LET a == appOf[w]
           m == [verb |-> "watch", apps |-> {a}, id |-> app[a].id + 1]
       IN  IF app[a].at \in {"none", "completed"}
             THEN app' = [app EXCEPT ![a] = [at |-> "applying", id |-> m.id]] /\ up' = Append(up, m)
             ELSE UNCHANGED <<app, up>>
    /\ UNCHANGED <<api, cloud, net, appOf, resync, store, client, timeouts, history>>

\* doApply times out: its watches close the application and go on with what the database gets.
doApplyFails(a) ==
    /\ app[a].at = "applying"
    /\ timeouts < MaxTimeouts
    /\ timeouts' = timeouts + 1
    /\ app' = [app EXCEPT ![a].at = "completed"]
    /\ LET ws == {w \in users : appOf[w] = a}
       IN  /\ wc' = [w \in Watches |-> IF w \in ws THEN [wc[w] EXCEPT !.at = "list"] ELSE wc[w]]
           /\ users' = users \ ws
    /\ UNCHANGED <<api, cloud, up, net, appOf, resync, store, client, history>>

Applied(w) ==
    /\ wc[w].at = "apply" /\ app[appOf[w]].at = "approved"
    /\ wc' = [wc EXCEPT ![w].at = "list"]
    /\ UNCHANGED <<api, cloud, up, net, appOf, agent, store, client, timeouts, history>>

\* CloseApplication: the application goes, whoever else uses it, and the agent is to tell the cloud.
CloseApplication(w) ==
    /\ w \in users
    /\ app' = [app EXCEPT ![appOf[w]].at = "none"]
    /\ users' = {v \in users : appOf[v] # appOf[w]}
    /\ resync' = [resync EXCEPT !.queued = TRUE]

Stop(w) ==
    /\ wc[w].at = "on"
    /\ wc' = [wc EXCEPT ![w].at = "closed"]
    /\ CloseApplication(w) \/ (w \notin users /\ UNCHANGED agent)
    /\ incoming' = [incoming EXCEPT ![w] = <<>>]
    /\ UNCHANGED <<api, cloud, up, net, appOf, meta_v2, revision, client, timeouts, history>>

Registered == {a \in Apps : app[a].at # "none"}

\* syncWatchApplications lists the applications and then sends the list.
listWatchApplications ==
    /\ resync.queued /\ ~resync.sending
    /\ resync' = [queued |-> FALSE, sending |-> TRUE, apps |-> Registered]
    /\ UNCHANGED <<api, cloud, up, net, appOf, app, users, store, wc, client, timeouts, history>>

syncWatchApplications ==
    /\ resync.sending
    /\ up' = Append(up, [verb |-> "sync", apps |-> resync.apps, id |-> 0])
    /\ resync' = [resync EXCEPT !.sending = FALSE, !.apps = {}]
    /\ raced' = (raced \/ resync.apps # Registered)
    /\ UNCHANGED <<api, cloud, net, appOf, app, users, store, wc, client, timeouts, gap, passed>>

-----------------------------------------------------------------------------
(* The database, the hooks and the watches.                                *)

Larger(a, b) == IF a > b THEN a ELSE b

\* Trigger: the hooks whose revision is below that of the object.
Triggered(o) == {w \in Watches : wc[w].at = "on" /\ wc[w].rev < o.rev}

\* imitator.Event: the event that a message stands for.
MessageEvent(m) ==
    Event(CASE m.op = "insert" -> "ADDED" [] m.op = "update" -> "MODIFIED" [] m.op = "delete" -> "DELETED",
          m.obj)

InsertOrUpdateObj(o) == meta_v2' = o /\ revision' = Larger(revision, o.rev)
DeleteObj == meta_v2' = None /\ UNCHANGED revision

\* The message arrives and is acknowledged; the object is saved and the hooks are triggered.
Inject ==
    /\ down # None
    /\ down' = None
    /\ LET e == MessageEvent(down)
       IN  /\ synced' = IF e.type = "DELETED" THEN 0 ELSE e.obj.rev
           /\ \/ e.type # "DELETED" /\ InsertOrUpdateObj(e.obj)
              \/ e.type = "DELETED" /\ DeleteObj
           /\ incoming' = [w \in Watches |-> IF w \in Triggered(e.obj)
                                               THEN Append(incoming[w], e) ELSE incoming[w]]
           /\ passed' = {w \in Watches : wc[w].at \in {"hook", "on"} /\ w \notin Triggered(e.obj)}
    /\ UNCHANGED <<api, cloud, up, appOf, agent, wc, client, timeouts, gap, raced>>

\* What imitator.List has for the watch.
Listed == IF meta_v2 = None THEN <<>> ELSE <<Event("ADDED", meta_v2)>>

\* sync: the list of the database and its revision.
sync(w) ==
    /\ wc[w].at = "list"
    /\ wc' = [wc EXCEPT ![w] = [at |-> "hook", rev |-> revision + 1]]
    /\ incoming' = [incoming EXCEPT ![w] = @ \o Listed]
    /\ UNCHANGED <<api, cloud, up, net, appOf, agent, meta_v2, revision, client, timeouts, history>>

AddHook(w) ==
    /\ wc[w].at = "hook"
    /\ wc' = [wc EXCEPT ![w].at = "on"]
    /\ UNCHANGED <<api, cloud, up, net, appOf, agent, store, client, timeouts, history>>

\* startWatching lists the database and then adds the hook.
startWatching(w) == sync(w) \/ AddHook(w)

\* What the client gets for an event: nothing, the event, or another type of event.
\* ResultUnfiltered passes everything on.
ResultUnfiltered(w, e) == e.type
Result(w, e) ==
    CASE ~Matches(appOf[w], e.obj) -> IF added[w] THEN "DELETED" ELSE "none"
      [] Matches(appOf[w], e.obj) /\ ~added[w] /\ e.type = "MODIFIED" -> "ADDED"
      [] OTHER -> e.type

\* watchChan.added after an event of a type.  AddedEver never takes it back.
AddedEver(type) == TRUE
AddedAfter(type) == type # "DELETED"

processEvent(w) ==
    /\ incoming[w] # <<>>
    /\ incoming' = [incoming EXCEPT ![w] = Tail(@)]
    /\ LET e == Head(incoming[w])
           type == Result(w, e)
       IN  IF type = "none" THEN UNCHANGED client
           ELSE /\ added' = [added EXCEPT ![w] = AddedAfter(type)]
                /\ view' = [view EXCEPT ![w] = IF type = "DELETED" THEN None ELSE e.obj]
    /\ UNCHANGED <<api, cloud, up, net, appOf, agent, meta_v2, revision, wc, timeouts, history>>

-----------------------------------------------------------------------------

Init ==
    /\ obj = None /\ rev = 0 /\ changes = <<>>
    /\ lister = None /\ events = <<>> /\ listeners = {} /\ center = Idle
    /\ up = <<>> /\ down = None /\ synced = 0
    /\ appOf \in Asks
    /\ app = [a \in Apps |-> [at |-> "none", id |-> 0]]
    /\ users = {} /\ resync = [queued |-> FALSE, sending |-> FALSE, apps |-> {}]
    /\ meta_v2 = None /\ revision = 0
    /\ wc = [w \in Watches |-> NewWatchChan]
    /\ incoming = [w \in Watches |-> <<>>]
    /\ added = [w \in Watches |-> FALSE]
    /\ view = [w \in Watches |-> None]
    /\ timeouts = 0
    /\ gap = {} /\ passed = {} /\ raced = FALSE

Next ==
    \/ Change \/ Inform \/ dispatchEvents \/ Process \/ AddListener
    \/ \E a \in Apps : doApplyFails(a)
    \/ listWatchApplications \/ syncWatchApplications
    \/ Inject
    \/ \E w \in Watches : Watch(w) \/ Applied(w) \/ Stop(w) \/ startWatching(w) \/ processEvent(w)

Spec == Init /\ [][Next]_vars

-----------------------------------------------------------------------------
(* Properties.                                                             *)

\* The variables have their types, and watchChan.added says of every watch whether its client has
\* the object.
TypeOK ==
    /\ rev \in 0..MaxRev /\ revision \in 0..MaxRev /\ synced \in 0..MaxRev
    /\ listeners \subseteq Apps /\ users \subseteq Watches
    /\ \A a \in Apps : app[a].at \in {"none", "applying", "approved", "completed"}
    /\ \A w \in Watches : /\ wc[w].at \in {"new", "apply", "list", "hook", "on", "closed"}
                          /\ added[w] = (view[w] # None)

Quiet ==
    /\ changes = <<>> /\ events = <<>> /\ up = <<>> /\ down = None
    /\ center = Idle /\ ~resync.queued /\ ~resync.sending

\* Once all that was under way in the cloud and to the edge has arrived, the database of the edge
\* has the object of the API server that a registered listener asks for, unless the last event
\* fell between the listing and the registration (AddListener, dispatchEvents, Inject).
StoreFollowsServer ==
    Quiet /\ obj # None => \A a \in listeners \ gap : Matches(a, obj) => meta_v2 = obj

\* A watch that has handled its events shows what the database has of the objects it asks for,
\* unless its hook was passed by (startWatching, Trigger, processEvent).
WatchFollowsStore ==
    \A w \in Watches \ passed :
        wc[w].at = "on" /\ incoming[w] = <<>>
        => view[w] = IF meta_v2 = None \/ ~Matches(appOf[w], meta_v2) THEN None ELSE meta_v2

\* When the agent and the cloud have nothing to tell each other, every application that was approved
\* and is still held has its listener, unless a list was sent that an Apply had overtaken
\* (CloseApplication, ProcessWatchSync, Apply).
ApprovedHasListener ==
    Quiet /\ ~raced => \A a \in Apps : app[a].at = "approved" => a \in listeners
=============================================================================
