---------------------------- MODULE ReliableSync ----------------------------
(***************************************************************************)
(* Reliable delivery of resources from the cloud to one edge node.         *)
(*                                                                         *)
(*   API server --watch--> EdgeController --hub--> CloudHub dispatcher     *)
(*        ^                SyncController --hub-->      |                  *)
(*        | ObjectSync                           store + work queue        *)
(*        +---------------- session sender <------------+                  *)
(*                            | down      ^ up                             *)
(*                            v           |                                *)
(*                          MetaManager (sqlite) on the edge               *)
(*                                                                         *)
(* One edge node; the nodes share no state of this protocol.  An object is *)
(* an incarnation (a UID); objects with the same name are the same row of  *)
(* the edge database.  Objects stands for namespaced and for cluster-scoped*)
(* resources alike: the two code paths differ in the API they call only.   *)
(***************************************************************************)
EXTENDS Integers, FiniteSets, Sequences, Functions, WorkQueue

CONSTANTS
  Objects,      \* the UIDs
  Names,        \* resource keys namespace/type/name
  NameOf,       \* the name of each object
  Pods,         \* the names that are pods: the edge checks the UID on delete
  Ids,          \* tell apart messages that are otherwise equal
  MaxRV,        \* bound on the resource version of an object
  MaxSessions,  \* bound on the sessions the node opens
  MaxHub,       \* bound on the CloudHub channel
  MaxNet,       \* bound on the messages under way in each direction
  MaxRetry,     \* resends before the sender gives up
  MaxFailures,  \* bound on failing API calls
  MaxCrashes,   \* bound on restarts of cloudcore
  MaxQueries,   \* bound on remote queries of the edge
  Patient       \* TRUE: a round trip fits in the time of all resends

ASSUME ReliableSyncAssumption ==
  /\ IsFiniteSet(Objects)
  /\ NameOf \in [Objects -> Names]
  /\ Pods \subseteq Names
  /\ Ids # {}
  /\ MaxRV \in Nat
  /\ MaxSessions \in Nat \ {0}
  /\ MaxHub \in Nat
  /\ MaxNet \in Nat
  /\ MaxRetry \in Nat
  /\ MaxFailures \in Nat
  /\ MaxCrashes \in Nat
  /\ MaxQueries \in Nat
  /\ Patient \in BOOLEAN

VARIABLES
  obj,        \* API server: version and phase of each object
  syncs,      \* API server: ObjectSync of each object, its status version
  syncCache,  \* the ObjectSync informer's copy of syncs
  watch,      \* object events EdgeController has not turned into messages
  hub,        \* the CloudHub module channel
  disp,       \* the DispatchDownstream goroutine
  store,      \* AckMessageStore of the node's message pool
  wq,         \* AckMessageQueue of the node's message pool
  sess,       \* number of sessions opened so far
  connected,  \* the last session is alive
  snd,        \* the SendAckMessage goroutine of each session
  down,       \* messages under way to the edge, then in its MetaManager queue
  up,         \* acknowledgements and queries under way to the cloud
  edge,       \* sqlite: what the edge stores under each name
  waiting,    \* queries whose processRemote goroutine still waits
  queries,    \* number of queries sent so far
  answers,    \* answers EdgeController has read and not yet published
  failures,   \* number of API calls that failed so far
  crashes,    \* number of restarts of cloudcore so far
  persisted,  \* history: the <<object, version>> the edge ever stored
  settled,    \* history: the stored message was acknowledged
  outrun   \* history: the objects whose events SyncController overtook

vars == <<obj, syncs, syncCache, watch, hub, disp, store, wq, sess, connected,
          snd, down, up, edge, waiting, queries, answers, failures, crashes,
          persisted, settled, outrun>>

apiVars  == <<obj, watch, outrun>>
poolVars == <<store, wq, settled>>
netVars  == <<down, up, sess, connected>>
edgeVars == <<edge, waiting, queries, answers, persisted>>

-----------------------------------------------------------------------------
\* Status version of an ObjectSync: no ObjectSync, or one whose status is
\* still empty, or the version the edge acknowledged ("0" before the first).
Absent == -2
Blank  == -1
SyncVersions == {Absent, Blank} \cup Nat

Message == [op: {"upsert", "delete", "response"}, obj: Objects, rv: Nat,
            dts: BOOLEAN, qid: Nat, id: Ids]
NoMsg == [op |-> "none"]

Query == [op: {"query"}, name: Names, qid: Nat]

\* isDeleteMessage: a delete, or an object with a deletion timestamp.
IsDelete(m) == m.op = "delete" \/ m.dts

Sessions == 1 .. MaxSessions

IdleSender == [pc |-> "idle", key |-> NoMsg, msg |-> NoMsg, n |-> 0,
               acked |-> FALSE, fresh |-> FALSE]
ExitedSender == [IdleSender EXCEPT !.pc = "exit"]
IdleDisp == [pc |-> "idle", msg |-> NoMsg, pool |-> <<0, FALSE>>, fresh |-> FALSE]

Pool == <<sess, connected>>
Live(s) == connected /\ s = sess

\* Message IDs are fresh: the new message differs from all that exist.
InFlight ==
  Range(hub) \cup {store[o] : o \in Objects} \cup {disp.msg}
    \cup {snd[s].msg : s \in Sessions} \cup Range(down) \cup Range(up)
    \cup answers
Stamped(m) == {x \in {[m EXCEPT !.id = i] : i \in Ids} : x \notin InFlight}
Stamp(m) == CHOOSE x \in Stamped(m) : TRUE
CanPublish(m) == Len(hub) < MaxHub /\ Stamped(m) # {}
Publish(m) == hub' = Append(hub, Stamp(m))

AnyId == CHOOSE i \in Ids : TRUE
Upsert(o, v, terminating) ==
  [op |-> "upsert", obj |-> o, rv |-> v, dts |-> terminating, qid |-> 0, id |-> AnyId]
Delete(o) ==
  [op |-> "delete", obj |-> o, rv |-> 0, dts |-> FALSE, qid |-> 0, id |-> AnyId]
Response(o, v, terminating, q) ==
  [op |-> "response", obj |-> o, rv |-> v, dts |-> terminating, qid |-> q, id |-> AnyId]

Alive(o) == obj[o].phase \in {"live", "terminating"}

Init ==
  /\ obj = [o \in Objects |-> [rv |-> 0, phase |-> "none"]]
  /\ syncs = [o \in Objects |-> Absent]
  /\ syncCache = [o \in Objects |-> Absent]
  /\ watch = << >>
  /\ hub = << >>
  /\ disp = IdleDisp
  /\ store = [o \in Objects |-> NoMsg]
  /\ wq = WQEmpty
  /\ sess = 1
  /\ connected = TRUE
  /\ snd = [s \in Sessions |-> IdleSender]
  /\ down = << >>
  /\ up = << >>
  /\ edge = [n \in Names |-> NoMsg]
  /\ waiting = {}
  /\ queries = 0
  /\ answers = {}
  /\ failures = 0
  /\ crashes = 0
  /\ persisted = {}
  /\ settled = [o \in Objects |-> FALSE]
  /\ outrun = {}

-----------------------------------------------------------------------------
(* The API server's objects and the controllers that publish to CloudHub   *)

\* A client creates an object under a name that is free.
CreateObject(o) ==
  /\ obj[o].phase = "none"
  /\ \A p \in Objects : NameOf[p] = NameOf[o] => ~Alive(p)
  /\ MaxRV > 0
  /\ obj' = [obj EXCEPT ![o] = [rv |-> 1, phase |-> "live"]]
  /\ watch' = Append(watch, Upsert(o, 1, FALSE))
  /\ UNCHANGED <<syncs, syncCache, hub, disp, poolVars, netVars, snd, edgeVars,
                 failures, crashes, outrun>>

\* A client changes an object, or marks it for graceful deletion.
UpdateObject(o, phase) ==
  /\ Alive(o)
  /\ obj[o].phase = "terminating" => phase = "terminating"
  /\ obj[o].rv < MaxRV
  /\ obj' = [obj EXCEPT ![o] = [rv |-> obj[o].rv + 1, phase |-> phase]]
  /\ watch' = Append(watch, Upsert(o, obj[o].rv + 1, phase = "terminating"))
  /\ UNCHANGED <<syncs, syncCache, hub, disp, poolVars, netVars, snd, edgeVars,
                 failures, crashes, outrun>>

\* The object is removed.
RemoveObject(o) ==
  /\ Alive(o)
  /\ obj' = [obj EXCEPT ![o].phase = "gone"]
  /\ watch' = Append(watch, Delete(o))
  /\ UNCHANGED <<syncs, syncCache, hub, disp, poolVars, netVars, snd, edgeVars,
                 failures, crashes, outrun>>

\* EdgeController's downstream loop turns the next event into a message.
EdgeControllerSync ==
  /\ watch # << >>
  /\ CanPublish(Head(watch))
  /\ Publish(Head(watch))
  /\ watch' = Tail(watch)
  /\ UNCHANGED <<obj, syncs, syncCache, disp, poolVars, netVars, snd, edgeVars,
                 failures, crashes, outrun>>

\* The informer of ObjectSync catches up with the API server.
InformerSync(o) ==
  /\ syncCache[o] # syncs[o]
  /\ syncCache' = [syncCache EXCEPT ![o] = syncs[o]]
  /\ UNCHANGED <<apiVars, syncs, hub, disp, poolVars, netVars, snd, edgeVars,
                 failures, crashes>>

\* Mutants: an object marked for deletion counts as gone; a status "0" is
\* taken for one that was never written.
NeedsDeleteMarked(o) == syncCache[o] # Absent /\ obj[o].phase # "live"
NeedsUpdateNonZero(o) == syncCache[o] > 0 /\ Alive(o) /\ obj[o].rv > syncCache[o]

\* What SyncController sends for an ObjectSync: a delete when the object is
\* gone, an update when the object is newer than the recorded version.
NeedsDelete(o) == syncCache[o] # Absent /\ ~Alive(o)
NeedsUpdate(o) == syncCache[o] >= 0 /\ Alive(o) /\ obj[o].rv > syncCache[o]

\* SyncController sends a version of an object of which EdgeController still
\* has an older event.
Overtakes(o) ==
  Alive(o) /\ \E i \in 1 .. Len(watch) : watch[i].obj = o /\ watch[i].rv < obj[o].rv

ReconcileObjectSync(o) ==
  LET m == IF NeedsDelete(o)
           THEN Delete(o)
           ELSE Upsert(o, obj[o].rv, obj[o].phase = "terminating")
  IN  /\ NeedsDelete(o) \/ NeedsUpdate(o)
      /\ CanPublish(m)
      /\ Publish(m)
      /\ outrun' = IF Overtakes(o) THEN outrun \cup {o} ELSE outrun
      /\ UNCHANGED <<obj, watch, syncs, syncCache, disp, poolVars, netVars, snd,
                     edgeVars, failures, crashes>>

-----------------------------------------------------------------------------
(* CloudHub: DispatchDownstream and enqueueAckMessage                       *)

\* Whoever read an ObjectSync to update it now holds an outdated copy: the
\* API server answers its UpdateStatus with a conflict.
SpoilDisp(d, o) ==
  IF d.pc = "status" /\ d.msg.obj = o THEN [d EXCEPT !.fresh = FALSE] ELSE d
SpoilSnd(f, o) ==
  [s \in Sessions |-> IF f[s].pc = "update" /\ f[s].msg.obj = o
                      THEN [f[s] EXCEPT !.fresh = FALSE] ELSE f[s]]

\* Mutant: a message whose key is in the store is always discarded.
VerdictKeepStored(m) ==
  CASE IsDelete(m) \/ m.op = "response" -> "add"
    [] ~IsDelete(m) /\ m.op # "response" /\ store[m.obj] # NoMsg -> "idle"
    [] OTHER -> IF syncCache[m.obj] = Absent THEN "create"
                ELSE IF syncCache[m.obj] >= 0 /\ m.rv > syncCache[m.obj]
                     THEN "add" ELSE "idle"

\* The dispatcher's verdict on the next message: the step it goes to.
Verdict(m) ==
  CASE IsDelete(m) \/ m.op = "response" -> "add"
    [] ~IsDelete(m) /\ m.op # "response" /\ store[m.obj] # NoMsg ->
         IF IsDelete(store[m.obj]) \/ m.rv <= store[m.obj].rv THEN "idle" ELSE "add"
    [] OTHER -> IF syncCache[m.obj] = Absent THEN "create"
                ELSE IF syncCache[m.obj] >= 0 /\ m.rv > syncCache[m.obj]
                     THEN "add" ELSE "idle"

\* DispatchDownstream takes a message, looks up the node's pool and decides.
Dispatch ==
  /\ disp.pc = "idle"
  /\ hub # << >>
  /\ LET m == Head(hub)
     IN  disp' = IF Verdict(m) = "idle" THEN IdleDisp
                 ELSE [pc |-> Verdict(m), msg |-> m, pool |-> Pool, fresh |-> FALSE]
  /\ hub' = Tail(hub)
  /\ UNCHANGED <<apiVars, syncs, syncCache, poolVars, netVars, snd, edgeVars,
                 failures, crashes>>

\* First message for an object: create its ObjectSync ...
DispatchCreate ==
  /\ disp.pc = "create"
  /\ LET o == disp.msg.obj
     IN  IF syncs[o] = Absent
         THEN /\ syncs' = [syncs EXCEPT ![o] = Blank]
              /\ disp' = [disp EXCEPT !.pc = "status", !.fresh = TRUE]
              /\ snd' = SpoilSnd(snd, o)
         ELSE disp' = IdleDisp /\ UNCHANGED <<syncs, snd>>
  /\ UNCHANGED <<apiVars, syncCache, hub, poolVars, netVars, edgeVars, failures,
                 crashes>>

\* ... then set its status to "0" in a second call.
DispatchStatus ==
  /\ disp.pc = "status"
  /\ IF disp.fresh
     THEN /\ syncs' = [syncs EXCEPT ![disp.msg.obj] = 0]
          /\ disp' = [disp EXCEPT !.pc = "add", !.fresh = FALSE]
          /\ snd' = SpoilSnd(snd, disp.msg.obj)
     ELSE disp' = IdleDisp /\ UNCHANGED <<syncs, snd>>
  /\ UNCHANGED <<apiVars, syncCache, hub, poolVars, netVars, edgeVars, failures,
                 crashes>>

\* Either call may fail: the message is dropped.
DispatchFails ==
  /\ disp.pc \in {"create", "status"}
  /\ failures < MaxFailures
  /\ failures' = failures + 1
  /\ disp' = IdleDisp
  /\ UNCHANGED <<apiVars, syncs, syncCache, hub, poolVars, netVars, snd, edgeVars,
                 crashes>>

\* nodeStore.Add: into the pool looked up at the start, which may be dead.
DispatchAdd ==
  /\ disp.pc = "add"
  /\ disp' = [disp EXCEPT !.pc = "enqueue"]
  /\ IF disp.pool = Pool
     THEN /\ store' = [store EXCEPT ![disp.msg.obj] = disp.msg]
          /\ settled' = [settled EXCEPT ![disp.msg.obj] = FALSE]
     ELSE UNCHANGED <<store, settled>>
  /\ UNCHANGED <<apiVars, syncs, syncCache, hub, wq, netVars, snd, edgeVars,
                 failures, crashes>>

\* nodeQueue.Add.
DispatchEnqueue ==
  /\ disp.pc = "enqueue"
  /\ disp' = IdleDisp
  /\ wq' = IF disp.pool = Pool THEN WQAdd(wq, disp.msg.obj) ELSE wq
  /\ UNCHANGED <<apiVars, syncs, syncCache, hub, store, settled, netVars, snd,
                 edgeVars, failures, crashes>>

-----------------------------------------------------------------------------
(* CloudHub: SendAckMessage of a session                                    *)

\* syncAckMessage: take a key ...
SenderGet(s) ==
  /\ Live(s)
  /\ snd[s].pc = "idle"
  /\ wq.queue # << >>
  /\ wq' = WQGet(wq)
  /\ snd' = [snd EXCEPT ![s].pc = "got", ![s].key = Head(wq.queue)]
  /\ UNCHANGED <<apiVars, syncs, syncCache, hub, disp, store, settled, netVars,
                 edgeVars, failures, crashes>>

\* ... and send the message that is stored under it by now, if any.
SenderSend(s) ==
  /\ Live(s)
  /\ snd[s].pc = "got"
  /\ LET m == store[snd[s].key]
     IN  IF m = NoMsg
         THEN /\ wq' = WQDone(wq, snd[s].key)
              /\ snd' = [snd EXCEPT ![s] = IdleSender]
              /\ UNCHANGED down
         ELSE /\ Len(down) < MaxNet
              /\ down' = Append(down, m)
              /\ snd' = [snd EXCEPT ![s].pc = "wait", ![s].msg = m]
              /\ UNCHANGED wq
  /\ UNCHANGED <<apiVars, syncs, syncCache, hub, disp, store, settled, up, sess,
                 connected, edgeVars, failures, crashes>>

\* sendMessageWithRetry: the ticker fires and the message is sent again, ...
SenderResend(s) ==
  /\ Live(s)
  /\ snd[s].pc = "wait"
  /\ snd[s].n < MaxRetry
  /\ Len(down) < MaxNet
  /\ down' = Append(down, snd[s].msg)
  /\ snd' = [snd EXCEPT ![s].n = snd[s].n + 1]
  /\ UNCHANGED <<apiVars, syncs, syncCache, hub, disp, poolVars, up, sess,
                 connected, edgeVars, failures, crashes>>

\* The message or its acknowledgement is on its way.
RoundTripPending(m) == m \in Range(down) \cup Range(up)

\* The timed out key is not put back.
SenderTimeoutNoRetry(s) ==
  /\ Live(s)
  /\ snd[s].pc = "wait"
  /\ snd[s].n = MaxRetry
  /\ wq' = WQDone(wq, snd[s].key)
  /\ snd' = [snd EXCEPT ![s] = IdleSender]
  /\ UNCHANGED <<apiVars, syncs, syncCache, hub, disp, store, settled, netVars,
                 edgeVars, failures, crashes>>

\* ... or, after the last resend, the key is put back for later.
SenderTimeout(s) ==
  /\ Live(s)
  /\ snd[s].pc = "wait"
  /\ snd[s].n = MaxRetry
  /\ Patient => ~snd[s].acked /\ ~RoundTripPending(snd[s].msg)
  /\ wq' = WQDone(WQAddRateLimited(wq, snd[s].key), snd[s].key)
  /\ snd' = [snd EXCEPT ![s] = IdleSender]
  /\ UNCHANGED <<apiVars, syncs, syncCache, hub, disp, store, settled, netVars,
                 edgeVars, failures, crashes>>

\* The back-off of a key is over.
Ripen(k) ==
  /\ k \in wq.delayed
  /\ wq' = WQRipen(wq, k)
  /\ UNCHANGED <<apiVars, syncs, syncCache, hub, disp, store, settled, netVars,
                 snd, edgeVars, failures, crashes>>

\* Mutant: any acknowledgement will do.
ReceiveAckAny ==
  /\ connected
  /\ up # << >>
  /\ Head(up).op # "query"
  /\ up' = Tail(up)
  /\ snd' = IF snd[sess].pc = "wait" THEN [snd EXCEPT ![sess].acked = TRUE] ELSE snd
  /\ UNCHANGED <<apiVars, syncs, syncCache, hub, disp, poolVars, down, sess,
                 connected, edgeVars, failures, crashes>>

\* ReceiveMessageAck: an acknowledgement reaches the node's current session,
\* which ignores it unless it waits for that very message.
ReceiveAck ==
  /\ connected
  /\ up # << >>
  /\ Head(up).op # "query"
  /\ up' = Tail(up)
  /\ snd' = IF snd[sess].pc = "wait" /\ snd[sess].msg = Head(up)
            THEN [snd EXCEPT ![sess].acked = TRUE] ELSE snd
  /\ UNCHANGED <<apiVars, syncs, syncCache, hub, disp, poolVars, down, sess,
                 connected, edgeVars, failures, crashes>>

\* saveSuccessPoint.  The goroutine of a closed session runs on: it still
\* writes to the API server, but its pool is no longer the node's.
SaveDelete(s) ==
  /\ snd[s].pc = "wait" /\ snd[s].acked
  /\ snd[s].msg.op = "delete"
  /\ \/ /\ syncs' = [syncs EXCEPT ![snd[s].msg.obj] = Absent]
        /\ disp' = SpoilDisp(disp, snd[s].msg.obj)
        /\ snd' = [SpoilSnd(snd, snd[s].msg.obj) EXCEPT ![s].pc = "drop"]
        /\ UNCHANGED failures
     \/ /\ failures < MaxFailures
        /\ failures' = failures + 1
        /\ snd' = [snd EXCEPT ![s].pc = "drop"]
        /\ UNCHANGED <<syncs, disp>>
  /\ UNCHANGED <<apiVars, syncCache, hub, poolVars, netVars, edgeVars, crashes>>

SaveGet(s) ==
  /\ snd[s].pc = "wait" /\ snd[s].acked
  /\ snd[s].msg.op # "delete"
  /\ snd' = IF syncs[snd[s].msg.obj] = Absent
            THEN [snd EXCEPT ![s].pc = "create"]
            ELSE [snd EXCEPT ![s].pc = "update", ![s].fresh = TRUE]
  /\ UNCHANGED <<apiVars, syncs, syncCache, hub, disp, poolVars, netVars,
                 edgeVars, failures, crashes>>

\* The end of syncAckMessage: Forget and Done, then the next key.  f is the
\* state the step leaves the other sessions in.
Finish(s, f) ==
  IF Live(s)
  THEN /\ snd' = [f EXCEPT ![s] = IdleSender]
       /\ wq' = WQDone(wq, snd[s].key)
       /\ settled' = [settled EXCEPT ![snd[s].key] =
                        @ \/ store[snd[s].key] = snd[s].msg]
  ELSE /\ snd' = [f EXCEPT ![s] = ExitedSender]
       /\ UNCHANGED <<wq, settled>>

\* AckMessageStore.Delete: whatever is stored under the key by now goes.
SaveDrop(s) ==
  /\ snd[s].pc = "drop"
  /\ store' = IF Live(s) THEN [store EXCEPT ![snd[s].key] = NoMsg] ELSE store
  /\ Finish(s, snd)
  /\ UNCHANGED <<apiVars, syncs, syncCache, hub, disp, netVars, edgeVars,
                 failures, crashes>>

SaveCreate(s) ==
  /\ snd[s].pc = "create"
  /\ LET o == snd[s].msg.obj
     IN  IF syncs[o] = Absent
         THEN /\ syncs' = [syncs EXCEPT ![o] = Blank]
              /\ disp' = SpoilDisp(disp, o)
              /\ snd' = [SpoilSnd(snd, o) EXCEPT ![s].pc = "update",
                                                 ![s].fresh = TRUE]
              /\ UNCHANGED <<wq, settled>>
         ELSE Finish(s, snd) /\ UNCHANGED <<syncs, disp>>
  /\ UNCHANGED <<apiVars, syncCache, hub, store, netVars, edgeVars, failures,
                 crashes>>

SaveUpdate(s) ==
  /\ snd[s].pc = "update"
  /\ LET o == snd[s].msg.obj
     IN  IF snd[s].fresh
         THEN /\ syncs' = [syncs EXCEPT ![o] = snd[s].msg.rv]
              /\ disp' = SpoilDisp(disp, o)
              /\ Finish(s, SpoilSnd(snd, o))
         ELSE Finish(s, snd) /\ UNCHANGED <<syncs, disp>>
  /\ UNCHANGED <<apiVars, syncCache, hub, store, netVars, edgeVars, failures,
                 crashes>>

\* An API call of saveSuccessPoint fails: the error is logged, and the
\* message counts as delivered all the same.
SaveFails(s) ==
  /\ \/ snd[s].pc = "wait" /\ snd[s].acked /\ snd[s].msg.op # "delete"
     \/ snd[s].pc \in {"create", "update"}
  /\ failures < MaxFailures
  /\ failures' = failures + 1
  /\ Finish(s, snd)
  /\ UNCHANGED <<apiVars, syncs, syncCache, hub, disp, store, netVars, edgeVars,
                 crashes>>

\* A closed session's goroutine may see the closed connection first.
ZombieExit(s) ==
  /\ ~Live(s)
  /\ snd[s].pc = "wait"
  /\ snd' = [snd EXCEPT ![s] = ExitedSender]
  /\ UNCHANGED <<apiVars, syncs, syncCache, hub, disp, poolVars, netVars,
                 edgeVars, failures, crashes>>

-----------------------------------------------------------------------------
(* Connections and restarts                                                 *)

\* The messages that survive a broken connection: those MetaManager already
\* received, and those EdgeHub has not yet sent.
KeepDown(k) == down' = SubSeq(down, 1, k)
KeepUp(j) == up' = SubSeq(up, j, Len(up))

ClearPool ==
  /\ store' = [o \in Objects |-> NoMsg]
  /\ wq' = WQEmpty
  /\ settled' = [o \in Objects |-> FALSE]

\* The connection breaks: the session terminates and its pool is deleted.
Disconnect ==
  /\ connected
  /\ sess < MaxSessions
  /\ connected' = FALSE
  /\ \E k \in 0 .. Len(down) : KeepDown(k)
  /\ \E j \in 1 .. Len(up) + 1 : KeepUp(j)
  /\ ClearPool
  /\ snd' = IF snd[sess].pc \in {"idle", "got"}
               \/ (snd[sess].pc = "wait" /\ ~snd[sess].acked)
            THEN [snd EXCEPT ![sess] = ExitedSender] ELSE snd
  /\ UNCHANGED <<apiVars, syncs, syncCache, hub, disp, sess, edgeVars, failures,
                 crashes>>

\* The node connects: a new session with a new pool replaces what there is.
\* EdgeHub may have written answers to the dead connection in between.
Connect ==
  /\ ~connected
  /\ sess < MaxSessions
  /\ sess' = sess + 1
  /\ connected' = TRUE
  /\ \E j \in 1 .. Len(up) + 1 : KeepUp(j)
  /\ ClearPool
  /\ UNCHANGED <<apiVars, syncs, syncCache, hub, disp, snd, down, edgeVars,
                 failures, crashes>>

\* cloudcore restarts: its informers list the objects and the ObjectSyncs.
Crash ==
  /\ crashes < MaxCrashes
  /\ sess < MaxSessions
  /\ crashes' = crashes + 1
  /\ connected' = FALSE
  /\ \E k \in 0 .. Len(down) : KeepDown(k)
  /\ \E j \in 1 .. Len(up) + 1 : KeepUp(j)
  /\ ClearPool
  /\ snd' = [s \in Sessions |-> IF s <= sess THEN ExitedSender ELSE snd[s]]
  /\ hub' = << >>
  /\ disp' = IdleDisp
  /\ answers' = {}
  /\ syncCache' = syncs
  /\ LET listed == {o \in Objects : Alive(o)}
     IN  \E n \in 0 .. Cardinality(Objects) : \E order \in Bijection(1 .. n, listed) :
           watch' = [i \in 1 .. n |-> Upsert(order[i], obj[order[i]].rv,
                                            obj[order[i]].phase = "terminating")]
  /\ UNCHANGED <<obj, syncs, sess, edge, waiting, queries, persisted, failures,
                 outrun>>

-----------------------------------------------------------------------------
(* The edge: MetaManager, and remote queries answered by EdgeController     *)

\* The messages under way without the i-th.
Without(i) == SubSeq(down, 1, i - 1) \o SubSeq(down, i + 1, Len(down))

\* The first message MetaManager's loop will process: answers to queries go
\* to the goroutine that waits for them, in no order with the others.
Orders == {i \in 1 .. Len(down) : down[i].op # "response"}

\* Mutants: answers to queries are not written; pods are deleted by name alone.
AppliedNoAnswers(m) ==
  CASE m.op = "response" -> edge
    [] m.op = "upsert" -> [edge EXCEPT ![NameOf[m.obj]] = [obj |-> m.obj, rv |-> m.rv]]
    [] OTHER -> [edge EXCEPT ![NameOf[m.obj]] = NoMsg]
AppliedByName(m) ==
  IF m.op = "delete"
  THEN [edge EXCEPT ![NameOf[m.obj]] = NoMsg]
  ELSE [edge EXCEPT ![NameOf[m.obj]] = [obj |-> m.obj, rv |-> m.rv]]

\* What a message does to the database.
Applied(m) ==
  CASE m.op # "delete" -> [edge EXCEPT ![NameOf[m.obj]] = [obj |-> m.obj, rv |-> m.rv]]
    [] m.op = "delete" /\ NameOf[m.obj] \in Pods ->
         IF edge[NameOf[m.obj]] # NoMsg /\ edge[NameOf[m.obj]].obj = m.obj
         THEN [edge EXCEPT ![NameOf[m.obj]] = NoMsg] ELSE edge
    [] OTHER -> [edge EXCEPT ![NameOf[m.obj]] = NoMsg]

\* handleMessage, then the acknowledgement.
Perform(m) ==
  /\ Len(up) < MaxNet
  /\ edge' = Applied(m)
  /\ persisted' = persisted \cup (IF m.op = "delete" THEN {} ELSE {<<m.obj, m.rv>>})
  /\ up' = Append(up, m)

\* MetaManager's loop takes its next message, ...
EdgeProcess ==
  \E i \in Orders :
    /\ \A j \in Orders : i <= j
    /\ down' = Without(i)
    /\ Perform(down[i])
    /\ UNCHANGED <<apiVars, syncs, syncCache, hub, disp, poolVars, sess, connected,
                   snd, waiting, queries, answers, failures, crashes>>

\* ... or fails on it: the error it reports is only logged by CloudHub.
EdgeFails ==
  \E i \in Orders :
    /\ \A j \in Orders : i <= j
    /\ failures < MaxFailures
    /\ failures' = failures + 1
    /\ down' = Without(i)
    /\ UNCHANGED <<apiVars, syncs, syncCache, hub, disp, poolVars, up, sess,
                   connected, snd, edgeVars, crashes>>

\* processRemote: edged asks for an object that is not a pod, EdgeHub sends
\* the query to the cloud.
EdgeQuery(n) ==
  /\ connected
  /\ n \notin Pods
  /\ queries < MaxQueries
  /\ Len(up) < MaxNet
  /\ queries' = queries + 1
  /\ waiting' = waiting \cup {queries + 1}
  /\ up' = Append(up, [op |-> "query", name |-> n, qid |-> queries + 1])
  /\ UNCHANGED <<apiVars, syncs, syncCache, hub, disp, poolVars, down, sess,
                 connected, snd, edge, answers, persisted, failures, crashes>>

\* EdgeController reads the object; an object that is not there is answered
\* by an error, which changes nothing here.
ReceiveQuery ==
  /\ connected
  /\ up # << >>
  /\ Head(up).op = "query"
  /\ up' = Tail(up)
  /\ answers' = answers \cup
       {Response(o, obj[o].rv, obj[o].phase = "terminating", Head(up).qid) :
          o \in {p \in Objects : NameOf[p] = Head(up).name /\ Alive(p)}}
  /\ UNCHANGED <<apiVars, syncs, syncCache, hub, disp, poolVars, down, sess,
                 connected, snd, edge, waiting, queries, persisted, failures,
                 crashes>>

\* EdgeController hands the answer it read to CloudHub.
PublishAnswer(m) ==
  /\ m \in answers
  /\ Len(hub) < MaxHub
  /\ hub' = Append(hub, m)
  /\ answers' = answers \ {m}
  /\ UNCHANGED <<apiVars, syncs, syncCache, disp, poolVars, netVars, snd, edge,
                 waiting, queries, persisted, failures, crashes>>

\* The answer reaches the goroutine that waits for it, or nobody.
EdgeAnswered ==
  \E i \in (1 .. Len(down)) \ Orders :
    /\ down' = Without(i)
    /\ IF down[i].qid \in waiting
       THEN Perform(down[i]) /\ waiting' = waiting \ {down[i].qid}
       ELSE UNCHANGED <<edge, persisted, up, waiting>>
    /\ UNCHANGED <<apiVars, syncs, syncCache, hub, disp, poolVars, sess, connected,
                   snd, queries, answers, failures, crashes>>

\* SendSync of processRemote times out.
QueryTimeout(q) ==
  /\ q \in waiting
  /\ waiting' = waiting \ {q}
  /\ UNCHANGED <<apiVars, syncs, syncCache, hub, disp, poolVars, netVars, snd,
                 edge, queries, answers, persisted, failures, crashes>>

-----------------------------------------------------------------------------
Environment ==
  \/ \E o \in Objects :
       \/ CreateObject(o)
       \/ UpdateObject(o, "live")
       \/ UpdateObject(o, "terminating")
       \/ RemoveObject(o)
  \/ Disconnect
  \/ Crash
  \/ DispatchFails
  \/ EdgeFails
  \/ \E s \in Sessions : SaveFails(s) \/ ZombieExit(s)
  \/ \E n \in Names : EdgeQuery(n)
  \/ \E q \in waiting : QueryTimeout(q)

DispatcherStep ==
  Dispatch \/ DispatchCreate \/ DispatchStatus \/ DispatchAdd \/ DispatchEnqueue

SenderStep(s) ==
  \/ SenderGet(s) \/ SenderSend(s) \/ SenderResend(s) \/ SenderTimeout(s)
  \/ SaveDelete(s) \/ SaveGet(s) \/ SaveDrop(s) \/ SaveCreate(s) \/ SaveUpdate(s)

Next ==
  \/ Environment
  \/ EdgeControllerSync
  \/ \E o \in Objects : InformerSync(o) \/ ReconcileObjectSync(o) \/ Ripen(o)
  \/ DispatcherStep
  \/ \E s \in Sessions : SenderStep(s)
  \/ ReceiveAck
  \/ Connect
  \/ EdgeProcess
  \/ ReceiveQuery
  \/ \E m \in answers : PublishAnswer(m)
  \/ EdgeAnswered

Spec == Init /\ [][Next]_vars

\* Every loop of cloudcore and of edgecore goes on.  Publishing waits for
\* room in the channel that all controllers share, hence strong fairness
\* there: the channel serves its senders in order.
Fairness ==
  /\ WF_vars(DispatcherStep)
  /\ \A s \in Sessions : WF_vars(SenderStep(s))
  /\ \A o \in Objects : WF_vars(InformerSync(o)) /\ WF_vars(Ripen(o))
  /\ WF_vars(ReceiveAck)
  /\ WF_vars(ReceiveQuery)
  /\ WF_vars(Connect)
  /\ WF_vars(EdgeProcess)
  /\ WF_vars(EdgeAnswered)
  /\ SF_vars(EdgeControllerSync)
  /\ \A o \in Objects : SF_vars(ReconcileObjectSync(o))
  /\ SF_vars(\E m \in answers : PublishAnswer(m))

FairSpec == Spec /\ Fairness

-----------------------------------------------------------------------------
(* Properties                                                               *)

SenderPc == {"idle", "got", "wait", "drop", "create", "update", "exit"}
DispPc == {"idle", "create", "status", "add", "enqueue"}

\* Every variable keeps its type.
TypeOK ==
  /\ obj \in [Objects -> [rv: Nat, phase: {"none", "live", "terminating", "gone"}]]
  /\ syncs \in [Objects -> SyncVersions]
  /\ syncCache \in [Objects -> SyncVersions]
  /\ watch \in Seq(Message)
  /\ hub \in Seq(Message)
  /\ disp \in [pc: DispPc, msg: Message \cup {NoMsg}, pool: Nat \X BOOLEAN,
               fresh: BOOLEAN]
  /\ disp.pc # "idle" => disp.msg \in Message
  /\ store \in [Objects -> Message \cup {NoMsg}]
  /\ WQType(wq, Objects)
  /\ sess \in Sessions
  /\ connected \in BOOLEAN
  /\ snd \in [Sessions -> [pc: SenderPc, key: Objects \cup {NoMsg},
                           msg: Message \cup {NoMsg}, n: Nat, acked: BOOLEAN,
                           fresh: BOOLEAN]]
  /\ down \in Seq(Message)
  /\ up \in Seq(Message \cup Query)
  /\ edge \in [Names -> [obj: Objects, rv: Nat] \cup {NoMsg}]
  /\ waiting \subseteq Nat
  /\ queries \in Nat
  /\ answers \subseteq Message
  /\ failures \in Nat
  /\ crashes \in Nat
  /\ persisted \subseteq Objects \X Nat
  /\ settled \in [Objects -> BOOLEAN]
  /\ outrun \subseteq Objects

\* saveSuccessPoint records in an ObjectSync only versions that the edge has
\* really written to its database, whatever is lost, resent, acknowledged
\* late or acknowledged to another session.
RecordedWasPersisted ==
  \A o \in Objects : syncs[o] >= 1 => <<o, syncs[o]>> \in persisted

\* The work queue and the sender agree on the one key in process: a key is
\* never lost in the queue nor handed out twice (syncAckMessage's Get/Done).
QueueAgrees ==
  /\ WQSound(wq)
  /\ wq.processing = {snd[s].key : s \in {t \in Sessions :
                        Live(t) /\ snd[t].pc \notin {"idle", "exit"}}}

\* A message in the node's store that the edge has not acknowledged is still
\* scheduled: queued, in process, backing off, or about to be queued by the
\* dispatcher (enqueueAckMessage's Add after Add).
NoLostMessage ==
  \A o \in Objects :
    store[o] # NoMsg /\ ~settled[o] =>
      \/ o \in WQScheduled(wq)
      \/ disp.pc = "enqueue" /\ disp.msg.obj = o /\ disp.pool = Pool

\* An ObjectSync is only removed once its object is gone from the API server:
\* until then saveSuccessPoint never forgets that the edge has the object.
RemovedOnlyWhenGone ==
  [][\A o \in Objects :
       syncs[o] # Absent /\ syncs'[o] = Absent => obj[o].phase = "gone"]_vars

\* Nothing is left to do: no event, message or key is pending anywhere, and
\* SyncController finds nothing to resend.
Quiet ==
  /\ watch = << >> /\ hub = << >> /\ down = << >> /\ up = << >>
  /\ answers = {}
  /\ disp.pc = "idle"
  /\ WQScheduled(wq) = {}
  /\ \A s \in Sessions : snd[s].pc \in {"idle", "exit"}
  /\ connected
  /\ syncCache = syncs
  /\ \A o \in Objects : ~NeedsDelete(o) /\ ~NeedsUpdate(o)

\* The edge stores the current version of each object, and nothing else.
EdgeInSync ==
  \A n \in Names :
    IF \E o \in Objects : NameOf[o] = n /\ Alive(o)
    THEN LET o == CHOOSE p \in Objects : NameOf[p] = n /\ Alive(p)
         IN  edge[n] = [obj |-> o, rv |-> obj[o].rv]
    ELSE edge[n] = NoMsg

\* When nothing is left to do, the edge has what the API server has: no order
\* of events, resends, rereads and acknowledgements leaves them apart.
QuietInSync == Quiet => EdgeInSync

\* Once the API server's objects stop changing, the edge comes to have what
\* the API server has, and keeps it.
Converges == <>[]EdgeInSync

\* As long as no API call fails, cloudcore does not restart and the edge asks
\* for nothing itself: however often the connection breaks, when nothing is left
\* to do the edge has the current version of every object there is ("will resend
\* the message to the edge node until CloudHub receive the acknowledgement"),
\* except of an object whose older event came after a newer version that
\* SyncController sent.
QuietDelivered ==
  Quiet /\ failures = 0 /\ crashes = 0 /\ queries = 0 =>
    \A o \in Objects :
      Alive(o) /\ o \notin outrun => edge[NameOf[o]] = [obj |-> o, rv |-> obj[o].rv]
=============================================================================
