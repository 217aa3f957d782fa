------------------------- MODULE ReliableSyncProofs -------------------------
(***************************************************************************)
(* Proofs about ReliableSync, for every set of objects and every bound.    *)
(*                                                                         *)
(* The inductive invariant IInv says where messages come from: each one    *)
(* that is anywhere under way is about an object that was created, and one *)
(* that deletes is about an object that is gone; each acknowledgement, and *)
(* each message a sender saw acknowledged, is of a version that the edge   *)
(* wrote.                                                                  *)
(*                                                                         *)
(* The inductive invariant QInv adds to NoLostMessage what the sender's    *)
(* unsynchronised read of the store needs: a message that replaced the one *)
(* being sent has made its key dirty, or its dispatcher is about to.       *)
(*                                                                         *)
(* The last part is about the order of the versions of an object on their  *)
(* way from the API server to the edge, place by place; DeliveryProofs     *)
(* uses it.                                                                *)
(***************************************************************************)
EXTENDS ReliableSync, TLAPS

\* Messages the controllers may have published in this state.
Genuine ==
  {m \in Message : /\ obj[m.obj].phase # "none"
                   /\ m.op = "delete" => obj[m.obj].phase = "gone"}

\* Messages the edge may have acknowledged in this state.
Confirmed == {m \in Genuine : m.op # "delete" => <<m.obj, m.rv>> \in persisted}

MaybeMsg == Genuine \cup {NoMsg}

Phases == {"none", "live", "terminating", "gone"}

ApiInv ==
  /\ obj \in [Objects -> [rv: Nat, phase: Phases]]
  /\ syncs \in [Objects -> SyncVersions]
  /\ syncCache \in [Objects -> SyncVersions]
  /\ watch \in Seq(Genuine)
  /\ \A o \in Objects : syncs[o] # Absent => obj[o].phase # "none"
  /\ \A o \in Objects : syncCache[o] # Absent => obj[o].phase # "none"
  /\ \A o \in Objects : syncs[o] >= 1 => <<o, syncs[o]>> \in persisted
  /\ outrun \in SUBSET Objects

DispInv ==
  /\ hub \in Seq(Genuine)
  /\ answers \in SUBSET Genuine
  /\ disp \in [pc: DispPc, msg: MaybeMsg, pool: Nat \X BOOLEAN, fresh: BOOLEAN]
  /\ disp.pc # "idle" => disp.msg \in Genuine

WorkQueues == [queue: Seq(Objects), dirty: SUBSET Objects,
               processing: SUBSET Objects, delayed: SUBSET Objects]

PoolInv ==
  /\ store \in [Objects -> MaybeMsg]
  /\ \A o \in Objects : store[o] # NoMsg => store[o].obj = o
  /\ wq \in WorkQueues
  /\ settled \in [Objects -> BOOLEAN]

SenderType == [pc: SenderPc, key: Objects \cup {NoMsg}, msg: Message \cup {NoMsg},
               n: Nat, acked: BOOLEAN, fresh: BOOLEAN]

\* What a sender knows, by where it is.
SenderOK(r) ==
  /\ r \in SenderType
  /\ r.pc = "got" => r.key \in Objects
  /\ r.pc \in {"wait", "drop", "create", "update"} =>
       r.msg \in Genuine /\ r.key = r.msg.obj
  /\ r.acked => r.msg \in Confirmed
  /\ r.pc \in {"idle", "got", "exit"} => ~r.acked
  /\ r.pc \in {"drop", "create", "update"} => r.acked
  /\ r.pc \in {"create", "update"} => r.msg.op # "delete"
  /\ r.pc = "drop" => r.msg.op = "delete"

SenderInv ==
  /\ snd \in [Sessions -> SenderType]
  /\ \A s \in Sessions : SenderOK(snd[s])

NetInv ==
  /\ sess \in Sessions
  /\ connected \in BOOLEAN
  /\ down \in Seq(Genuine)
  /\ up \in Seq(Confirmed \cup Query)

EdgeInv ==
  /\ edge \in [Names -> [obj: Objects, rv: Nat] \cup {NoMsg}]
  /\ waiting \in SUBSET Nat
  /\ queries \in Nat
  /\ failures \in Nat
  /\ crashes \in Nat
  /\ persisted \in SUBSET (Objects \X Nat)

IInv == ApiInv /\ DispInv /\ PoolInv /\ SenderInv /\ NetInv /\ EdgeInv

-----------------------------------------------------------------------------
(* Sequences                                                                *)

\* A sequence over a set is one over a larger set.
LEMMA SeqWiden ==
  ASSUME NEW S, NEW T, S \subseteq T, NEW q \in Seq(S)
  PROVE  q \in Seq(T)
  OBVIOUS

\* Taking from the front of a sequence, and adding at its end.
LEMMA SeqEnds ==
  ASSUME NEW S, NEW q \in Seq(S), q # << >>
  PROVE  Head(q) \in S /\ Tail(q) \in Seq(S)
  OBVIOUS

\* Cutting a sequence short on either side.
LEMMA SeqPrefix ==
  ASSUME NEW S, NEW q \in Seq(S), NEW k \in 0 .. Len(q)
  PROVE  SubSeq(q, 1, k) \in Seq(S)
  OBVIOUS

LEMMA SeqSuffix ==
  ASSUME NEW S, NEW q \in Seq(S), NEW j \in 1 .. Len(q) + 1
  PROVE  SubSeq(q, j, Len(q)) \in Seq(S)
  OBVIOUS

-----------------------------------------------------------------------------
(* Messages                                                                 *)

LEMMA UpsertType ==
  ASSUME NEW o \in Objects, NEW v \in Nat, NEW t \in BOOLEAN
  PROVE  /\ Upsert(o, v, t) \in Message
         /\ Upsert(o, v, t).op = "upsert" /\ Upsert(o, v, t).obj = o
<1>1. AnyId \in Ids
  BY Zenon, ReliableSyncAssumption DEF AnyId
<1>2. QED
  BY Zenon, <1>1 DEF Upsert, Message

LEMMA DeleteType ==
  ASSUME NEW o \in Objects
  PROVE  Delete(o) \in Message /\ Delete(o).obj = o
<1>1. AnyId \in Ids
  BY Zenon, ReliableSyncAssumption DEF AnyId
<1>2. QED
  BY Zenon, <1>1 DEF Delete, Message

-----------------------------------------------------------------------------
(* The dispatcher                                                           *)

LEMMA SpecialVersions == /\ Absent \in SyncVersions /\ ~(Absent >= 1)
                         /\ Blank \in SyncVersions /\ ~(Blank >= 1)
                         /\ 0 \in SyncVersions
  BY DEF SyncVersions, Absent, Blank

-----------------------------------------------------------------------------
(* The sender                                                               *)

LEMMA RestingSenders ==
  /\ IdleSender \in SenderType /\ SenderOK(IdleSender)
  /\ ExitedSender \in SenderType /\ SenderOK(ExitedSender)
  BY Zenon DEF IdleSender, ExitedSender, SenderType, SenderPc, SenderOK

-----------------------------------------------------------------------------
(* The invariant                                                            *)

LEMMA InitInvariant == Init => IInv
<1> SUFFICES ASSUME Init PROVE IInv
  BY Zenon
<1> USE DEF Init
<1>1. ApiInv
  <2>1. Absent \in SyncVersions /\ ~(Absent >= 1)
    BY Zenon, SpecialVersions
  <2>2. watch \in Seq(Genuine)
    OBVIOUS
  <2>3. obj \in [Objects -> [rv: Nat, phase: Phases]]
    BY Zenon DEF Phases
  <2>4. QED
    BY Zenon, <2>1, <2>2, <2>3 DEF ApiInv
<1>2. DispInv
  <2>1. /\ IdleDisp \in [pc: DispPc, msg: MaybeMsg, pool: Nat \X BOOLEAN,
                         fresh: BOOLEAN]
        /\ IdleDisp.pc = "idle"
    BY Zenon DEF IdleDisp, DispPc, MaybeMsg
  <2>2. hub \in Seq(Genuine) /\ answers \in SUBSET Genuine /\ disp = IdleDisp
    OBVIOUS
  <2> HIDE DEF Init
  <2>3. QED
    BY Zenon, <2>1, <2>2 DEF DispInv
<1>3. PoolInv
  <2>1. << >> \in Seq(Objects)
    OBVIOUS
  <2>2. WQEmpty \in WorkQueues
    BY Zenon, <2>1 DEF WQEmpty, WorkQueues
  <2>3. QED
    BY Zenon, <2>2 DEF PoolInv, MaybeMsg
<1>4. SenderInv
  BY Zenon, RestingSenders DEF SenderInv
<1>5. NetInv
  <2>1. sess \in Sessions /\ connected \in BOOLEAN
    BY ReliableSyncAssumption DEF Sessions
  <2>2. down \in Seq(Genuine) /\ up \in Seq(Confirmed \cup Query)
    OBVIOUS
  <2>3. QED
    BY Zenon, <2>1, <2>2 DEF NetInv
<1>6. EdgeInv
  BY Zenon DEF EdgeInv
<1>7. QED
  BY Zenon, <1>1, <1>2, <1>3, <1>4, <1>5, <1>6 DEF IInv

LEMMA StepInvariant == IInv /\ [Next]_vars => IInv'

(* Sequences *)
<1>SeqAppend.
  ASSUME NEW S, NEW q \in Seq(S), NEW x \in S
  PROVE  Append(q, x) \in Seq(S)
  BY <1>SeqAppend
\* Taking an element out of a sequence.
<1>SeqWithout.
  ASSUME NEW S, NEW q \in Seq(S), NEW i \in 1 .. Len(q)
  PROVE  q[i] \in S /\ SubSeq(q, 1, i - 1) \o SubSeq(q, i + 1, Len(q)) \in Seq(S)
  <2> USE <1>SeqWithout
  <2>1. SubSeq(q, 1, i - 1) \in Seq(S)
    BY SeqPrefix
  <2>2. SubSeq(q, i + 1, Len(q)) \in Seq(S)
    BY SeqSuffix
  <2>3. QED
    BY <2>1, <2>2

(* Messages *)
<1>ResponseType.
  ASSUME NEW o \in Objects, NEW v \in Nat, NEW t \in BOOLEAN, NEW q \in Nat
  PROVE  /\ Response(o, v, t, q) \in Message
         /\ Response(o, v, t, q).op = "response" /\ Response(o, v, t, q).obj = o
  <2> USE <1>ResponseType
  <2>1. AnyId \in Ids
    BY Zenon, ReliableSyncAssumption DEF AnyId
  <2>2. QED
    BY Zenon, <2>1 DEF Response, Message
\* Publishing only gives a message its ID.
<1>StampKeeps.
  ASSUME NEW m \in Message, CanPublish(m)
  PROVE  /\ Stamp(m) \in Message
         /\ Stamp(m).op = m.op /\ Stamp(m).obj = m.obj
  <2> USE <1>StampKeeps
  <2>1. Stamp(m) \in Stamped(m)
    BY Zenon DEF CanPublish, Stamp
  <2>2. PICK i \in Ids : Stamp(m) = [m EXCEPT !.id = i]
    BY Zenon, <2>1 DEF Stamped
  <2>3. QED
    BY Zenon, <2>2 DEF Message
\* A message that is published is genuine if the one it is made of is.
<1>PublishGenuine.
  ASSUME NEW m \in Genuine, CanPublish(m), Publish(m), hub \in Seq(Genuine)
  PROVE  hub' \in Seq(Genuine)
  <2> USE <1>PublishGenuine
  <2>1. Stamp(m) \in Genuine
    BY Zenon, <1>StampKeeps DEF Genuine
  <2>2. QED
    BY Zenon, <2>1, <1>SeqAppend DEF Publish
\* While no object changes, neither does what is genuine; while objects only
\* move on, what was genuine or confirmed stays so.
<1>GenuineStable.
  ASSUME ApiInv,
         obj' \in [Objects -> [rv: Nat, phase: Phases]],
         \A o \in Objects :
           /\ obj[o].phase # "none" => obj'[o].phase # "none"
           /\ obj[o].phase = "gone" => obj'[o].phase = "gone",
         persisted \subseteq persisted'
  PROVE  Genuine \subseteq Genuine' /\ Confirmed \subseteq Confirmed'
  <2> USE <1>GenuineStable
  <2>1. Genuine \subseteq Genuine'
    BY Zenon DEF Genuine, Message
  <2>2. Confirmed \subseteq Confirmed'
    BY Zenon, <2>1 DEF Confirmed
  <2>3. QED
    BY Zenon, <2>1, <2>2
\* What depends on messages alone survives steps of the API server and of
\* the edge.
<1>Widen.
  ASSUME IInv, Genuine \subseteq Genuine', Confirmed \subseteq Confirmed'
  PROVE  /\ UNCHANGED hub => hub' \in Seq(Genuine')
         /\ UNCHANGED watch => watch' \in Seq(Genuine')
         /\ UNCHANGED <<hub, answers, disp>> => DispInv'
         /\ UNCHANGED poolVars => PoolInv'
         /\ UNCHANGED snd => SenderInv'
         /\ UNCHANGED down => down' \in Seq(Genuine')
         /\ UNCHANGED up => up' \in Seq(Confirmed' \cup Query)
         /\ UNCHANGED netVars => NetInv'
  <2> USE <1>Widen
  <2>1. /\ UNCHANGED hub => hub' \in Seq(Genuine')
        /\ UNCHANGED watch => watch' \in Seq(Genuine')
        /\ UNCHANGED down => down' \in Seq(Genuine')
    BY Zenon, SeqWiden DEF IInv, ApiInv, DispInv, NetInv
  <2>2. UNCHANGED up => up' \in Seq(Confirmed' \cup Query)
    <3>1. Confirmed \cup Query \subseteq Confirmed' \cup Query
      BY Zenon
    <3>2. QED
      BY Zenon, <3>1, SeqWiden DEF IInv, NetInv
  <2>3. UNCHANGED <<hub, answers, disp>> => DispInv'
    BY Zenon, <2>1 DEF IInv, DispInv, MaybeMsg
  <2>4. UNCHANGED poolVars => PoolInv'
    BY Zenon DEF IInv, PoolInv, MaybeMsg, poolVars
  <2>5. UNCHANGED snd => SenderInv'
    BY Zenon DEF IInv, SenderInv, SenderOK
  <2>6. UNCHANGED netVars => NetInv'
    BY Zenon, <2>1, <2>2 DEF IInv, NetInv, netVars
  <2>7. QED
    BY Zenon, <2>1, <2>2, <2>3, <2>4, <2>5, <2>6
\* What a step leaves alone keeps its part of the invariant.
<1>Frame.
  ASSUME IInv, UNCHANGED <<obj, persisted>>
  PROVE  /\ Genuine' = Genuine /\ Confirmed' = Confirmed
         /\ UNCHANGED <<apiVars, syncs, syncCache>> => ApiInv'
         /\ UNCHANGED <<hub, answers, disp>> => DispInv'
         /\ UNCHANGED poolVars => PoolInv'
         /\ UNCHANGED snd => SenderInv'
         /\ UNCHANGED netVars => NetInv'
         /\ UNCHANGED <<edge, waiting, queries, failures, crashes>> => EdgeInv'
  <2> USE <1>Frame
  <2>1. Genuine' = Genuine
    BY Zenon DEF Genuine
  <2>2. Confirmed' = Confirmed
    BY Zenon, <2>1 DEF Confirmed
  <2>3. /\ UNCHANGED <<hub, answers, disp>> => DispInv'
        /\ UNCHANGED poolVars => PoolInv'
        /\ UNCHANGED snd => SenderInv'
        /\ UNCHANGED netVars => NetInv'
    BY Zenon, <2>1, <2>2, <1>Widen
  <2>4. UNCHANGED <<apiVars, syncs, syncCache>> => ApiInv'
    BY Zenon, <2>1 DEF IInv, ApiInv, apiVars
  <2>5. UNCHANGED <<edge, waiting, queries, failures, crashes>> => EdgeInv'
    BY Zenon DEF IInv, EdgeInv
  <2>6. QED
    BY Zenon, <2>1, <2>2, <2>3, <2>4, <2>5

(* The API server and the controllers *)
<1>ObjectSteps.
  ASSUME IInv, NEW o \in Objects, NEW ph \in {"live", "terminating"},
         CreateObject(o) \/ UpdateObject(o, ph) \/ RemoveObject(o)
  PROVE  IInv'
  <2> USE <1>ObjectSteps
  <2>1. /\ obj' \in [Objects -> [rv: Nat, phase: Phases]]
        /\ \A p \in Objects :
             /\ obj[p].phase # "none" => obj'[p].phase # "none"
             /\ obj[p].phase = "gone" => obj'[p].phase = "gone"
        /\ obj'[o].phase # "none"
    <3>1. obj \in [Objects -> [rv: Nat, phase: Phases]]
      BY Zenon DEF IInv, ApiInv
    <3>2. CASE CreateObject(o)
      BY Zenon, <3>1, <3>2 DEF CreateObject, Phases
    <3>3. CASE UpdateObject(o, ph)
      BY <3>1, <3>3 DEF UpdateObject, Alive, Phases
    <3>4. CASE RemoveObject(o)
      BY Zenon, <3>1, <3>4 DEF RemoveObject, Alive, Phases
    <3>5. QED
      BY Zenon, <3>2, <3>3, <3>4
  <2>2. UNCHANGED <<syncs, syncCache, hub, disp, poolVars, netVars, snd, edgeVars,
                    failures, crashes, outrun>>
    BY Zenon DEF CreateObject, UpdateObject, RemoveObject
  <2>3. Genuine \subseteq Genuine' /\ Confirmed \subseteq Confirmed'
    BY Zenon, <2>1, <2>2, <1>GenuineStable DEF IInv, edgeVars
  <2>4. watch' \in Seq(Genuine')
    <3>1. watch \in Seq(Genuine')
      BY Zenon, <2>3, SeqWiden DEF IInv, ApiInv
    <3>2. \E m \in Genuine' : watch' = Append(watch, m)
      <4>1. CASE CreateObject(o)
        <5> DEFINE m == Upsert(o, 1, FALSE)
        <5>1. m \in Message /\ m.op = "upsert" /\ m.obj = o
          BY Zenon, UpsertType
        <5>2. m \in Genuine'
          <6> HIDE DEF m
          <6> QED
            BY Zenon, <2>1, <5>1 DEF Genuine
        <5>3. QED
          BY Zenon, <4>1, <5>2 DEF CreateObject
      <4>2. CASE UpdateObject(o, ph)
        <5>1. obj[o].rv + 1 \in Nat /\ (ph = "terminating") \in BOOLEAN
          BY DEF IInv, ApiInv
        <5> DEFINE m == Upsert(o, obj[o].rv + 1, ph = "terminating")
        <5>2. m \in Message /\ m.op = "upsert" /\ m.obj = o
          BY Zenon, <5>1, UpsertType
        <5>3. m \in Genuine'
          <6> HIDE DEF m
          <6> QED
            BY Zenon, <2>1, <5>2 DEF Genuine
        <5>4. QED
          BY Zenon, <4>2, <5>3 DEF UpdateObject
      <4>3. CASE RemoveObject(o)
        <5>1. obj'[o].phase = "gone"
          BY Zenon, <4>3 DEF RemoveObject, IInv, ApiInv
        <5>2. Delete(o) \in Genuine'
          BY Zenon, <2>1, <5>1, DeleteType DEF Genuine
        <5>3. QED
          BY Zenon, <4>3, <5>2 DEF RemoveObject
      <4>4. QED
        BY Zenon, <4>1, <4>2, <4>3
    <3>3. QED
      BY Zenon, <3>1, <3>2, <1>SeqAppend
  <2>5. ApiInv'
    BY Zenon, <2>1, <2>2, <2>4 DEF IInv, ApiInv, edgeVars
  <2>6. QED
    BY Zenon, <2>2, <2>3, <2>5, <1>Widen DEF IInv, EdgeInv, edgeVars
<1>ControllerSteps.
  ASSUME IInv, NEW o \in Objects,
         EdgeControllerSync \/ InformerSync(o) \/ ReconcileObjectSync(o)
  PROVE  IInv'
  <2> USE <1>ControllerSteps
  <2>1. CASE EdgeControllerSync
    <3>1. Head(watch) \in Genuine /\ Tail(watch) \in Seq(Genuine)
      BY Zenon, <2>1, SeqEnds DEF IInv, ApiInv, EdgeControllerSync
    <3>2. hub' \in Seq(Genuine)
      BY Zenon, <2>1, <3>1, <1>PublishGenuine DEF EdgeControllerSync, IInv, DispInv
    <3>3. QED
      BY Zenon, <2>1, <3>1, <3>2, <1>Frame
         DEF EdgeControllerSync, IInv, ApiInv, DispInv, edgeVars, MaybeMsg
  <2>2. CASE InformerSync(o)
    BY Zenon, <2>2, <1>Frame DEF InformerSync, IInv, ApiInv, apiVars, edgeVars
  <2>3. CASE ReconcileObjectSync(o)
    <3>1. obj[o].rv \in Nat /\ (obj[o].phase = "terminating") \in BOOLEAN
      BY Zenon DEF IInv, ApiInv
    <3>2. NeedsDelete(o) => Delete(o) \in Genuine
      BY DeleteType DEF NeedsDelete, Alive, Genuine, IInv, ApiInv, Phases
    <3>3. NeedsUpdate(o) =>
            Upsert(o, obj[o].rv, obj[o].phase = "terminating") \in Genuine
      BY Zenon, <3>1, UpsertType DEF NeedsUpdate, Alive, Genuine
    <3>4. hub' \in Seq(Genuine)
      BY Zenon, <2>3, <3>2, <3>3, <1>PublishGenuine DEF ReconcileObjectSync, IInv, DispInv
    <3>5. outrun' \in SUBSET Objects
      BY Zenon, <2>3 DEF ReconcileObjectSync, IInv, ApiInv
    <3>6. QED
      BY Zenon, <2>3, <3>4, <3>5, <1>Frame
         DEF ReconcileObjectSync, IInv, ApiInv, DispInv, edgeVars, MaybeMsg
  <2>4. QED
    BY Zenon, <2>1, <2>2, <2>3

(* The dispatcher *)
\* A write to an ObjectSync changes only what its other readers think of it.
<1>SpoilKeeps.
  ASSUME IInv, NEW o \in Objects
  PROVE  /\ SpoilSnd(snd, o) \in [Sessions -> SenderType]
         /\ \A s \in Sessions : SenderOK(SpoilSnd(snd, o)[s])
         /\ SpoilDisp(disp, o) \in
              [pc: DispPc, msg: MaybeMsg, pool: Nat \X BOOLEAN, fresh: BOOLEAN]
         /\ SpoilDisp(disp, o).pc = disp.pc /\ SpoilDisp(disp, o).msg = disp.msg
  <2> USE <1>SpoilKeeps
  <2>1. ASSUME NEW s \in Sessions
        PROVE  SenderOK(SpoilSnd(snd, o)[s])
    <3>1. SenderOK(snd[s])
      BY Zenon DEF IInv, SenderInv
    <3>2. CASE SpoilSnd(snd, o)[s] = snd[s]
      BY Zenon, <3>1, <3>2
    <3>3. CASE SpoilSnd(snd, o)[s] = [snd[s] EXCEPT !.fresh = FALSE]
      BY Zenon, <3>1, <3>3 DEF SenderOK, SenderType
    <3>4. QED
      BY Zenon, <3>2, <3>3 DEF SpoilSnd
  <2>2. SpoilSnd(snd, o) \in [Sessions -> SenderType]
    BY Zenon, <2>1 DEF SenderOK, SpoilSnd
  <2>3. QED
    BY Zenon, <2>1, <2>2 DEF SpoilDisp, IInv, DispInv
<1>SpoilStep.
  ASSUME IInv, NEW o \in Objects, UNCHANGED <<obj, persisted>>,
         snd' = SpoilSnd(snd, o) \/ snd' = snd
  PROVE  SenderInv'
  <2> USE <1>SpoilStep
  <2>1. /\ snd' \in [Sessions -> SenderType]
        /\ \A s \in Sessions : SenderOK(snd'[s])
    BY Zenon, <1>SpoilKeeps DEF IInv, SenderInv
  <2>2. Genuine' = Genuine /\ Confirmed' = Confirmed
    BY Zenon, <1>Frame
  <2>3. ASSUME NEW s \in Sessions
        PROVE  SenderOK(snd[s])'
    BY Zenon, <2>1, <2>2 DEF SenderOK
  <2>4. QED
    BY Zenon, <2>1, <2>3 DEF SenderInv
\* A write to an ObjectSync keeps what the API server's part says of it.
<1>SyncWrite.
  ASSUME ApiInv, NEW o \in Objects, NEW v \in SyncVersions,
         obj[o].phase # "none",
         v >= 1 => <<o, v>> \in persisted,
         syncs' = [syncs EXCEPT ![o] = v],
         UNCHANGED <<apiVars, syncCache, persisted>>
  PROVE  ApiInv'
  <2> USE <1>SyncWrite
  <2>1. syncs' \in [Objects -> SyncVersions]
    BY Zenon DEF ApiInv
  <2>2. \A p \in Objects : syncs'[p] = IF p = o THEN v ELSE syncs[p]
    BY Zenon DEF ApiInv
  <2>3. Genuine' = Genuine
    BY Zenon DEF Genuine, apiVars
  <2>4. QED
    BY Zenon, <2>1, <2>2, <2>3 DEF ApiInv, apiVars
\* The queue keeps its type.
<1>QueueTypes.
  ASSUME NEW w \in WorkQueues, NEW k \in Objects
  PROVE  /\ WQAdd(w, k) \in WorkQueues /\ WQDone(w, k) \in WorkQueues
         /\ WQAddRateLimited(w, k) \in WorkQueues /\ WQRipen(w, k) \in WorkQueues
  <2> USE <1>QueueTypes
  <2>1. ASSUME NEW v \in WorkQueues PROVE WQAdd(v, k) \in WorkQueues
    <3>1. Append(v.queue, k) \in Seq(Objects)
      BY Zenon, <1>SeqAppend DEF WorkQueues
    <3>2. QED
      BY Zenon, <3>1 DEF WorkQueues, WQAdd
  <2>2. WQDone(w, k) \in WorkQueues
    <3>1. Append(w.queue, k) \in Seq(Objects)
      BY Zenon, <1>SeqAppend DEF WorkQueues
    <3>2. QED
      BY Zenon, <3>1 DEF WorkQueues, WQDone
  <2>3. WQAddRateLimited(w, k) \in WorkQueues
    BY Zenon DEF WorkQueues, WQAddRateLimited
  <2>4. WQRipen(w, k) \in WorkQueues
    <3>1. [w EXCEPT !.delayed = w.delayed \ {k}] \in WorkQueues
      BY Zenon DEF WorkQueues
    <3>2. QED
      BY Zenon, <2>1, <3>1 DEF WQRipen
  <2>5. QED
    BY Zenon, <2>1, <2>2, <2>3, <2>4
<1>QueueGetType.
  ASSUME NEW w \in WorkQueues, w.queue # << >>
  PROVE  WQGet(w) \in WorkQueues /\ Head(w.queue) \in Objects
  <2> USE <1>QueueGetType
  <2>1. Head(w.queue) \in Objects /\ Tail(w.queue) \in Seq(Objects)
    BY Zenon, SeqEnds DEF WorkQueues
  <2>2. QED
    BY Zenon, <2>1 DEF WorkQueues, WQGet
<1>DispatcherSteps.
  ASSUME IInv, DispatcherStep \/ DispatchFails
  PROVE  IInv'
  <2> USE <1>DispatcherSteps
  <2> USE DEF IInv
  <2>1. IdleDisp \in [pc: DispPc, msg: MaybeMsg, pool: Nat \X BOOLEAN, fresh: BOOLEAN]
    BY Zenon DEF IdleDisp, DispPc, MaybeMsg
  <2>2. CASE Dispatch
    <3>1. Head(hub) \in Genuine /\ Tail(hub) \in Seq(Genuine)
      BY Zenon, <2>2, SeqEnds DEF Dispatch, DispInv
    <3>2. Verdict(Head(hub)) \in {"idle", "create", "add"}
      BY Zenon DEF Verdict
    <3>3. Pool \in Nat \X BOOLEAN
      BY ReliableSyncAssumption DEF Pool, NetInv, Sessions
    <3>4. disp' \in [pc: DispPc, msg: Genuine \cup {NoMsg}, pool: Nat \X BOOLEAN,
                     fresh: BOOLEAN]
          /\ (disp'.pc # "idle" => disp'.msg \in Genuine)
      BY Zenon, <2>1, <2>2, <3>1, <3>2, <3>3 DEF Dispatch, DispPc, MaybeMsg, IdleDisp
    <3>5. QED
      BY Zenon, <2>2, <3>1, <3>4, <1>Frame DEF Dispatch, DispInv, apiVars, edgeVars, MaybeMsg
  <2>3. CASE DispatchCreate
    <3>1. disp.msg \in Genuine /\ disp.msg.obj \in Objects
          /\ obj[disp.msg.obj].phase # "none"
      BY Zenon, <2>3 DEF DispatchCreate, DispInv, Genuine, Message
    <3>2. UNCHANGED <<apiVars, syncCache, hub, poolVars, netVars, edgeVars, failures,
                      crashes>>
      BY Zenon, <2>3 DEF DispatchCreate
    <3>3. SenderInv'
      <4>1. snd' = SpoilSnd(snd, disp.msg.obj) \/ snd' = snd
        BY Zenon, <2>3 DEF DispatchCreate
      <4>2. UNCHANGED <<obj, persisted>>
        BY Zenon, <3>2 DEF apiVars, edgeVars
      <4>3. QED
        BY Zenon, <3>1, <4>1, <4>2, <1>SpoilStep
    <3>4. DispInv'
      BY Zenon, <2>1, <2>3, <3>1, <3>2, <1>Frame
         DEF DispatchCreate, DispInv, DispPc, IdleDisp, MaybeMsg, apiVars, edgeVars
    <3>5. ApiInv'
      BY Zenon, <2>3, <3>1, <3>2, <1>SyncWrite, SpecialVersions, <1>Frame
         DEF DispatchCreate, apiVars, edgeVars
    <3>6. QED
      BY Zenon, <3>2, <3>3, <3>4, <3>5, <1>Frame DEF edgeVars, apiVars
  <2>4. CASE DispatchStatus
    <3>1. disp.msg \in Genuine /\ disp.msg.obj \in Objects
          /\ obj[disp.msg.obj].phase # "none"
      BY Zenon, <2>4 DEF DispatchStatus, DispInv, Genuine, Message
    <3>2. UNCHANGED <<apiVars, syncCache, hub, poolVars, netVars, edgeVars, failures,
                      crashes>>
      BY Zenon, <2>4 DEF DispatchStatus
    <3>3. SenderInv'
      <4>1. snd' = SpoilSnd(snd, disp.msg.obj) \/ snd' = snd
        BY Zenon, <2>4 DEF DispatchStatus
      <4>2. UNCHANGED <<obj, persisted>>
        BY Zenon, <3>2 DEF apiVars, edgeVars
      <4>3. QED
        BY Zenon, <3>1, <4>1, <4>2, <1>SpoilStep
    <3>4. DispInv'
      BY Zenon, <2>1, <2>4, <3>1, <3>2, <1>Frame
         DEF DispatchStatus, DispInv, DispPc, IdleDisp, MaybeMsg, apiVars, edgeVars
    <3>5. ApiInv'
      <4>1. CASE disp.fresh
        <5>1. syncs' = [syncs EXCEPT ![disp.msg.obj] = 0] /\ ~(0 >= 1)
          BY <2>4, <4>1 DEF DispatchStatus
        <5>2. QED
          BY Zenon, <3>1, <3>2, <5>1, <1>SyncWrite, SpecialVersions DEF edgeVars
      <4>2. CASE ~disp.fresh
        BY Zenon, <2>4, <3>2, <4>2, <1>Frame DEF DispatchStatus, apiVars, edgeVars
      <4>3. QED
        BY Zenon, <4>1, <4>2
    <3>6. QED
      BY Zenon, <3>2, <3>3, <3>4, <3>5, <1>Frame DEF edgeVars, apiVars
  <2>5. CASE DispatchFails
    <3>1. DispInv'
      BY Zenon, <2>1, <2>5, <1>Frame
         DEF DispatchFails, DispInv, IdleDisp, MaybeMsg, edgeVars, apiVars
    <3>2. EdgeInv'
      BY <2>5 DEF DispatchFails, EdgeInv, edgeVars
    <3>3. QED
      BY Zenon, <2>5, <3>1, <3>2, <1>Frame DEF DispatchFails, edgeVars, apiVars
  <2>6. CASE DispatchAdd
    <3>1. disp.msg \in Genuine /\ disp.msg.obj \in Objects
      BY Zenon, <2>6 DEF DispatchAdd, DispInv, Genuine, Message
    <3>2. PoolInv'
      BY ZenonT(30), <2>6, <3>1, <1>Frame DEF DispatchAdd, PoolInv, MaybeMsg, edgeVars, apiVars
    <3>3. DispInv'
      BY Zenon, <2>6, <1>Frame DEF DispatchAdd, DispInv, DispPc, MaybeMsg, edgeVars, apiVars
    <3>4. QED
      BY Zenon, <2>6, <3>2, <3>3, <1>Frame DEF DispatchAdd, edgeVars, apiVars
  <2>7. CASE DispatchEnqueue
    <3>1. disp.msg.obj \in Objects
      BY Zenon, <2>7 DEF DispatchEnqueue, DispInv, Genuine, Message
    <3>2. PoolInv'
      BY Zenon, <2>7, <3>1, <1>QueueTypes, <1>Frame
         DEF DispatchEnqueue, PoolInv, MaybeMsg, edgeVars, apiVars
    <3>3. DispInv'
      BY Zenon, <2>1, <2>7, <1>Frame
         DEF DispatchEnqueue, DispInv, IdleDisp, MaybeMsg, edgeVars, apiVars
    <3>4. QED
      BY Zenon, <2>7, <3>2, <3>3, <1>Frame DEF DispatchEnqueue, edgeVars, apiVars
  <2>8. QED
    BY Zenon, <2>2, <2>3, <2>4, <2>5, <2>6, <2>7 DEF DispatcherStep

(* The sender *)
\* A sender that changes into a good one keeps the senders good.
<1>SenderWrite.
  ASSUME IInv, NEW f, f \in [Sessions -> SenderType],
         \A t \in Sessions : SenderOK(f[t]),
         NEW s \in Sessions, NEW r, SenderOK(r),
         snd' = [f EXCEPT ![s] = r], UNCHANGED <<obj, persisted>>
  PROVE  SenderInv'
  <2> USE <1>SenderWrite
  <2>1. Genuine' = Genuine /\ Confirmed' = Confirmed
    BY Zenon, <1>Frame
  <2>2. r \in SenderType
    BY Zenon DEF SenderOK
  <2>3. snd' \in [Sessions -> SenderType]
    BY Zenon, <2>2
  <2>4. \A t \in Sessions : SenderOK(snd'[t])
    BY Zenon
  <2>5. QED
    BY Zenon, <2>1, <2>3, <2>4 DEF SenderInv, SenderOK
\* Get, send, resend and time out.
<1>SendingSteps.
  ASSUME IInv, NEW s \in Sessions,
         SenderGet(s) \/ SenderSend(s) \/ SenderResend(s) \/ SenderTimeout(s)
  PROVE  IInv'
  <2> USE <1>SendingSteps
  <2> USE DEF IInv
  <2>1. snd \in [Sessions -> SenderType] /\ \A t \in Sessions : SenderOK(snd[t])
    BY Zenon DEF SenderInv
  <2>2. SenderOK(snd[s]) /\ snd[s] \in SenderType
    BY Zenon, <2>1
  <2>3. CASE SenderGet(s)
    <3>1. WQGet(wq) \in WorkQueues /\ Head(wq.queue) \in Objects
      BY Zenon, <2>3, <1>QueueGetType DEF SenderGet, PoolInv
    <3>2. SenderInv'
      <4> DEFINE r == [snd[s] EXCEPT !.pc = "got", !.key = Head(wq.queue)]
      <4>1. SenderOK(r)
        BY Zenon, <2>2, <2>3, <3>1 DEF SenderGet, SenderOK, SenderType, SenderPc
      <4>2. snd' = [snd EXCEPT ![s] = r]
        BY Zenon, <2>1, <2>3 DEF SenderGet
      <4>3. QED
        BY Zenon, <2>1, <2>3, <4>1, <4>2, <1>SenderWrite DEF SenderGet, apiVars, edgeVars
    <3>3. PoolInv'
      <4>1. wq' \in WorkQueues /\ UNCHANGED <<store, settled>>
        BY Zenon, <2>3, <3>1 DEF SenderGet
      <4>2. Genuine' = Genuine
        BY Zenon, <2>3, <1>Frame DEF SenderGet, apiVars, edgeVars
      <4>3. QED
        BY Zenon, <4>1, <4>2 DEF PoolInv, MaybeMsg
    <3>4. QED
      BY Zenon, <2>3, <3>2, <3>3, <1>Frame DEF SenderGet, apiVars, edgeVars
  <2>4. CASE SenderSend(s)
    <3>1. snd[s].key \in Objects
      BY Zenon, <2>2, <2>4 DEF SenderSend, SenderOK
    <3>2. CASE store[snd[s].key] = NoMsg
      <4>1. WQDone(wq, snd[s].key) \in WorkQueues
        BY Zenon, <3>1, <1>QueueTypes DEF PoolInv
      <4>2. SenderInv'
        BY Zenon, <2>1, <2>4, <3>2, RestingSenders, <1>SenderWrite
           DEF SenderSend, apiVars, edgeVars
      <4>3. PoolInv'
        BY Zenon, <2>4, <3>2, <4>1, <1>Frame DEF SenderSend, PoolInv, MaybeMsg, apiVars, edgeVars
      <4>4. QED
        BY Zenon, <2>4, <3>2, <4>2, <4>3, <1>Frame DEF SenderSend, netVars, apiVars, edgeVars
    <3>3. CASE store[snd[s].key] # NoMsg
      <4> DEFINE m == store[snd[s].key]
                 r == [snd[s] EXCEPT !.pc = "wait", !.msg = m]
      <4>1. m \in Genuine /\ m.obj = snd[s].key /\ m \in Message
        BY Zenon, <3>1, <3>3 DEF PoolInv, MaybeMsg, Genuine
      <4>2. SenderOK(r)
        <5> HIDE DEF m
        <5> QED
          BY Zenon, <2>2, <2>4, <4>1 DEF SenderSend, SenderOK, SenderType, SenderPc
      <4>3. snd' = [snd EXCEPT ![s] = r]
        BY Zenon, <2>1, <2>4, <3>3 DEF SenderSend
      <4>4. SenderInv'
        BY Zenon, <2>1, <2>4, <4>2, <4>3, <1>SenderWrite DEF SenderSend, apiVars, edgeVars
      <4>5. down' \in Seq(Genuine)
        BY <2>4, <3>3, <4>1, <1>SeqAppend DEF SenderSend, NetInv
      <4>6. NetInv'
        BY Zenon, <2>4, <4>5, <1>Frame DEF SenderSend, NetInv, apiVars, edgeVars
      <4>7. QED
        BY Zenon, <2>4, <3>3, <4>4, <4>6, <1>Frame DEF SenderSend, poolVars, apiVars, edgeVars
    <3>4. QED
      BY Zenon, <3>2, <3>3
  <2>5. CASE SenderResend(s)
    <3>1. snd[s].msg \in Genuine
      BY Zenon, <2>2, <2>5 DEF SenderResend, SenderOK
    <3>2. SenderInv'
      <4> DEFINE r == [snd[s] EXCEPT !.n = snd[s].n + 1]
      <4>1. SenderOK(r)
        BY <2>2 DEF SenderOK, SenderType
      <4>2. snd' = [snd EXCEPT ![s] = r]
        BY Zenon, <2>1, <2>5 DEF SenderResend
      <4>3. QED
        BY Zenon, <2>1, <2>5, <4>1, <4>2, <1>SenderWrite DEF SenderResend, apiVars, edgeVars
    <3>3. down' \in Seq(Genuine)
      BY Zenon, <2>5, <3>1, <1>SeqAppend DEF SenderResend, NetInv
    <3>4. NetInv'
      BY Zenon, <2>5, <3>3, <1>Frame DEF SenderResend, NetInv, apiVars, edgeVars
    <3>5. QED
      BY Zenon, <2>5, <3>2, <3>4, <1>Frame DEF SenderResend, apiVars, edgeVars
  <2>6. CASE SenderTimeout(s)
    <3>1. snd[s].key \in Objects
      BY Zenon, <2>2, <2>6 DEF SenderTimeout, SenderOK, Genuine, Message
    <3>2. wq' \in WorkQueues
      BY Zenon, <2>6, <3>1, <1>QueueTypes DEF SenderTimeout, PoolInv
    <3>3. SenderInv'
      BY Zenon, <2>1, <2>6, RestingSenders, <1>SenderWrite DEF SenderTimeout, apiVars, edgeVars
    <3>4. PoolInv'
      BY Zenon, <2>6, <3>2, <1>Frame DEF SenderTimeout, PoolInv, MaybeMsg, apiVars, edgeVars
    <3>5. QED
      BY Zenon, <2>6, <3>3, <3>4, <1>Frame DEF SenderTimeout, apiVars, edgeVars
  <2>7. QED
    BY Zenon, <2>3, <2>4, <2>5, <2>6
\* Keys that ripen, and acknowledgements.
<1>RipenStep.
  ASSUME IInv, NEW k \in Objects, Ripen(k)
  PROVE  IInv'
  <2> USE <1>RipenStep
  <2>1. wq' \in WorkQueues
    BY Zenon, <1>QueueTypes DEF Ripen, IInv, PoolInv
  <2>2. PoolInv'
    BY Zenon, <2>1, <1>Frame DEF Ripen, IInv, PoolInv, MaybeMsg, apiVars, edgeVars
  <2>3. QED
    BY Zenon, <2>2, <1>Frame DEF Ripen, IInv, apiVars, edgeVars
<1>ReceiveAckStep.
  ASSUME IInv, ReceiveAck
  PROVE  IInv'
  <2> USE <1>ReceiveAckStep
  <2> USE DEF IInv
  <2>1. Head(up) \in Confirmed /\ Tail(up) \in Seq(Confirmed \cup Query)
    <3>1. Head(up) \in Confirmed \cup Query /\ Tail(up) \in Seq(Confirmed \cup Query)
      BY Zenon, SeqEnds DEF ReceiveAck, NetInv
    <3>2. QED
      BY Zenon, <3>1 DEF ReceiveAck, Query
  <2>2. NetInv'
    BY Zenon, <2>1, <1>Frame DEF ReceiveAck, NetInv, apiVars, edgeVars
  <2>3. SenderInv'
    <3>1. snd \in [Sessions -> SenderType] /\ \A t \in Sessions : SenderOK(snd[t])
      BY Zenon DEF SenderInv
    <3>2. sess \in Sessions
      BY Zenon DEF NetInv
    <3>3. CASE snd[sess].pc = "wait" /\ snd[sess].msg = Head(up)
      <4> DEFINE r == [snd[sess] EXCEPT !.acked = TRUE]
      <4>1. SenderOK(r)
        BY Zenon, <2>1, <3>1, <3>2, <3>3 DEF SenderOK, SenderType
      <4>2. snd' = [snd EXCEPT ![sess] = r]
        BY Zenon, <3>1, <3>2, <3>3 DEF ReceiveAck
      <4>3. QED
        BY Zenon, <3>1, <3>2, <4>1, <4>2, <1>SenderWrite DEF ReceiveAck, apiVars, edgeVars
    <3>4. CASE ~(snd[sess].pc = "wait" /\ snd[sess].msg = Head(up))
      BY Zenon, <3>4, <1>Frame DEF ReceiveAck, apiVars, edgeVars
    <3>5. QED
      BY Zenon, <3>3, <3>4
  <2>4. QED
    BY Zenon, <2>2, <2>3, <1>Frame DEF ReceiveAck, apiVars, edgeVars
\* The end of syncAckMessage.
<1>FinishKeeps.
  ASSUME IInv, NEW s \in Sessions, NEW f, f \in [Sessions -> SenderType],
         \A t \in Sessions : SenderOK(f[t]),
         snd[s].key \in Objects, Finish(s, f), UNCHANGED <<obj, persisted>>
  PROVE  SenderInv' /\ wq' \in WorkQueues /\ settled' \in [Objects -> BOOLEAN]
  <2> USE <1>FinishKeeps
  <2>1. SenderInv'
    BY Zenon, RestingSenders, <1>SenderWrite DEF Finish
  <2>2. wq' \in WorkQueues
    BY <1>QueueTypes DEF Finish, IInv, PoolInv
  <2>3. settled' \in [Objects -> BOOLEAN]
    <3>1. settled \in [Objects -> BOOLEAN]
      BY Zenon DEF IInv, PoolInv
    <3> DEFINE v == settled[snd[s].key] \/ store[snd[s].key] = snd[s].msg
    <3>2. settled' = [settled EXCEPT ![snd[s].key] = v] \/ settled' = settled
      BY Zenon DEF Finish
    <3>3. v \in BOOLEAN
      BY Zenon
    <3> HIDE DEF v, IInv, Finish
    <3>4. QED
      BY Zenon, <3>1, <3>2, <3>3
  <2>4. QED
    BY Zenon, <2>1, <2>2, <2>3
\* saveSuccessPoint, step by step.
<1>SavingSteps.
  ASSUME IInv, NEW s \in Sessions,
         \/ SaveDelete(s) \/ SaveGet(s) \/ SaveDrop(s) \/ SaveCreate(s)
         \/ SaveUpdate(s) \/ SaveFails(s) \/ ZombieExit(s)
  PROVE  IInv'
  <2> USE <1>SavingSteps
  <2> USE DEF IInv
  <2>1. snd \in [Sessions -> SenderType] /\ \A t \in Sessions : SenderOK(snd[t])
    BY Zenon DEF SenderInv
  <2>2. SenderOK(snd[s]) /\ snd[s] \in SenderType
    BY Zenon, <2>1
  <2>3. snd[s].pc \in {"wait", "drop", "create", "update"}
    BY Zenon DEF SaveDelete, SaveGet, SaveDrop, SaveCreate, SaveUpdate, SaveFails, ZombieExit
  <2>4. /\ snd[s].msg \in Genuine /\ snd[s].key = snd[s].msg.obj
        /\ snd[s].key \in Objects /\ obj[snd[s].msg.obj].phase # "none"
    BY Zenon, <2>2, <2>3 DEF SenderOK, Genuine, Message
  <2>5. UNCHANGED <<apiVars, syncCache, hub, netVars, edgeVars, crashes>>
    BY Zenon DEF SaveDelete, SaveGet, SaveDrop, SaveCreate, SaveUpdate, SaveFails, ZombieExit
  <2>6. UNCHANGED <<obj, persisted>>
    BY Zenon, <2>5 DEF apiVars, edgeVars
  <2> DEFINE o == snd[s].msg.obj
             spoilt == SpoilSnd(snd, o)
  <2>7. /\ spoilt \in [Sessions -> SenderType]
        /\ \A t \in Sessions : SenderOK(spoilt[t])
        /\ spoilt[s] = snd[s] \/ spoilt[s] = [snd[s] EXCEPT !.fresh = FALSE]
    BY Zenon, <2>4, <1>SpoilKeeps DEF SpoilSnd
  <2>8. disp' = disp \/ disp' = SpoilDisp(disp, o)
    BY Zenon DEF SaveDelete, SaveGet, SaveDrop, SaveCreate, SaveUpdate, SaveFails, ZombieExit
  <2>9. DispInv'
    <3>1. disp' \in [pc: DispPc, msg: MaybeMsg, pool: Nat \X BOOLEAN, fresh: BOOLEAN]
          /\ disp'.pc = disp.pc /\ disp'.msg = disp.msg
      BY Zenon, <2>4, <2>8, <1>SpoilKeeps DEF DispInv
    <3>2. QED
      BY Zenon, <2>5, <2>6, <3>1, <1>Frame DEF DispInv, MaybeMsg, edgeVars
  <2>10. NetInv'
    BY Zenon, <2>5, <2>6, <1>Frame
  <2>11. EdgeInv'
    <3>1. failures' \in Nat
      <4>1. failures' = failures \/ failures' = failures + 1
        BY Zenon DEF SaveDelete, SaveGet, SaveDrop, SaveCreate, SaveUpdate, SaveFails, ZombieExit
      <4>2. QED
        BY <4>1 DEF EdgeInv
    <3>2. QED
      BY Zenon, <2>5, <3>1 DEF EdgeInv, edgeVars
  <2>12. ASSUME UNCHANGED syncs PROVE ApiInv'
    BY Zenon, <2>5, <2>6, <2>12, <1>Frame
  <2>13. ASSUME wq' \in WorkQueues, settled' \in [Objects -> BOOLEAN], UNCHANGED store
         PROVE  PoolInv'
    BY Zenon, <2>6, <2>13, <1>Frame DEF PoolInv, MaybeMsg
  <2>14. CASE SaveDelete(s)
    <3>1. \E g \in {snd, spoilt} : snd' = [g EXCEPT ![s].pc = "drop"]
      BY Zenon, <2>14 DEF SaveDelete
    <3>2. PICK g \in {snd, spoilt} : snd' = [g EXCEPT ![s].pc = "drop"]
      BY Zenon, <3>1
    <3>3. /\ g \in [Sessions -> SenderType] /\ \A t \in Sessions : SenderOK(g[t])
          /\ g[s] = snd[s] \/ g[s] = [snd[s] EXCEPT !.fresh = FALSE]
      BY Zenon, <2>1, <2>7
    <3>4. SenderOK([g[s] EXCEPT !.pc = "drop"])
      BY Zenon, <2>2, <2>4, <2>14, <3>3 DEF SaveDelete, SenderOK, SenderType, SenderPc
    <3>5. snd' = [g EXCEPT ![s] = [g[s] EXCEPT !.pc = "drop"]]
      BY Zenon, <3>2, <3>3
    <3>6. SenderInv'
      BY Zenon, <2>6, <3>3, <3>4, <3>5, <1>SenderWrite
    <3>7. PoolInv'
      BY Zenon, <2>6, <2>14, <1>Frame DEF SaveDelete
    <3>8. CASE UNCHANGED syncs
      BY Zenon, <2>9, <2>10, <2>11, <2>12, <3>6, <3>7, <3>8
    <3>9. CASE syncs' = [syncs EXCEPT ![o] = Absent]
      <4>1. ApiInv'
        BY Zenon, <2>4, <2>5, <3>9, <1>SyncWrite, SpecialVersions DEF edgeVars
      <4>2. QED
        BY Zenon, <2>9, <2>10, <2>11, <3>6, <3>7, <4>1
    <3>10. QED
      BY Zenon, <2>14, <3>8, <3>9 DEF SaveDelete
  <2>15. CASE SaveGet(s)
    <3>1. \E r : SenderOK(r) /\ snd' = [snd EXCEPT ![s] = r]
      <4>1. SenderOK([snd[s] EXCEPT !.pc = "create"])
        BY Zenon, <2>2, <2>4, <2>15 DEF SaveGet, SenderOK, SenderType, SenderPc
      <4>2. SenderOK([snd[s] EXCEPT !.pc = "update", !.fresh = TRUE])
        BY Zenon, <2>2, <2>4, <2>15 DEF SaveGet, SenderOK, SenderType, SenderPc
      <4>3. \/ snd' = [snd EXCEPT ![s] = [snd[s] EXCEPT !.pc = "create"]]
            \/ snd' = [snd EXCEPT ![s] = [snd[s] EXCEPT !.pc = "update", !.fresh = TRUE]]
        BY Zenon, <2>1, <2>15 DEF SaveGet
      <4>4. QED
        BY Zenon, <4>1, <4>2, <4>3
    <3>2. SenderInv'
      BY Zenon, <2>1, <2>6, <3>1, <1>SenderWrite
    <3>3. QED
      BY Zenon, <2>6, <2>9, <2>10, <2>11, <2>12, <2>15, <3>2, <1>Frame DEF SaveGet
  <2>16. CASE SaveDrop(s)
    <3>1. SenderInv' /\ wq' \in WorkQueues /\ settled' \in [Objects -> BOOLEAN]
      BY Zenon, <2>1, <2>4, <2>6, <2>16, <1>FinishKeeps DEF SaveDrop
    <3>2. PoolInv'
      <4>1. Genuine' = Genuine
        BY Zenon, <2>6, <1>Frame
      <4>2. store' \in [Objects -> MaybeMsg]
            /\ \A p \in Objects : store'[p] # NoMsg => store'[p].obj = p
        BY Zenon, <2>4, <2>16 DEF SaveDrop, PoolInv, MaybeMsg
      <4>3. QED
        BY Zenon, <3>1, <4>1, <4>2 DEF PoolInv, MaybeMsg
    <3>3. QED
      BY Zenon, <2>9, <2>10, <2>11, <2>12, <2>16, <3>1, <3>2 DEF SaveDrop
  <2>17. CASE SaveCreate(s)
    <3>1. CASE syncs[o] = Absent
      <4>1. SenderOK([spoilt[s] EXCEPT !.pc = "update", !.fresh = TRUE])
        BY ZenonT(30), <2>2, <2>4, <2>7, <2>17 DEF SaveCreate, SenderOK, SenderType, SenderPc
      <4>2. snd' = [spoilt EXCEPT ![s] =
                      [spoilt[s] EXCEPT !.pc = "update", !.fresh = TRUE]]
        BY Zenon, <2>7, <2>17, <3>1 DEF SaveCreate
      <4>3. SenderInv'
        BY Zenon, <2>6, <2>7, <4>1, <4>2, <1>SenderWrite
      <4>4. ApiInv'
        BY Zenon, <2>4, <2>5, <2>17, <3>1, <1>SyncWrite, SpecialVersions DEF SaveCreate, edgeVars
      <4>5. PoolInv'
        BY Zenon, <2>6, <2>17, <3>1, <1>Frame DEF SaveCreate, poolVars
      <4>6. QED
        BY Zenon, <2>9, <2>10, <2>11, <4>3, <4>4, <4>5
    <3>2. CASE syncs[o] # Absent
      <4>1. Finish(s, snd) /\ UNCHANGED <<syncs, store>>
        BY Zenon, <2>17, <3>2 DEF SaveCreate
      <4>2. QED
        BY Zenon, <2>1, <2>4, <2>6, <2>9, <2>10, <2>11, <2>12, <2>13, <4>1, <1>FinishKeeps
    <3>3. QED
      BY Zenon, <3>1, <3>2
  <2>18. CASE SaveUpdate(s)
    <3>1. CASE snd[s].fresh
      <4>1. Finish(s, spoilt) /\ UNCHANGED store
            /\ syncs' = [syncs EXCEPT ![o] = snd[s].msg.rv]
        BY Zenon, <2>18, <3>1 DEF SaveUpdate
      <4>2. snd[s].msg.rv \in SyncVersions /\ <<o, snd[s].msg.rv>> \in persisted
        BY Zenon, <2>2, <2>4, <2>18
           DEF SaveUpdate, SenderOK, Confirmed, Genuine, Message, SyncVersions
      <4>3. ApiInv'
        BY Zenon, <2>4, <2>5, <4>1, <4>2, <1>SyncWrite DEF edgeVars
      <4>4. QED
        BY Zenon, <2>4, <2>6, <2>7, <2>9, <2>10, <2>11, <2>13, <4>1, <4>3, <1>FinishKeeps
    <3>2. CASE ~snd[s].fresh
      <4>1. Finish(s, snd) /\ UNCHANGED <<syncs, store>>
        BY Zenon, <2>18, <3>2 DEF SaveUpdate
      <4>2. QED
        BY Zenon, <2>1, <2>4, <2>6, <2>9, <2>10, <2>11, <2>12, <2>13, <4>1, <1>FinishKeeps
    <3>3. QED
      BY Zenon, <3>1, <3>2
  <2>19. CASE SaveFails(s)
    <3>1. Finish(s, snd) /\ UNCHANGED <<syncs, store>>
      BY Zenon, <2>19 DEF SaveFails
    <3>2. QED
      BY Zenon, <2>1, <2>4, <2>6, <2>9, <2>10, <2>11, <2>12, <2>13, <3>1, <1>FinishKeeps
  <2>20. CASE ZombieExit(s)
    <3>1. SenderInv'
      BY Zenon, <2>1, <2>6, <2>20, RestingSenders, <1>SenderWrite DEF ZombieExit
    <3>2. QED
      BY Zenon, <2>6, <2>9, <2>10, <2>11, <2>12, <2>20, <3>1, <1>Frame DEF ZombieExit
  <2>21. QED
    BY Zenon, <2>14, <2>15, <2>16, <2>17, <2>18, <2>19, <2>20

(* Connections and restarts *)
<1>EmptyPool.
  ASSUME ClearPool
  PROVE  PoolInv'
  <2> USE <1>EmptyPool
  <2>1. << >> \in Seq(Objects)
    OBVIOUS
  <2>2. WQEmpty \in WorkQueues
    BY Zenon, <2>1 DEF WQEmpty, WorkQueues
  <2>3. QED
    BY Zenon, <2>2 DEF ClearPool, PoolInv, MaybeMsg
\* What survives on the way is a part of what was there.
<1>NetCut.
  ASSUME IInv, UNCHANGED <<obj, persisted>>
  PROVE  /\ (\E k \in 0 .. Len(down) : KeepDown(k)) => down' \in Seq(Genuine')
         /\ (\E j \in 1 .. Len(up) + 1 : KeepUp(j)) => up' \in Seq(Confirmed' \cup Query)
  BY Zenon, <1>NetCut, SeqPrefix, SeqSuffix, <1>Frame DEF KeepDown, KeepUp, IInv, NetInv
<1>ConnectionSteps.
  ASSUME IInv, Disconnect \/ Connect
  PROVE  IInv'
  <2> USE <1>ConnectionSteps
  <2> USE DEF IInv
  <2>1. UNCHANGED <<apiVars, syncs, syncCache, hub, disp, edgeVars, failures, crashes>>
    BY Zenon DEF Disconnect, Connect
  <2>2. UNCHANGED <<obj, persisted>>
    BY Zenon, <2>1 DEF apiVars, edgeVars
  <2>3. PoolInv'
    BY Zenon, <1>EmptyPool DEF Disconnect, Connect
  <2>4. CASE Disconnect
    <3>1. NetInv'
      BY Zenon, <2>2, <2>4, <1>NetCut DEF Disconnect, NetInv
    <3>2. SenderInv'
      BY Zenon, <2>2, <2>4, <1>SenderWrite, RestingSenders, <1>Frame
         DEF Disconnect, SenderInv, NetInv
    <3>3. QED
      BY Zenon, <2>1, <2>2, <2>3, <3>1, <3>2, <1>Frame DEF edgeVars
  <2>5. CASE Connect
    <3>1. sess' \in Sessions
      BY <2>5, ReliableSyncAssumption DEF Connect, NetInv, Sessions
    <3>2. NetInv'
      BY Zenon, <2>2, <2>5, <3>1, <1>NetCut, <1>Frame, <1>Widen DEF Connect, NetInv
    <3>3. QED
      BY Zenon, <2>1, <2>2, <2>3, <2>5, <3>2, <1>Frame DEF Connect, edgeVars
  <2>6. QED
    BY Zenon, <2>4, <2>5
<1>CrashStep.
  ASSUME IInv, Crash
  PROVE  IInv'
  <2> USE <1>CrashStep
  <2> USE DEF IInv
  <2>1. UNCHANGED <<obj, persisted>>
    BY Zenon DEF Crash
  <2>2. PoolInv'
    BY Zenon, <1>EmptyPool DEF Crash
  <2>3. NetInv'
    BY Zenon, <2>1, <1>NetCut DEF Crash, NetInv
  <2>4. SenderInv'
    <3>1. \A s \in Sessions : SenderOK(snd'[s])
      BY Zenon, RestingSenders DEF Crash, SenderInv
    <3>2. snd' \in [Sessions -> SenderType]
      BY Zenon, RestingSenders DEF Crash, SenderInv
    <3>3. QED
      BY Zenon, <2>1, <3>1, <3>2, <1>Frame DEF SenderInv, SenderOK
  <2>5. DispInv'
    <3>1. disp' = IdleDisp /\ hub' = << >> /\ answers' = {}
      BY Zenon DEF Crash
    <3>2. /\ IdleDisp \in [pc: DispPc, msg: MaybeMsg', pool: Nat \X BOOLEAN,
                            fresh: BOOLEAN]
          /\ IdleDisp.pc = "idle"
      BY Zenon DEF IdleDisp, DispPc, MaybeMsg
    <3>3. << >> \in Seq(Genuine')
      OBVIOUS
    <3>4. QED
      BY Zenon, <3>1, <3>2, <3>3 DEF DispInv
  <2>6. EdgeInv'
    <3>1. crashes' = crashes + 1 /\ UNCHANGED <<edge, waiting, queries, persisted, failures>>
      BY Zenon DEF Crash
    <3>2. EdgeInv
      BY Zenon
    <3> HIDE DEF IInv
    <3>3. QED
      BY <3>1, <3>2 DEF EdgeInv
  <2>7. watch' \in Seq(Genuine)
    <3> DEFINE listed == {o \in Objects : Alive(o)}
    <3>1. PICK n \in 0 .. Cardinality(Objects) : \E order \in Bijection(1 .. n, listed) :
            watch' = [i \in 1 .. n |-> Upsert(order[i], obj[order[i]].rv,
                                             obj[order[i]].phase = "terminating")]
      BY Zenon DEF Crash
    <3>2. n \in Nat
      OBVIOUS
    <3>3. PICK order \in [1 .. n -> listed] :
            watch' = [i \in 1 .. n |-> Upsert(order[i], obj[order[i]].rv,
                                             obj[order[i]].phase = "terminating")]
      BY Zenon, <3>1 DEF Bijection, Injection
    <3>4. ASSUME NEW p \in listed
          PROVE  Upsert(p, obj[p].rv, obj[p].phase = "terminating") \in Genuine
      <4>1. obj[p].rv \in Nat /\ (obj[p].phase = "terminating") \in BOOLEAN
        BY Zenon DEF ApiInv
      <4>2. \A v \in Nat, t \in BOOLEAN :
              Upsert(p, v, t) \in Message /\ Upsert(p, v, t).op = "upsert"
                /\ Upsert(p, v, t).obj = p
        BY Zenon, UpsertType
      <4>3. PICK m \in Message :
              /\ m = Upsert(p, obj[p].rv, obj[p].phase = "terminating")
              /\ m.op = "upsert" /\ m.obj = p
        BY Zenon, <4>1, <4>2
      <4>4. QED
        BY Zenon, <4>3 DEF Genuine, Alive
    <3>5. QED
      <4> DEFINE item(p) == Upsert(p, obj[p].rv, obj[p].phase = "terminating")
      <4>1. \A p \in listed : item(p) \in Genuine
        BY Zenon, <3>4
      <4>2. watch' = [i \in 1 .. n |-> item(order[i])]
        BY Zenon, <3>3
      <4> HIDE DEF listed, item, IInv
      <4>3. watch' \in [1 .. n -> Genuine]
        BY Zenon, <4>1, <4>2
      <4>4. QED
        BY <3>2, <4>3
  <2>8. ApiInv'
    BY Zenon, <2>1, <2>7, <1>Frame DEF Crash, ApiInv
  <2>9. QED
    BY Zenon, <2>2, <2>3, <2>4, <2>5, <2>6, <2>8

(* The edge *)
\* Processing a genuine message confirms it, and takes nothing back.
<1>PerformKeeps.
  ASSUME IInv, NEW m \in Genuine, Perform(m), UNCHANGED obj
  PROVE  /\ Genuine' = Genuine /\ Confirmed \subseteq Confirmed'
         /\ up' \in Seq(Confirmed' \cup Query)
         /\ edge' \in [Names -> [obj: Objects, rv: Nat] \cup {NoMsg}]
         /\ persisted' \in SUBSET (Objects \X Nat) /\ persisted \subseteq persisted'
  <2> USE <1>PerformKeeps
  <2> USE DEF IInv
  <2>1. m \in Message /\ m.obj \in Objects /\ m.rv \in Nat /\ NameOf[m.obj] \in Names
    BY Zenon, ReliableSyncAssumption DEF Genuine, Message
  <2>2. persisted' \in SUBSET (Objects \X Nat) /\ persisted \subseteq persisted'
    BY <2>1 DEF Perform, EdgeInv
  <2>3. Genuine' = Genuine
    BY Zenon DEF Genuine
  <2>4. Confirmed \subseteq Confirmed'
    BY Zenon, <2>2, <2>3 DEF Confirmed
  <2>5. m \in Confirmed'
    BY Zenon, <2>3 DEF Confirmed, Perform
  <2>6. up' \in Seq(Confirmed' \cup Query)
    <3>1. up \in Seq(Confirmed' \cup Query)
      <4>1. Confirmed \cup Query \subseteq Confirmed' \cup Query
        BY Zenon, <2>4
      <4>2. QED
        BY Zenon, <4>1, SeqWiden DEF NetInv
    <3>2. up' = Append(up, m)
      BY Zenon DEF Perform
    <3>3. QED
      BY Zenon, <2>5, <3>1, <3>2, <1>SeqAppend
  <2>7. edge' \in [Names -> [obj: Objects, rv: Nat] \cup {NoMsg}]
    <3>1. [obj |-> m.obj, rv |-> m.rv] \in [obj: Objects, rv: Nat]
      BY Zenon, <2>1
    <3>2. edge \in [Names -> [obj: Objects, rv: Nat] \cup {NoMsg}]
      BY Zenon DEF EdgeInv
    <3>3. \/ edge' = edge
          \/ edge' = [edge EXCEPT ![NameOf[m.obj]] = NoMsg]
          \/ edge' = [edge EXCEPT ![NameOf[m.obj]] = [obj |-> m.obj, rv |-> m.rv]]
      BY Zenon DEF Perform, Applied
    <3>4. QED
      BY Zenon, <2>1, <3>1, <3>2, <3>3
  <2>8. QED
    BY Zenon, <2>2, <2>3, <2>4, <2>6, <2>7
\* The rest of the invariant after a message was processed or dropped.
<1>EdgeFrame.
  ASSUME IInv, Genuine' = Genuine, Confirmed \subseteq Confirmed',
         persisted \subseteq persisted',
         UNCHANGED <<apiVars, syncs, syncCache, hub, disp, poolVars, snd, answers>>
  PROVE  ApiInv' /\ DispInv' /\ PoolInv' /\ SenderInv'
  <2> USE <1>EdgeFrame
  <2>1. ApiInv'
    BY Zenon DEF IInv, ApiInv, apiVars
  <2>2. QED
    BY Zenon, <2>1, <1>Widen
<1>EdgeMessageSteps.
  ASSUME IInv, EdgeProcess \/ EdgeFails \/ EdgeAnswered
  PROVE  IInv'
  <2> USE <1>EdgeMessageSteps
  <2> USE DEF IInv
  <2>1. PICK i \in 1 .. Len(down) : down' = Without(i)
    BY Zenon DEF EdgeProcess, EdgeFails, EdgeAnswered, Orders
  <2>2. down' \in Seq(Genuine)
    BY Zenon, <2>1, <1>SeqWithout DEF Without, NetInv
  <2>3. \A j \in 1 .. Len(down) : down[j] \in Genuine
    BY Zenon, <1>SeqWithout DEF NetInv
  <2>4. /\ UNCHANGED <<apiVars, syncs, syncCache, hub, disp, poolVars, snd, answers>>
        /\ UNCHANGED <<sess, connected, queries, crashes, obj>>
    BY Zenon DEF EdgeProcess, EdgeFails, EdgeAnswered, edgeVars, apiVars
  <2>5. ASSUME NEW m \in Genuine, Perform(m), waiting' \in SUBSET Nat, UNCHANGED failures
        PROVE  IInv'
    <3>1. /\ Genuine' = Genuine /\ Confirmed \subseteq Confirmed'
          /\ up' \in Seq(Confirmed' \cup Query)
          /\ edge' \in [Names -> [obj: Objects, rv: Nat] \cup {NoMsg}]
          /\ persisted' \in SUBSET (Objects \X Nat) /\ persisted \subseteq persisted'
      BY Zenon, <2>4, <2>5, <1>PerformKeeps
    <3>2. NetInv' /\ EdgeInv'
      BY Zenon, <2>2, <2>4, <2>5, <3>1 DEF NetInv, EdgeInv
    <3>3. QED
      BY Zenon, <2>4, <3>1, <3>2, <1>EdgeFrame
  <2>6. ASSUME UNCHANGED <<edge, persisted, up, waiting>>, failures' \in Nat
        PROVE  IInv'
    <3>1. Genuine' = Genuine /\ Confirmed' = Confirmed
      BY Zenon, <2>4, <2>6, <1>Frame
    <3>2. NetInv' /\ EdgeInv'
      BY Zenon, <2>2, <2>4, <2>6, <3>1 DEF NetInv, EdgeInv
    <3>3. QED
      BY Zenon, <2>4, <2>6, <3>1, <3>2, <1>EdgeFrame
  <2>7. CASE EdgeProcess
    BY Zenon, <2>3, <2>5, <2>7 DEF EdgeProcess, Orders, EdgeInv
  <2>8. CASE EdgeFails
    <3>1. failures' = failures + 1 /\ UNCHANGED <<up, edgeVars>>
      BY Zenon, <2>8 DEF EdgeFails
    <3>2. failures' \in Nat /\ UNCHANGED <<edge, waiting, persisted>>
      BY <3>1 DEF EdgeInv, edgeVars
    <3>3. QED
      BY Zenon, <2>6, <3>1, <3>2
  <2>9. CASE EdgeAnswered
    <3>1. PICK j \in 1 .. Len(down) :
            \/ Perform(down[j]) /\ waiting' = waiting \ {down[j].qid}
            \/ UNCHANGED <<edge, persisted, up, waiting>>
      BY Zenon, <2>9 DEF EdgeAnswered
    <3>2. UNCHANGED failures /\ failures \in Nat /\ waiting \in SUBSET Nat
      BY Zenon, <2>9 DEF EdgeAnswered, EdgeInv
    <3>3. QED
      BY Zenon, <2>3, <2>5, <2>6, <3>1, <3>2
  <2>10. QED
    BY Zenon, <2>7, <2>8, <2>9
<1>QuerySteps.
  ASSUME IInv,
         \/ \E n \in Names : EdgeQuery(n)
         \/ ReceiveQuery
         \/ \E m \in answers : PublishAnswer(m)
         \/ \E q \in waiting : QueryTimeout(q)
  PROVE  IInv'
  <2> USE <1>QuerySteps
  <2> USE DEF IInv
  <2>1. CASE \E n \in Names : EdgeQuery(n)
    <3>1. PICK n \in Names : EdgeQuery(n)
      BY Zenon, <2>1
    <3>2. UNCHANGED <<obj, persisted>>
      BY Zenon, <3>1 DEF EdgeQuery, apiVars
    <3>3. [op |-> "query", name |-> n, qid |-> queries + 1] \in Query
      BY DEF Query, EdgeInv
    <3>4. up' \in Seq(Confirmed \cup Query)
      BY Zenon, <3>1, <3>3, <1>SeqAppend DEF EdgeQuery, NetInv
    <3>5. NetInv'
      BY Zenon, <3>1, <3>2, <3>4, <1>Frame DEF EdgeQuery, NetInv
    <3>6. EdgeInv'
      <4>1. /\ queries' = queries + 1 /\ waiting' = waiting \cup {queries + 1}
            /\ UNCHANGED <<edge, persisted, failures, crashes>>
        BY Zenon, <3>1 DEF EdgeQuery
      <4>2. EdgeInv
        BY Zenon
      <4> HIDE DEF IInv
      <4>3. queries' \in Nat /\ waiting' \in SUBSET Nat
        BY <4>1, <4>2 DEF EdgeInv
      <4>4. QED
        BY Zenon, <4>1, <4>2, <4>3 DEF EdgeInv
    <3>7. QED
      BY Zenon, <3>1, <3>2, <3>5, <3>6, <1>Frame DEF EdgeQuery
  <2>2. CASE ReceiveQuery
    <3>1. UNCHANGED <<obj, persisted>>
      BY Zenon, <2>2 DEF ReceiveQuery, apiVars
    <3>2. Head(up) \in Query /\ Tail(up) \in Seq(Confirmed \cup Query)
      <4>1. Head(up) \in Confirmed \cup Query /\ Tail(up) \in Seq(Confirmed \cup Query)
        BY Zenon, <2>2, SeqEnds DEF ReceiveQuery, NetInv
      <4>2. QED
        BY Zenon, <2>2, <4>1 DEF ReceiveQuery, Confirmed, Genuine, Message
    <3>3. NetInv'
      BY Zenon, <2>2, <3>1, <3>2, <1>Frame DEF ReceiveQuery, NetInv
    <3>4. ASSUME NEW p \in Objects, Alive(p)
          PROVE  Response(p, obj[p].rv, obj[p].phase = "terminating", Head(up).qid)
                   \in Genuine
      <4> DEFINE m == Response(p, obj[p].rv, obj[p].phase = "terminating", Head(up).qid)
      <4>1. /\ obj[p].rv \in Nat /\ (obj[p].phase = "terminating") \in BOOLEAN
            /\ Head(up).qid \in Nat
        BY Zenon, <3>2 DEF ApiInv, Query
      <4>2. m \in Message /\ m.op = "response" /\ m.obj = p
        <5>1. \A v \in Nat, t \in BOOLEAN, q \in Nat :
                /\ Response(p, v, t, q) \in Message
                /\ Response(p, v, t, q).op = "response" /\ Response(p, v, t, q).obj = p
          BY Zenon, <1>ResponseType
        <5> HIDE DEF IInv
        <5>2. QED
          BY Zenon, <4>1, <5>1
      <4> HIDE DEF m
      <4>3. m \in Genuine
        BY Zenon, <3>4, <4>2 DEF Genuine, Alive
      <4>4. QED
        BY Zenon, <4>3 DEF m
    <3>5. answers' \in SUBSET Genuine
      <4> DEFINE item(p) == Response(p, obj[p].rv, obj[p].phase = "terminating", Head(up).qid)
                 asked == {p \in Objects : NameOf[p] = Head(up).name /\ Alive(p)}
      <4>1. answers' = answers \cup {item(p) : p \in asked}
        BY Zenon, <2>2 DEF ReceiveQuery
      <4>2. \A p \in asked : item(p) \in Genuine
        BY Zenon, <3>4
      <4>3. answers \in SUBSET Genuine
        BY Zenon DEF DispInv
      <4> HIDE DEF item, asked, IInv
      <4>4. QED
        BY Zenon, <4>1, <4>2, <4>3
    <3>6. DispInv'
      BY Zenon, <2>2, <3>1, <3>5, <1>Frame DEF ReceiveQuery, DispInv, MaybeMsg
    <3>7. QED
      BY Zenon, <2>2, <3>1, <3>3, <3>6, <1>Frame DEF ReceiveQuery
  <2>3. CASE \E m \in answers : PublishAnswer(m)
    <3>1. PICK m \in answers : PublishAnswer(m)
      BY Zenon, <2>3
    <3>2. UNCHANGED <<obj, persisted>>
      BY Zenon, <3>1 DEF PublishAnswer, apiVars
    <3>3. hub' \in Seq(Genuine) /\ answers' \in SUBSET Genuine
      BY Zenon, <3>1, <1>SeqAppend DEF PublishAnswer, DispInv
    <3>4. DispInv'
      BY Zenon, <3>1, <3>2, <3>3, <1>Frame DEF PublishAnswer, DispInv, MaybeMsg
    <3>5. QED
      BY Zenon, <3>1, <3>2, <3>4, <1>Frame DEF PublishAnswer
  <2>4. CASE \E q \in waiting : QueryTimeout(q)
    <3>1. PICK q \in waiting : QueryTimeout(q)
      BY Zenon, <2>4
    <3>2. UNCHANGED <<obj, persisted>>
      BY Zenon, <3>1 DEF QueryTimeout, apiVars
    <3>3. EdgeInv'
      BY Zenon, <3>1 DEF QueryTimeout, EdgeInv
    <3>4. QED
      BY Zenon, <3>1, <3>2, <3>3, <1>Frame DEF QueryTimeout
  <2>5. QED
    BY Zenon, <2>1, <2>2, <2>3, <2>4

(* All steps *)
<1> SUFFICES ASSUME IInv, [Next]_vars PROVE IInv'
  BY Zenon
<1>1. CASE Environment
  BY Zenon, <1>1, <1>ObjectSteps, <1>ConnectionSteps, <1>CrashStep, <1>DispatcherSteps,
     <1>EdgeMessageSteps, <1>SavingSteps, <1>QuerySteps DEF Environment
<1>2. CASE EdgeControllerSync \/ \E o \in Objects : InformerSync(o) \/ ReconcileObjectSync(o)
  <2>1. CASE EdgeControllerSync
    <3>1. Objects # {}
      BY <2>1, SeqEnds
         DEF EdgeControllerSync, IInv, ApiInv, Genuine, Message
    <3>2. QED
      BY Zenon, <2>1, <3>1, <1>ControllerSteps
  <2>2. QED
    BY Zenon, <1>2, <2>1, <1>ControllerSteps
<1>3. CASE \E k \in Objects : Ripen(k)
  BY Zenon, <1>3, <1>RipenStep
<1>4. CASE DispatcherStep
  BY Zenon, <1>4, <1>DispatcherSteps
<1>5. CASE \E s \in Sessions : SenderStep(s)
  BY Zenon, <1>5, <1>SendingSteps, <1>SavingSteps DEF SenderStep
<1>6. CASE ReceiveAck
  BY Zenon, <1>6, <1>ReceiveAckStep
<1>7. CASE Connect
  BY Zenon, <1>7, <1>ConnectionSteps
<1>8. CASE EdgeProcess \/ EdgeAnswered
  BY Zenon, <1>8, <1>EdgeMessageSteps
<1>9. CASE ReceiveQuery \/ \E m \in answers : PublishAnswer(m)
  BY Zenon, <1>9, <1>QuerySteps
<1>10. CASE UNCHANGED vars
  BY Zenon, <1>10, <1>Frame DEF vars, IInv, apiVars, poolVars, netVars
<1>11. QED
  BY Zenon, <1>1, <1>2, <1>3, <1>4, <1>5, <1>6, <1>7, <1>8, <1>9, <1>10 DEF Next

\* Every reachable state satisfies the inductive invariant: messages under
\* way are about objects that exist or existed, and acknowledgements are of
\* what the edge wrote.
THEOREM Invariance == Spec => []IInv
  BY InitInvariant, StepInvariant, PTL DEF Spec

\* Every variable keeps its type.
THEOREM TypeCorrect == Spec => []TypeOK
<1>1. IInv => TypeOK
  <2> SUFFICES ASSUME IInv PROVE TypeOK
    BY Zenon
  <2> USE DEF IInv
  <2>1. Genuine \subseteq Message /\ Confirmed \subseteq Message
    BY Zenon DEF Genuine, Confirmed
  <2>2. /\ watch \in Seq(Message) /\ hub \in Seq(Message) /\ down \in Seq(Message)
        /\ up \in Seq(Message \cup Query)
    <3>1. Confirmed \cup Query \subseteq Message \cup Query
      BY Zenon, <2>1
    <3>2. QED
      BY Zenon, <2>1, <3>1, SeqWiden DEF ApiInv, DispInv, NetInv
  <2>3. /\ disp \in [pc: DispPc, msg: Message \cup {NoMsg}, pool: Nat \X BOOLEAN,
                     fresh: BOOLEAN]
        /\ disp.pc # "idle" => disp.msg \in Message
        /\ answers \subseteq Message
    BY Zenon, <2>1 DEF DispInv, MaybeMsg
  <2>4. store \in [Objects -> Message \cup {NoMsg}]
    BY Zenon, <2>1 DEF PoolInv, MaybeMsg
  <2>5. WQType(wq, Objects)
    BY Zenon DEF PoolInv, WorkQueues, WQType
  <2>6. snd \in [Sessions -> [pc: SenderPc, key: Objects \cup {NoMsg},
                              msg: Message \cup {NoMsg}, n: Nat, acked: BOOLEAN,
                              fresh: BOOLEAN]]
    BY Zenon DEF SenderInv, SenderType
  <2>7. QED
    BY Zenon, <2>2, <2>3, <2>4, <2>5, <2>6
       DEF TypeOK, ApiInv, PoolInv, NetInv, EdgeInv, Phases
<1>2. QED
  BY <1>1, Invariance, PTL

\* saveSuccessPoint records only versions that the edge has written.
THEOREM RecordedVersionsPersisted == Spec => []RecordedWasPersisted
<1>1. IInv => RecordedWasPersisted
  BY Zenon DEF IInv, ApiInv, RecordedWasPersisted
<1>2. QED
  BY <1>1, Invariance, PTL

\* An ObjectSync is removed only after its object is gone from the API server.
THEOREM RemovalsAreSafe == Spec => RemovedOnlyWhenGone

(* The invariant *)
\* Only the acknowledgement of a delete message removes an ObjectSync.
<1>RemovalStep.
  ASSUME IInv, [Next]_vars, NEW o \in Objects, syncs[o] # Absent, syncs'[o] = Absent
  PROVE  obj[o].phase = "gone"
  <2> USE <1>RemovalStep
  <2> USE DEF IInv
  <2>1. syncs \in [Objects -> SyncVersions]
    BY Zenon DEF ApiInv
  <2>2. Absent # Blank /\ Absent # 0 /\ \A v \in Nat : v # Absent
    BY DEF Absent, Blank
  <2>3. PICK s \in Sessions : SaveDelete(s) \/ SaveCreate(s) \/ SaveUpdate(s)
                                \/ DispatchCreate \/ DispatchStatus
    <3>1. syncs' # syncs
      BY Zenon
    <3>2. 1 \in Sessions
      BY ReliableSyncAssumption DEF Sessions
    <3>3. CASE Environment
      BY Zenon, <3>1, <3>3
         DEF Environment, CreateObject, UpdateObject, RemoveObject, Disconnect, Crash,
             DispatchFails, EdgeFails, SaveFails, ZombieExit, EdgeQuery, QueryTimeout
    <3>4. CASE DispatcherStep
      BY Zenon, <3>1, <3>2, <3>4 DEF DispatcherStep, Dispatch, DispatchAdd, DispatchEnqueue
    <3>5. CASE \E s \in Sessions : SenderStep(s)
      BY Zenon, <3>1, <3>5 DEF SenderStep, SenderGet, SenderSend, SenderResend, SenderTimeout,
                        SaveGet, SaveDrop
    <3>6. CASE \/ EdgeControllerSync
               \/ \E p \in Objects : InformerSync(p) \/ ReconcileObjectSync(p) \/ Ripen(p)
      BY Zenon, <3>1, <3>6 DEF EdgeControllerSync, InformerSync, ReconcileObjectSync, Ripen
    <3>7. CASE \/ ReceiveAck \/ Connect \/ EdgeProcess \/ ReceiveQuery \/ EdgeAnswered
               \/ \E m \in answers : PublishAnswer(m)
      BY Zenon, <3>1, <3>7 DEF ReceiveAck, Connect, EdgeProcess, ReceiveQuery, EdgeAnswered,
                        PublishAnswer
    <3>8. CASE UNCHANGED vars
      BY Zenon, <3>1, <3>8 DEF vars
    <3>9. QED
      BY Zenon, <3>3, <3>4, <3>5, <3>6, <3>7, <3>8 DEF Next
  <2>4. CASE SaveDelete(s)
    <3>1. snd[s].msg \in Genuine /\ snd[s].msg.op = "delete"
      BY Zenon, <2>4 DEF SaveDelete, SenderInv, SenderOK
    <3>2. obj[snd[s].msg.obj].phase = "gone"
      BY Zenon, <3>1 DEF Genuine
    <3>3. snd[s].msg.obj = o
      BY Zenon, <2>1, <2>4 DEF SaveDelete
    <3>4. QED
      BY Zenon, <3>2, <3>3
  <2>5. CASE SaveCreate(s)
    BY Zenon, <2>1, <2>2, <2>5 DEF SaveCreate
  <2>6. CASE SaveUpdate(s)
    <3>1. snd[s].msg.rv \in Nat
      BY Zenon, <2>6 DEF SaveUpdate, SenderInv, SenderOK, Genuine, Message
    <3>2. QED
      BY Zenon, <2>1, <2>2, <2>6, <3>1 DEF SaveUpdate
  <2>7. CASE DispatchCreate
    BY Zenon, <2>1, <2>2, <2>7 DEF DispatchCreate
  <2>8. CASE DispatchStatus
    BY Zenon, <2>1, <2>2, <2>8 DEF DispatchStatus
  <2>9. QED
    BY Zenon, <2>3, <2>4, <2>5, <2>6, <2>7, <2>8

(* All steps *)
<1>1. IInv /\ [Next]_vars =>
        [\A o \in Objects :
           syncs[o] # Absent /\ syncs'[o] = Absent => obj[o].phase = "gone"]_vars
  BY Zenon, <1>RemovalStep
<1>2. QED
  BY <1>1, Invariance, PTL DEF Spec, RemovedOnlyWhenGone

-----------------------------------------------------------------------------
(* The work queue of the message pool and the sender of the session agree  *)

\* The dispatcher has stored a message under k and not yet queued k.
Pending(k) == disp.pc = "enqueue" /\ disp.msg.obj = k /\ disp.pool = Pool

\* The key the session's sender holds.
InProcess ==
  {snd[s].key : s \in {t \in Sessions : Live(t) /\ snd[t].pc \notin {"idle", "exit"}}}

\* A stored message that still has to reach the edge.
Owed(k) == store[k] # NoMsg /\ ~settled[k]

Unopened == \A s \in Sessions : s > sess => snd[s] = IdleSender

Sent == {"wait", "drop", "create", "update"}

Replaced ==
  \A s \in Sessions, k \in Objects :
    /\ Live(s) /\ snd[s].pc \in Sent /\ snd[s].key = k
    /\ Owed(k) /\ store[k] # snd[s].msg
    => k \in wq.dirty \cup wq.delayed \/ Pending(k)

Scheduled == \A o \in Objects : Owed(o) => o \in WQScheduled(wq) \/ Pending(o)

QInv == WQSound(wq) /\ wq.processing = InProcess /\ Unopened /\ Replaced /\ Scheduled

-----------------------------------------------------------------------------
(* Steps                                                                    *)

\* What the invariant tells apart in a sender.
SameSender(r, q) ==
  /\ r.key = q.key /\ r.msg = q.msg
  /\ (r.pc \in {"idle", "exit"}) = (q.pc \in {"idle", "exit"})
  /\ r.pc \in Sent => q.pc \in Sent

-----------------------------------------------------------------------------
(* The invariant                                                            *)

LEMMA QueueInit == Init => QInv
<1> SUFFICES ASSUME Init PROVE QInv
  BY Zenon
<1>1. WQSound(wq)
  <2>1. wq.queue = <<>> /\ wq.dirty = {} /\ wq.processing = {}
    BY Zenon DEF Init, WQEmpty
  <2>2. Len(wq.queue) = 0
    BY <2>1
  <2> HIDE DEF Init
  <2>3. QED
    BY <2>1, <2>2 DEF WQSound
<1>2. wq.processing = InProcess
  BY Zenon DEF Init, WQEmpty, InProcess, IdleSender
<1>3. Unopened /\ Replaced /\ Scheduled
  BY Zenon DEF Init, Unopened, Replaced, Scheduled, Owed
<1>4. QED
  BY Zenon, <1>1, <1>2, <1>3 DEF QInv

LEMMA QueueStep == IInv /\ QInv /\ [Next]_vars => QInv'

(* The work queue *)
\* A sender that rests.
<1>IdlePc. IdleSender.pc = "idle"
  BY Zenon DEF IdleSender
\* Soundness does not look at the delayed keys.
<1>SameSound.
  ASSUME NEW w, NEW v, WQSound(w),
         v.queue = w.queue, v.dirty = w.dirty, v.processing = w.processing
  PROVE  WQSound(v)
BY Zenon, <1>SameSound DEF WQSound
\* Adding a key: sound, and the key is dirty.
<1>AddSound.
  ASSUME NEW w \in WorkQueues, WQSound(w), NEW k \in Objects
  PROVE  /\ WQSound(WQAdd(w, k))
         /\ WQAdd(w, k).processing = w.processing
         /\ WQAdd(w, k).dirty = w.dirty \cup {k}
         /\ WQAdd(w, k).delayed = w.delayed
  <2> USE <1>AddSound
  <2>1. CASE k \in w.dirty
    BY Zenon, <2>1 DEF WQAdd
  <2>2. CASE k \notin w.dirty /\ k \in w.processing
    <3>1. WQAdd(w, k) = [w EXCEPT !.dirty = w.dirty \cup {k}, !.queue = w.queue]
      BY Zenon, <2>2 DEF WQAdd
    <3> DEFINE v == WQAdd(w, k)
    <3>2. /\ v.queue = w.queue /\ v.dirty = w.dirty \cup {k}
          /\ v.processing = w.processing /\ v.delayed = w.delayed
      BY Zenon, <3>1 DEF WorkQueues
    <3>3. v.dirty \ v.processing = w.dirty \ w.processing
      BY Zenon, <2>2, <3>2
    <3> HIDE DEF v
    <3>4. WQSound(v)
      BY Zenon, <3>2, <3>3 DEF WQSound
    <3>5. QED
      BY Zenon, <3>2, <3>4 DEF v
  <2>3. CASE k \notin w.dirty /\ k \notin w.processing
    <3> DEFINE v == WQAdd(w, k)
               q == w.queue
    <3>1. /\ v.queue = Append(q, k) /\ v.dirty = w.dirty \cup {k}
          /\ v.processing = w.processing /\ v.delayed = w.delayed
      BY Zenon, <2>3 DEF WQAdd, WorkQueues
    <3>2. q \in Seq(Objects) /\ Len(q) \in Nat
      BY DEF WorkQueues
    <3>3. /\ Len(Append(q, k)) = Len(q) + 1
          /\ \A i \in 1 .. Len(q) : Append(q, k)[i] = q[i]
          /\ Append(q, k)[Len(q) + 1] = k
      BY <3>2
    <3>4. \A i \in 1 .. Len(q) : q[i] \in w.dirty \ w.processing
      BY Zenon DEF WQSound
    <3>5. \A j \in w.dirty \ w.processing : \E i \in 1 .. Len(q) : q[i] = j
      BY Zenon DEF WQSound
    <3>6. \A i, j \in 1 .. Len(q) : q[i] = q[j] => i = j
      BY Zenon DEF WQSound
    <3> HIDE DEF v, q
    <3>7. WQSound(v)
      <4>1. \A i \in 1 .. Len(v.queue) : v.queue[i] \in v.dirty \ v.processing
        BY <2>3, <3>1, <3>2, <3>3, <3>4
      <4>2. \A j \in v.dirty \ v.processing : \E i \in 1 .. Len(v.queue) : v.queue[i] = j
        BY <2>3, <3>1, <3>2, <3>3, <3>5
      <4>3. \A i, j \in 1 .. Len(v.queue) : v.queue[i] = v.queue[j] => i = j
        BY <2>3, <3>1, <3>2, <3>3, <3>4, <3>6
      <4>4. QED
        BY Zenon, <4>1, <4>2, <4>3 DEF WQSound
    <3>8. QED
      BY Zenon, <3>1, <3>7 DEF v
  <2>4. QED
    BY Zenon, <2>1, <2>2, <2>3
\* Getting a key: sound, and nobody held the key.
<1>GetSound.
  ASSUME NEW w \in WorkQueues, WQSound(w), w.queue # << >>
  PROVE  /\ WQSound(WQGet(w))
         /\ WQGet(w).processing = w.processing \cup {Head(w.queue)}
         /\ WQGet(w).dirty = w.dirty \ {Head(w.queue)}
         /\ WQGet(w).delayed = w.delayed
  <2> USE <1>GetSound
  <2> DEFINE v == WQGet(w)
             q == w.queue
             k == Head(q)
  <2>1. /\ v.queue = Tail(q) /\ v.dirty = w.dirty \ {k}
        /\ v.processing = w.processing \cup {k} /\ v.delayed = w.delayed
    BY Zenon DEF WQGet, WorkQueues
  <2>2. q \in Seq(Objects) /\ Len(q) \in Nat /\ Len(q) > 0
    BY DEF WorkQueues
  <2>3. /\ Len(Tail(q)) = Len(q) - 1 /\ k = q[1]
        /\ \A i \in 1 .. Len(q) - 1 : Tail(q)[i] = q[i + 1]
    BY <2>2
  <2>4. \A i \in 1 .. Len(q) : q[i] \in w.dirty \ w.processing
    BY Zenon DEF WQSound
  <2>5. \A j \in w.dirty \ w.processing : \E i \in 1 .. Len(q) : q[i] = j
    BY Zenon DEF WQSound
  <2>6. \A i, j \in 1 .. Len(q) : q[i] = q[j] => i = j
    BY Zenon DEF WQSound
  <2> HIDE DEF v, q, k
  <2>7. \A i \in 1 .. Len(v.queue) : v.queue[i] \in v.dirty \ v.processing
    BY <2>1, <2>2, <2>3, <2>4, <2>6
  <2>8. \A j \in v.dirty \ v.processing : \E i \in 1 .. Len(v.queue) : v.queue[i] = j
    <3> SUFFICES ASSUME NEW j \in v.dirty \ v.processing
                 PROVE  \E i \in 1 .. Len(v.queue) : v.queue[i] = j
      BY Zenon
    <3>0. j \in w.dirty \ w.processing
      BY Zenon, <2>1
    <3>1. PICK i \in 1 .. Len(q) : q[i] = j
      BY Zenon, <2>5, <3>0
    <3>2. i # 1
      BY Zenon, <2>1, <2>3, <3>1
    <3>3. i - 1 \in 1 .. Len(q) - 1 /\ Tail(q)[i - 1] = q[(i - 1) + 1]
      BY <2>2, <2>3, <3>2
    <3>4. (i - 1) + 1 = i
      OBVIOUS
    <3>5. i - 1 \in 1 .. Len(v.queue) /\ v.queue[i - 1] = j
      BY Zenon, <2>1, <2>3, <3>1, <3>3, <3>4
    <3>6. QED
      BY Zenon, <3>5
  <2>9. \A i, j \in 1 .. Len(v.queue) : v.queue[i] = v.queue[j] => i = j
    BY <2>1, <2>2, <2>3, <2>6
  <2>10. WQSound(v)
    BY Zenon, <2>7, <2>8, <2>9 DEF WQSound
  <2>11. QED
    BY Zenon, <2>1, <2>10 DEF v, q, k
\* Giving a key back: sound, and the key stays dirty if it became so.
<1>DoneSound.
  ASSUME NEW w \in WorkQueues, WQSound(w), NEW k \in w.processing
  PROVE  /\ WQSound(WQDone(w, k))
         /\ WQDone(w, k).processing = w.processing \ {k}
         /\ WQDone(w, k).dirty = w.dirty
         /\ WQDone(w, k).delayed = w.delayed
  <2> USE <1>DoneSound
  <2> DEFINE v == WQDone(w, k)
             q == w.queue
  <2>1. /\ v.queue = (IF k \in w.dirty THEN Append(q, k) ELSE q) /\ v.dirty = w.dirty
        /\ v.processing = w.processing \ {k} /\ v.delayed = w.delayed
    BY Zenon DEF WQDone, WorkQueues
  <2>2. q \in Seq(Objects) /\ Len(q) \in Nat /\ k \in Objects
    BY DEF WorkQueues
  <2>3. /\ Len(Append(q, k)) = Len(q) + 1
        /\ \A i \in 1 .. Len(q) : Append(q, k)[i] = q[i]
        /\ Append(q, k)[Len(q) + 1] = k
    BY <2>2
  <2>4. \A i \in 1 .. Len(q) : q[i] \in w.dirty \ w.processing
    BY Zenon DEF WQSound
  <2>5. \A j \in w.dirty \ w.processing : \E i \in 1 .. Len(q) : q[i] = j
    BY Zenon DEF WQSound
  <2>6. \A i, j \in 1 .. Len(q) : q[i] = q[j] => i = j
    BY Zenon DEF WQSound
  <2> HIDE DEF v, q
  <2>7. \A i \in 1 .. Len(v.queue) : v.queue[i] \in v.dirty \ v.processing
    BY <2>1, <2>2, <2>3, <2>4
  <2>8. \A j \in v.dirty \ v.processing : \E i \in 1 .. Len(v.queue) : v.queue[i] = j
    BY <2>1, <2>2, <2>3, <2>5
  <2>9. \A i, j \in 1 .. Len(v.queue) : v.queue[i] = v.queue[j] => i = j
    BY <2>1, <2>2, <2>3, <2>4, <2>6
  <2>10. WQSound(v)
    BY Zenon, <2>7, <2>8, <2>9 DEF WQSound
  <2>11. QED
    BY Zenon, <2>1, <2>10 DEF v, q

(* Steps *)
\* A step that leaves the pool alone keeps the invariant.
<1>QueueFrame.
  ASSUME IInv, QInv, UNCHANGED <<poolVars, sess, connected>>, Unopened',
         \A k \in Objects : Pending(k) => Pending(k)',
         \A s \in Sessions : Live(s) => SameSender(snd'[s], snd[s])
  PROVE  QInv'
  <2> USE <1>QueueFrame
  <2>1. UNCHANGED <<store, wq, settled>> /\ \A s : Live(s)' = Live(s)
    BY Zenon DEF poolVars, Live
  <2>2. WQSound(wq)' /\ Unopened'
    BY Zenon, <2>1 DEF QInv, WQSound
  <2>3. InProcess' = InProcess
    BY Zenon, <2>1 DEF InProcess, SameSender
  <2>4. \A k : Owed(k)' = Owed(k)
    BY Zenon, <2>1 DEF Owed
  <2>5. Replaced'
    <3> SUFFICES ASSUME NEW s \in Sessions, NEW k \in Objects,
                        Live(s)', snd'[s].pc \in Sent, snd'[s].key = k,
                        Owed(k)', store'[k] # snd'[s].msg
                 PROVE  k \in wq'.dirty \cup wq'.delayed \/ Pending(k)'
      BY Zenon DEF Replaced
    <3>1. SameSender(snd'[s], snd[s]) /\ Live(s)
      BY Zenon, <2>1
    <3>2. snd[s].pc \in Sent /\ snd[s].key = k /\ snd'[s].msg = snd[s].msg
      BY Zenon, <3>1 DEF SameSender
    <3>3. QED
      BY Zenon, <2>1, <2>4, <3>1, <3>2 DEF QInv, Replaced
  <2>6. Scheduled'
    BY Zenon, <2>1, <2>4 DEF QInv, Scheduled
  <2>7. QED
    BY Zenon, <2>1, <2>2, <2>3, <2>5, <2>6 DEF QInv
\* In particular one that also leaves the senders and the dispatcher alone.
<1>QueueUntouched.
  ASSUME IInv, QInv, UNCHANGED <<poolVars, sess, connected, snd, disp>>
  PROVE  QInv'
  <2> USE <1>QueueUntouched
  <2>1. Unopened'
    BY Zenon DEF QInv, Unopened
  <2>2. \A k : Pending(k)' = Pending(k)
    BY Zenon DEF Pending, Pool
  <2>3. \A s \in Sessions : SameSender(snd'[s], snd[s])
    BY Zenon DEF SameSender
  <2>4. QED
    BY Zenon, <2>1, <2>2, <2>3, <1>QueueFrame
\* Spoiling the copies of an ObjectSync leaves the senders as they are here.
<1>SpoilSame.
  ASSUME IInv, QInv, NEW o
  PROVE  /\ \A s \in Sessions : SpoilSnd(snd, o)[s].pc = snd[s].pc
         /\ \A s \in Sessions : SameSender(SpoilSnd(snd, o)[s], snd[s])
         /\ \A s \in Sessions : s > sess => SpoilSnd(snd, o)[s] = IdleSender
         /\ \A k \in Objects : Pending(k) => SpoilDisp(disp, o) = disp
  <2> USE <1>SpoilSame
  <2>1. \A s \in Sessions : snd[s] \in SenderType
    BY Zenon DEF IInv, SenderInv
  <2>2. ASSUME NEW s \in Sessions
        PROVE  /\ SpoilSnd(snd, o)[s].pc = snd[s].pc
               /\ SameSender(SpoilSnd(snd, o)[s], snd[s])
    BY Zenon, <2>1, <2>2 DEF SpoilSnd, SameSender, SenderType
  <2>3. ASSUME NEW s \in Sessions, s > sess
        PROVE  SpoilSnd(snd, o)[s] = IdleSender
    <3>1. snd[s] = IdleSender
      BY Zenon, <2>3 DEF QInv, Unopened
    <3>2. QED
      BY <3>1 DEF SpoilSnd, IdleSender
  <2>4. ASSUME NEW k \in Objects, Pending(k)
        PROVE  SpoilDisp(disp, o) = disp
    BY Zenon, <2>4 DEF Pending, SpoilDisp
  <2>5. QED
    BY Zenon, <2>2, <2>3, <2>4
\* The dispatcher, before it stores.
<1>DecidingSteps.
  ASSUME IInv, QInv, Dispatch \/ DispatchCreate \/ DispatchStatus \/ DispatchFails
  PROVE  QInv'
  <2> USE <1>DecidingSteps
  <2>1. UNCHANGED <<poolVars, sess, connected>>
    BY Zenon DEF Dispatch, DispatchCreate, DispatchStatus, DispatchFails, netVars
  <2>2. \A k \in Objects : ~Pending(k)
    BY Zenon DEF Dispatch, DispatchCreate, DispatchStatus, DispatchFails, Pending
  <2>3. snd' = snd \/ \E o : snd' = SpoilSnd(snd, o)
    BY Zenon DEF Dispatch, DispatchCreate, DispatchStatus, DispatchFails
  <2>4. /\ \A s \in Sessions : SameSender(snd'[s], snd[s])
        /\ Unopened'
    <3>1. CASE snd' = snd
      BY Zenon, <2>1, <3>1 DEF SameSender, QInv, Unopened
    <3>2. CASE \E o : snd' = SpoilSnd(snd, o)
      BY Zenon, <2>1, <3>2, <1>SpoilSame DEF Unopened
    <3>3. QED
      BY Zenon, <2>3, <3>1, <3>2
  <2>5. QED
    BY Zenon, <2>1, <2>2, <2>4, <1>QueueFrame
\* The dispatcher stores the message, then queues its key.
<1>StoringStep.
  ASSUME IInv, QInv, DispatchAdd
  PROVE  QInv'
  <2> USE <1>StoringStep
  <2>1. UNCHANGED <<wq, sess, connected, snd>>
    BY Zenon DEF DispatchAdd, netVars
  <2>2. /\ disp \in [pc: DispPc, msg: MaybeMsg, pool: Nat \X BOOLEAN, fresh: BOOLEAN]
        /\ store \in [Objects -> MaybeMsg] /\ settled \in [Objects -> BOOLEAN]
        /\ disp.msg.obj \in Objects
    BY Zenon DEF IInv, DispInv, PoolInv, DispatchAdd, Genuine, Message
  <2>3. \A k \in Objects : ~Pending(k)
    BY Zenon DEF DispatchAdd, Pending
  <2>4. CASE disp.pool # Pool
    <3>1. UNCHANGED <<store, settled>>
      BY Zenon, <2>4 DEF DispatchAdd
    <3>2. \A s \in Sessions : SameSender(snd'[s], snd[s])
      BY Zenon, <2>1 DEF SameSender
    <3>3. Unopened'
      BY Zenon, <2>1 DEF QInv, Unopened
    <3>4. QED
      BY Zenon, <2>1, <2>3, <3>1, <3>2, <3>3, <1>QueueFrame DEF poolVars
  <2>5. CASE disp.pool = Pool
    <3>0. PICK o \in Objects : o = disp.msg.obj
      BY Zenon, <2>2
    <3>1. Pending(o)'
      BY Zenon, <2>1, <2>2, <2>5, <3>0 DEF DispatchAdd, Pending, Pool
    <3>2. \A k \in Objects : k # o => store'[k] = store[k] /\ settled'[k] = settled[k]
      BY Zenon, <2>2, <2>5, <3>0 DEF DispatchAdd
    <3>3. \A k \in Objects : Owed(k)' => k = o \/ Owed(k)
      BY Zenon, <3>2 DEF Owed
    <3>4. \A s : Live(s)' = Live(s)
      BY Zenon, <2>1 DEF Live
    <3>5. Replaced'
      <4> SUFFICES ASSUME NEW s \in Sessions, NEW k \in Objects,
                          Live(s)', snd'[s].pc \in Sent, snd'[s].key = k,
                          Owed(k)', store'[k] # snd'[s].msg
                   PROVE  k \in wq'.dirty \cup wq'.delayed \/ Pending(k)'
        BY Zenon DEF Replaced
      <4>1. CASE k = o
        BY Zenon, <3>1, <4>1
      <4>2. CASE k # o
        <5>1. Owed(k) /\ store[k] # snd[s].msg /\ Live(s)
          BY Zenon, <2>1, <3>2, <3>3, <3>4, <4>2
        <5>2. k \in wq.dirty \cup wq.delayed
          BY Zenon, <2>1, <2>3, <5>1 DEF QInv, Replaced
        <5>3. QED
          BY Zenon, <2>1, <5>2
      <4>3. QED
        BY Zenon, <4>1, <4>2
    <3>6. Scheduled'
      BY Zenon, <2>1, <2>3, <3>1, <3>3 DEF QInv, Scheduled
    <3>7. WQSound(wq)' /\ wq'.processing = InProcess' /\ Unopened'
      BY Zenon, <2>1, <3>4 DEF QInv, InProcess, Unopened
    <3>8. QED
      BY Zenon, <3>5, <3>6, <3>7 DEF QInv
  <2>6. QED
    BY Zenon, <2>4, <2>5
<1>EnqueueStep.
  ASSUME IInv, QInv, DispatchEnqueue
  PROVE  QInv'
  <2> USE <1>EnqueueStep
  <2>1. UNCHANGED <<store, settled, sess, connected, snd>>
    BY Zenon DEF DispatchEnqueue, netVars
  <2>2. PICK o \in Objects : o = disp.msg.obj
    BY Zenon DEF IInv, DispInv, DispatchEnqueue, Genuine, Message
  <2>3. \A k \in Objects : Pending(k) => k = o /\ disp.pool = Pool
    BY Zenon, <2>2 DEF Pending
  <2>4. wq \in WorkQueues /\ WQSound(wq)
    BY Zenon DEF IInv, PoolInv, QInv
  <2>5. /\ WQSound(wq') /\ wq'.processing = wq.processing /\ wq'.delayed = wq.delayed
        /\ wq.dirty \subseteq wq'.dirty
        /\ disp.pool = Pool => o \in wq'.dirty
    BY Zenon, <2>2, <2>4, <1>AddSound DEF DispatchEnqueue
  <2>6. /\ \A s : Live(s)' = Live(s)
        /\ \A k : Owed(k)' = Owed(k)
    BY Zenon, <2>1 DEF Live, Owed
  <2>7. Replaced'
    BY Zenon, <2>1, <2>3, <2>5, <2>6 DEF QInv, Replaced
  <2>8. Scheduled'
    BY Zenon, <2>1, <2>3, <2>5, <2>6 DEF QInv, Scheduled, WQScheduled
  <2>9. wq'.processing = InProcess' /\ Unopened'
    BY Zenon, <2>1, <2>5, <2>6 DEF QInv, InProcess, Unopened
  <2>10. WQSound(wq)'
    BY Zenon, <2>5 DEF WQSound
  <2>11. QED
    BY Zenon, <2>7, <2>8, <2>9, <2>10 DEF QInv
\* Only the last session may be alive.
<1>OneLive.
  ASSUME IInv, NEW s \in Sessions, Live(s)
  PROVE  /\ s = sess /\ connected
         /\ \A t : Live(t) => t = s
         /\ InProcess = IF snd[s].pc \in {"idle", "exit"} THEN {} ELSE {snd[s].key}
  <2> USE <1>OneLive
  <2>1. s = sess /\ connected /\ \A t : Live(t) => t = s
    BY Zenon DEF Live
  <2>2. InProcess = IF snd[s].pc \in {"idle", "exit"} THEN {} ELSE {snd[s].key}
    BY Zenon, <2>1 DEF InProcess
  <2>3. QED
    BY Zenon, <2>1, <2>2
\* A key the sender gives back, with the next state of the pool: whatever is
\* owed stays scheduled.
<1>GiveBack.
  ASSUME IInv, QInv, NEW s \in Sessions, Live(s),
         NEW k \in Objects, snd[s].key = k,
         UNCHANGED <<sess, connected>>,
         WQSound(wq'), wq'.processing = {}, wq.dirty \subseteq wq'.dirty,
         wq.delayed \subseteq wq'.delayed,
         \A j \in Objects : Pending(j) => Pending(j)',
         \A j \in Objects : Owed(j)' => Owed(j),
         Owed(k)' => k \in wq'.dirty \cup wq'.delayed \/ Pending(k)',
         snd[s].pc \notin {"idle", "exit"}, snd'[s].pc = "idle", Unopened'
  PROVE  QInv'
  <2> USE <1>GiveBack
  <2>1. \A t : Live(t)' = Live(t)
    BY Zenon DEF Live
  <2>3. s = sess /\ wq.processing = {k} /\ \A t : Live(t) => t = s
    BY Zenon, <1>OneLive DEF QInv
  <2>4. InProcess' = {}
    BY Zenon, <2>1, <2>3 DEF InProcess
  <2>6. Replaced'
    BY Zenon, <2>1, <2>3 DEF Replaced, Sent
  <2>7. Scheduled'
    BY Zenon, <2>3 DEF QInv, Scheduled, WQScheduled
  <2>8. WQSound(wq)'
    BY Zenon DEF WQSound
  <2>9. QED
    BY Zenon, <2>4, <2>6, <2>7, <2>8 DEF QInv
<1>TakingSteps.
  ASSUME IInv, QInv, NEW s \in Sessions,
         SenderGet(s) \/ SenderSend(s) \/ SenderResend(s) \/ SenderTimeout(s)
  PROVE  QInv'
  <2> USE <1>TakingSteps
  <2>1. Live(s) /\ UNCHANGED <<store, settled, sess, connected, disp>>
    BY Zenon DEF SenderGet, SenderSend, SenderResend, SenderTimeout, netVars, poolVars
  <2>2. /\ wq \in WorkQueues /\ WQSound(wq) /\ snd \in [Sessions -> SenderType]
        /\ SenderOK(snd[s])
    BY Zenon DEF IInv, PoolInv, SenderInv, QInv
  <2>3. /\ \A t : Live(t)' = Live(t) /\ (Live(t) => t = s)
        /\ \A k : Owed(k)' = Owed(k) /\ Pending(k)' = Pending(k)
    BY Zenon, <2>1, <1>OneLive DEF Live, Owed, Pending, Pool
  <2>4. s = sess /\ wq.processing = IF snd[s].pc \in {"idle", "exit"} THEN {} ELSE {snd[s].key}
    BY Zenon, <2>1, <1>OneLive DEF QInv
  <2>5. \A t \in Sessions : t # s => snd'[t] = snd[t]
    BY Zenon, <2>2 DEF SenderGet, SenderSend, SenderResend, SenderTimeout
  <2>6. Unopened'
    BY <2>1, <2>4, <2>5 DEF QInv, Unopened, Sessions
  <2>7. CASE SenderGet(s)
    <3>1. /\ WQSound(wq') /\ wq'.processing = wq.processing \cup {Head(wq.queue)}
          /\ wq'.dirty = wq.dirty \ {Head(wq.queue)} /\ wq'.delayed = wq.delayed
      BY Zenon, <2>2, <2>7, <1>GetSound DEF SenderGet
    <3>2. snd'[s].pc = "got" /\ snd'[s].key = Head(wq.queue) /\ wq.processing = {}
      BY Zenon, <2>2, <2>4, <2>7 DEF SenderGet, SenderType
    <3>3. InProcess' = wq'.processing
      BY Zenon, <2>1, <2>3, <3>1, <3>2 DEF InProcess
    <3>4. Replaced'
      BY Zenon, <2>3, <3>2 DEF Replaced, Sent
    <3>5. Scheduled'
      BY Zenon, <2>3, <3>1 DEF QInv, Scheduled, WQScheduled
    <3>6. WQSound(wq)'
      BY Zenon, <3>1 DEF WQSound
    <3>7. QED
      BY Zenon, <2>6, <3>3, <3>4, <3>5, <3>6 DEF QInv
  <2>8. CASE SenderSend(s)
    <3>1. PICK k \in Objects : k = snd[s].key /\ wq.processing = {k}
      BY Zenon, <2>2, <2>4, <2>8 DEF SenderSend, SenderOK
    <3>2. CASE store[k] = NoMsg
      <4>1. wq' = WQDone(wq, k) /\ snd'[s] = IdleSender
        <5>1. store[snd[s].key] = NoMsg
          BY Zenon, <3>1, <3>2
        <5>2. wq' = WQDone(wq, snd[s].key) /\ snd' = [snd EXCEPT ![s] = IdleSender]
          BY Zenon, <2>8, <5>1 DEF SenderSend
        <5>3. QED
          BY Zenon, <2>2, <3>1, <5>2
      <4>2. /\ WQSound(wq') /\ wq'.processing = {} /\ wq'.dirty = wq.dirty
            /\ wq'.delayed = wq.delayed
        BY Zenon, <2>2, <3>1, <4>1, <1>DoneSound
      <4>3. ~Owed(k)'
        BY Zenon, <2>1, <3>2 DEF Owed
      <4>4. snd'[s].pc = "idle" /\ snd[s].pc \notin {"idle", "exit"}
        BY Zenon, <2>8, <4>1, <1>IdlePc DEF SenderSend
      <4>5. QED
        BY Zenon, <2>1, <2>3, <2>6, <3>1, <4>2, <4>3, <4>4, <1>GiveBack
    <3>3. CASE store[k] # NoMsg
      <4>1. /\ snd'[s].pc = "wait" /\ snd'[s].msg = store[k] /\ snd'[s].key = k
            /\ wq' = wq
        BY <2>2, <2>8, <3>1, <3>3 DEF SenderSend, SenderType
      <4>2. InProcess' = {k}
        BY Zenon, <2>1, <2>3, <4>1 DEF InProcess
      <4>3. Replaced'
        BY Zenon, <2>1, <2>3, <4>1 DEF Replaced
      <4>4. Scheduled' /\ WQSound(wq)'
        BY Zenon, <2>2, <2>3, <4>1 DEF QInv, Scheduled
      <4>5. QED
        BY Zenon, <2>6, <3>1, <4>1, <4>2, <4>3, <4>4 DEF QInv
    <3>4. QED
      BY Zenon, <3>2, <3>3
  <2>9. CASE SenderResend(s)
    <3>1. SameSender(snd'[s], snd[s]) /\ UNCHANGED wq
      BY Zenon, <2>2, <2>9 DEF SenderResend, SameSender, SenderType, poolVars
    <3>2. QED
      BY Zenon, <2>1, <2>3, <2>6, <3>1, <1>QueueFrame DEF poolVars
  <2>10. CASE SenderTimeout(s)
    <3>1. PICK k \in Objects : k = snd[s].key /\ wq.processing = {k}
      BY Zenon, <2>2, <2>4, <2>10 DEF SenderTimeout, SenderOK, Genuine, Message
    <3> DEFINE w == WQAddRateLimited(wq, k)
    <3>2. /\ w \in WorkQueues /\ w.queue = wq.queue /\ w.dirty = wq.dirty
          /\ w.processing = {k} /\ w.delayed = wq.delayed \cup {k}
      BY Zenon, <2>2, <3>1 DEF WQAddRateLimited, WorkQueues
    <3>3. wq' = WQDone(w, k) /\ snd'[s] = IdleSender
      BY Zenon, <2>2, <2>10, <3>1 DEF SenderTimeout
    <3> HIDE DEF w
    <3>4. WQSound(w)
      BY Zenon, <2>2, <3>1, <3>2, <1>SameSound
    <3>5. /\ WQSound(wq') /\ wq'.processing = {} /\ wq'.dirty = wq.dirty
          /\ wq'.delayed = wq.delayed \cup {k}
      <4>1. k \in w.processing
        BY Zenon, <3>2
      <4>2. /\ WQSound(WQDone(w, k)) /\ WQDone(w, k).processing = w.processing \ {k}
            /\ WQDone(w, k).dirty = w.dirty /\ WQDone(w, k).delayed = w.delayed
        BY Zenon, <3>2, <3>4, <4>1, <1>DoneSound
      <4>3. QED
        BY Zenon, <3>2, <3>3, <4>2
    <3>6. snd'[s].pc = "idle" /\ snd[s].pc \notin {"idle", "exit"}
      <4>1. snd[s].pc = "wait"
        BY Zenon, <2>10 DEF SenderTimeout
      <4>2. snd'[s].pc = "idle"
        BY Zenon, <3>3, <1>IdlePc
      <4>3. QED
        BY Zenon, <4>1, <4>2
    <3>7. QED
      BY Zenon, <2>1, <2>3, <2>6, <3>1, <3>5, <3>6, <1>GiveBack
  <2>11. QED
    BY Zenon, <2>7, <2>8, <2>9, <2>10
<1>BackOffStep.
  ASSUME IInv, QInv, NEW k \in Objects, Ripen(k)
  PROVE  QInv'
  <2> USE <1>BackOffStep
  <2>1. UNCHANGED <<store, settled, sess, connected, snd, disp>>
    BY Zenon DEF Ripen, netVars
  <2> DEFINE w == [wq EXCEPT !.delayed = wq.delayed \ {k}]
  <2>2. /\ w \in WorkQueues /\ w.queue = wq.queue /\ w.dirty = wq.dirty
        /\ w.processing = wq.processing /\ w.delayed = wq.delayed \ {k}
    BY Zenon DEF IInv, PoolInv, WorkQueues
  <2>3. wq' = WQAdd(w, k)
    BY Zenon DEF Ripen, WQRipen
  <2> HIDE DEF w
  <2>4. WQSound(w)
    BY Zenon, <2>2, <1>SameSound DEF QInv
  <2>5. /\ WQSound(wq') /\ wq'.processing = wq.processing
        /\ wq'.dirty = wq.dirty \cup {k} /\ wq'.delayed = wq.delayed \ {k}
    BY Zenon, <2>2, <2>3, <2>4, <1>AddSound
  <2>6. /\ \A s : Live(s)' = Live(s)
        /\ \A j : Owed(j)' = Owed(j) /\ Pending(j)' = Pending(j)
    BY Zenon, <2>1 DEF Live, Owed, Pending, Pool
  <2>7. Replaced'
    BY Zenon, <2>1, <2>5, <2>6 DEF QInv, Replaced
  <2>8. Scheduled'
    BY Zenon, <2>1, <2>5, <2>6 DEF QInv, Scheduled, WQScheduled
  <2>9. wq'.processing = InProcess' /\ Unopened'
    BY Zenon, <2>1, <2>5, <2>6 DEF QInv, InProcess, Unopened
  <2>10. WQSound(wq)'
    BY Zenon, <2>5 DEF WQSound
  <2>11. QED
    BY Zenon, <2>7, <2>8, <2>9, <2>10 DEF QInv
\* The end of saveSuccessPoint, in the session's pool or in a dead one.
<1>FinishStep.
  ASSUME IInv, QInv, NEW s \in Sessions, snd[s].pc \in Sent,
         NEW f \in [Sessions -> SenderType],
         \A t \in Sessions : SameSender(f[t], snd[t]),
         \A t \in Sessions : t > sess => f[t] = IdleSender,
         Finish(s, f), UNCHANGED <<sess, connected>>,
         \A j \in Objects : Pending(j) => Pending(j)',
         store' = store \/ (Live(s) /\ store' = [store EXCEPT ![snd[s].key] = NoMsg])
  PROVE  QInv'
  <2> USE <1>FinishStep
  <2>1. PICK k \in Objects : k = snd[s].key
    BY Zenon DEF IInv, SenderInv, SenderOK, Sent, Genuine, Message
  <2>2. /\ wq \in WorkQueues /\ WQSound(wq) /\ store \in [Objects -> MaybeMsg]
        /\ settled \in [Objects -> BOOLEAN]
    BY Zenon DEF IInv, PoolInv, QInv
  <2>3. snd[s].pc \notin {"idle", "exit"} /\ ~(s > sess)
    <3>1. snd[s].pc \notin {"idle", "exit"}
      BY Zenon DEF Sent
    <3>2. s > sess => snd[s] = IdleSender
      BY Zenon DEF QInv, Unopened
    <3>3. snd[s] = IdleSender => snd[s].pc = "idle"
      BY Zenon, <1>IdlePc
    <3>4. QED
      BY Zenon, <3>1, <3>2, <3>3
  <2>4. CASE Live(s)
    <3>1. /\ snd' = [f EXCEPT ![s] = IdleSender] /\ wq' = WQDone(wq, k)
          /\ settled' = [settled EXCEPT ![k] = @ \/ store[k] = snd[s].msg]
      BY Zenon, <2>1, <2>4 DEF Finish
    <3>2. wq.processing = {k} /\ s = sess
      BY Zenon, <2>1, <2>3, <2>4, <1>OneLive DEF QInv
    <3>3. /\ WQSound(wq') /\ wq'.processing = {} /\ wq'.dirty = wq.dirty
          /\ wq'.delayed = wq.delayed
      <4>1. k \in wq.processing
        BY Zenon, <3>2
      <4>2. /\ WQSound(WQDone(wq, k)) /\ WQDone(wq, k).processing = wq.processing \ {k}
            /\ WQDone(wq, k).dirty = wq.dirty /\ WQDone(wq, k).delayed = wq.delayed
        BY Zenon, <2>2, <4>1, <1>DoneSound
      <4>3. QED
        BY Zenon, <3>1, <3>2, <4>2
    <3>4. \A j \in Objects : Owed(j)' => Owed(j)
      BY Zenon, <2>1, <2>2, <3>1 DEF Owed
    <3>5. Owed(k)' => Owed(k) /\ store[k] # snd[s].msg
      BY Zenon, <2>1, <2>2, <3>1 DEF Owed
    <3>6. Owed(k)' => k \in wq'.dirty \cup wq'.delayed \/ Pending(k)'
      BY Zenon, <2>1, <2>4, <3>3, <3>5 DEF QInv, Replaced
    <3>7. snd'[s].pc = "idle"
      BY Zenon, <3>1 DEF IdleSender
    <3>8. Unopened'
      BY Zenon, <3>1, <3>2 DEF Unopened, Sessions
    <3>9. QED
      BY Zenon, <2>1, <2>3, <2>4, <3>3, <3>4, <3>6, <3>7, <3>8, <1>GiveBack
  <2>5. CASE ~Live(s)
    <3>1. snd' = [f EXCEPT ![s] = ExitedSender] /\ UNCHANGED <<wq, settled, store>>
      BY Zenon, <2>5 DEF Finish
    <3>2. \A t \in Sessions : Live(t) => SameSender(snd'[t], snd[t])
      BY Zenon, <2>5, <3>1
    <3>3. Unopened'
      BY Zenon, <2>3, <3>1 DEF Unopened
    <3>4. QED
      BY Zenon, <3>1, <3>2, <3>3, <1>QueueFrame DEF poolVars
  <2>6. QED
    BY Zenon, <2>4, <2>5
<1>RecordingSteps.
  ASSUME IInv, QInv, NEW s \in Sessions,
         \/ SaveDelete(s) \/ SaveGet(s) \/ SaveDrop(s) \/ SaveCreate(s)
         \/ SaveUpdate(s) \/ SaveFails(s) \/ ZombieExit(s)
  PROVE  QInv'
  <2> USE <1>RecordingSteps
  <2>1. /\ snd[s].pc \in Sent /\ UNCHANGED <<sess, connected>>
        /\ snd \in [Sessions -> SenderType]
    BY Zenon DEF SaveDelete, SaveGet, SaveDrop, SaveCreate, SaveUpdate, SaveFails, ZombieExit,
           Sent, netVars, IInv, SenderInv
  <2>2. ~(s > sess)
    BY <2>1 DEF Sent, QInv, Unopened, IdleSender
  <2>3. \A o : SpoilSnd(snd, o) \in [Sessions -> SenderType]
    BY Zenon, <2>1 DEF SpoilSnd, SenderType
  <2>4. \A t \in Sessions : SameSender(snd[t], snd[t]) /\ (t > sess => snd[t] = IdleSender)
    BY Zenon DEF SameSender, QInv, Unopened
  <2>5. disp' = disp \/ (\E o : disp' = SpoilDisp(disp, o))
    BY Zenon DEF SaveDelete, SaveGet, SaveDrop, SaveCreate, SaveUpdate, SaveFails, ZombieExit
  <2>6. \A j \in Objects : Pending(j) => Pending(j)'
    <3>1. \A j \in Objects : Pending(j) => disp' = disp
      BY Zenon, <2>5, <1>SpoilSame
    <3>2. QED
      BY Zenon, <2>1, <3>1 DEF Pending, Pool
  <2>7. ASSUME NEW f \in [Sessions -> SenderType], NEW pc \in Sent, NEW b,
               \A t \in Sessions : SameSender(f[t], snd[t]),
               \A t \in Sessions : t > sess => f[t] = IdleSender,
               snd' = [f EXCEPT ![s].pc = pc, ![s].fresh = b], UNCHANGED poolVars
        PROVE  QInv'
    <3>1. SameSender(snd'[s], snd[s])
      BY <2>1, <2>7 DEF SameSender, Sent, SenderType
    <3>2. Unopened'
      BY Zenon, <2>1, <2>2, <2>7 DEF Unopened
    <3>3. \A t \in Sessions : SameSender(snd'[t], snd[t])
      BY Zenon, <2>7, <3>1
    <3>4. QED
      BY Zenon, <2>1, <2>6, <2>7, <3>2, <3>3, <1>QueueFrame
  <2>8. CASE SaveDelete(s)
    <3>1. \E f \in {snd, SpoilSnd(snd, snd[s].msg.obj)} : snd' = [f EXCEPT ![s].pc = "drop"]
      BY Zenon, <2>8 DEF SaveDelete
    <3>2. PICK f \in {snd, SpoilSnd(snd, snd[s].msg.obj)} : snd' = [f EXCEPT ![s].pc = "drop"]
      BY Zenon, <3>1
    <3>3. /\ f \in [Sessions -> SenderType]
          /\ \A t \in Sessions : SameSender(f[t], snd[t])
          /\ \A t \in Sessions : t > sess => f[t] = IdleSender
      BY Zenon, <2>1, <2>3, <2>4, <1>SpoilSame
    <3>4. snd' = [f EXCEPT ![s].pc = "drop", ![s].fresh = f[s].fresh]
      BY Zenon, <3>2, <3>3 DEF SenderType
    <3>5. UNCHANGED poolVars /\ "drop" \in Sent
      BY Zenon, <2>8 DEF SaveDelete, Sent
    <3>6. QED
      BY Zenon, <2>7, <3>3, <3>4, <3>5
  <2>9. CASE SaveGet(s)
    <3>1. \E pc \in Sent, b \in BOOLEAN : snd' = [snd EXCEPT ![s].pc = pc, ![s].fresh = b]
      <4>1. snd' = [snd EXCEPT ![s].pc = "create", ![s].fresh = snd[s].fresh]
              \/ snd' = [snd EXCEPT ![s].pc = "update", ![s].fresh = TRUE]
        BY Zenon, <2>1, <2>9 DEF SaveGet, SenderType
      <4>2. snd[s].fresh \in BOOLEAN
        BY Zenon, <2>1 DEF SenderType
      <4>3. QED
        BY Zenon, <4>1, <4>2 DEF Sent
    <3>2. UNCHANGED poolVars
      BY Zenon, <2>9 DEF SaveGet
    <3>3. QED
      BY Zenon, <2>1, <2>4, <2>7, <3>1, <3>2
  <2>10. CASE SaveDrop(s)
    <3>1. store' = store \/ (Live(s) /\ store' = [store EXCEPT ![snd[s].key] = NoMsg])
      BY Zenon, <2>10 DEF SaveDrop
    <3>2. Finish(s, snd)
      BY Zenon, <2>10 DEF SaveDrop
    <3>3. QED
      BY Zenon, <2>1, <2>4, <2>6, <3>1, <3>2, <1>FinishStep
  <2>11. CASE SaveCreate(s)
    <3>1. CASE syncs[snd[s].msg.obj] = Absent
      <4>1. /\ snd' = [SpoilSnd(snd, snd[s].msg.obj) EXCEPT ![s].pc = "update",
                                                            ![s].fresh = TRUE]
            /\ UNCHANGED poolVars /\ "update" \in Sent
        BY Zenon, <2>11, <3>1 DEF SaveCreate, poolVars, Sent
      <4>2. QED
        BY ZenonT(30), <2>3, <2>7, <4>1, <1>SpoilSame
    <3>2. CASE syncs[snd[s].msg.obj] # Absent
      <4>1. Finish(s, snd) /\ store' = store
        BY Zenon, <2>11, <3>2 DEF SaveCreate
      <4>2. QED
        BY Zenon, <2>1, <2>4, <2>6, <4>1, <1>FinishStep
    <3>3. QED
      BY Zenon, <3>1, <3>2
  <2>12. CASE SaveUpdate(s)
    <3>1. PICK f \in {snd, SpoilSnd(snd, snd[s].msg.obj)} : Finish(s, f) /\ store' = store
      BY Zenon, <2>12 DEF SaveUpdate
    <3>2. /\ f \in [Sessions -> SenderType]
          /\ \A t \in Sessions : SameSender(f[t], snd[t])
          /\ \A t \in Sessions : t > sess => f[t] = IdleSender
      BY Zenon, <2>1, <2>3, <2>4, <1>SpoilSame
    <3>3. QED
      BY Zenon, <2>1, <2>6, <3>1, <3>2, <1>FinishStep
  <2>13. CASE SaveFails(s)
    <3>1. Finish(s, snd) /\ store' = store
      BY Zenon, <2>13 DEF SaveFails
    <3>2. QED
      BY Zenon, <2>1, <2>4, <2>6, <3>1, <1>FinishStep
  <2>14. CASE ZombieExit(s)
    <3>1. ~Live(s) /\ snd' = [snd EXCEPT ![s] = ExitedSender] /\ UNCHANGED poolVars
      BY Zenon, <2>14 DEF ZombieExit
    <3>2. \A t \in Sessions : Live(t) => SameSender(snd'[t], snd[t])
      BY Zenon, <2>1, <2>4, <3>1
    <3>3. Unopened'
      BY Zenon, <2>1, <2>2, <2>4, <3>1 DEF Unopened
    <3>4. QED
      BY Zenon, <2>1, <2>6, <3>1, <3>2, <3>3, <1>QueueFrame
  <2>15. QED
    BY Zenon, <2>8, <2>9, <2>10, <2>11, <2>12, <2>13, <2>14
\* A new pool is empty, and nobody has taken a key of it.
<1>NewPool.
  ASSUME IInv, QInv, Disconnect \/ Connect \/ Crash
  PROVE  QInv'
  <2> USE <1>NewPool
  <2>1. snd \in [Sessions -> SenderType] /\ sess \in Sessions
    BY Zenon DEF IInv, SenderInv, NetInv
  <2>2. /\ wq' = WQEmpty /\ \A o \in Objects : store'[o] = NoMsg
    BY Zenon DEF Disconnect, Connect, Crash, ClearPool
  <2>3. \A s \in Sessions : Live(s)' => s > sess /\ UNCHANGED snd
    <3>1. CASE Disconnect
      BY Zenon, <2>1, <3>1 DEF Disconnect, Live, Sessions
    <3>2. CASE Connect
      BY <2>1, <3>2 DEF Connect, Live, Sessions
    <3>3. CASE Crash
      BY Zenon, <2>1, <3>3 DEF Crash, Live, Sessions
    <3>4. QED
      BY Zenon, <3>1, <3>2, <3>3
  <2>4. Unopened' /\ \A s \in Sessions : Live(s)' => snd'[s] = IdleSender
    <3>1. \A s \in Sessions : s > sess => snd[s] = IdleSender
      BY Zenon DEF QInv, Unopened
    <3>2. \A s \in Sessions : s > sess => snd'[s] = IdleSender
      <4>1. ASSUME NEW s \in Sessions, s > sess
            PROVE  s # sess /\ ~(s <= sess)
        BY <2>1, <4>1 DEF Sessions
      <4>2. CASE Disconnect
        BY Zenon, <2>1, <3>1, <4>1, <4>2 DEF Disconnect
      <4>3. CASE Connect
        BY Zenon, <3>1, <4>3 DEF Connect
      <4>4. CASE Crash
        BY Zenon, <3>1, <4>1, <4>4 DEF Crash
      <4>5. QED
        BY Zenon, <4>2, <4>3, <4>4
    <3>3. sess' \in {sess, sess + 1}
      BY Zenon DEF Disconnect, Connect, Crash
    <3>4. QED
      BY <2>1, <2>3, <3>2, <3>3 DEF Unopened, Sessions
  <2>5. WQSound(wq)'
    BY <2>2 DEF WQSound, WQEmpty
  <2>6. wq'.processing = {} /\ InProcess' = {}
    <3>1. wq'.processing = {}
      BY Zenon, <2>2 DEF WQEmpty
    <3>2. InProcess' = {}
      <4>1. IdleSender.pc = "idle"
        BY Zenon DEF IdleSender
      <4>2. \A s \in Sessions : Live(s)' => snd'[s].pc = "idle"
        BY Zenon, <2>4, <4>1
      <4>3. QED
        BY Zenon, <4>2 DEF InProcess
    <3>3. QED
      BY Zenon, <3>1, <3>2
  <2>7. Replaced' /\ Scheduled'
    BY Zenon, <2>2 DEF Replaced, Scheduled, Owed
  <2>8. QED
    BY Zenon, <2>4, <2>5, <2>6, <2>7 DEF QInv
<1>AckStep.
  ASSUME IInv, QInv, ReceiveAck
  PROVE  QInv'
  <2> USE <1>AckStep
  <2>1. /\ snd \in [Sessions -> SenderType] /\ sess \in Sessions
        /\ UNCHANGED <<poolVars, sess, connected, disp>>
    BY Zenon DEF IInv, SenderInv, NetInv, ReceiveAck
  <2>2. \A s \in Sessions : SameSender(snd'[s], snd[s])
    BY Zenon, <2>1 DEF ReceiveAck, SameSender, SenderType
  <2>3. Unopened'
    BY <2>1 DEF ReceiveAck, QInv, Unopened, Sessions
  <2>4. \A k : Pending(k)' = Pending(k)
    BY Zenon, <2>1 DEF Pending, Pool
  <2>5. QED
    BY Zenon, <2>1, <2>2, <2>3, <2>4, <1>QueueFrame

(* All steps *)
<1> SUFFICES ASSUME IInv, QInv, [Next]_vars PROVE QInv'
  BY Zenon
<1>1. CASE UNCHANGED <<poolVars, sess, connected, snd, disp>>
  BY Zenon, <1>1, <1>QueueUntouched
<1>2. CASE Environment
  <2>1. CASE \E o \in Objects : \/ CreateObject(o) \/ RemoveObject(o)
                                \/ UpdateObject(o, "live")
                                \/ UpdateObject(o, "terminating")
    BY Zenon, <1>1, <2>1 DEF CreateObject, UpdateObject, RemoveObject, netVars
  <2>2. CASE EdgeFails \/ (\E n \in Names : EdgeQuery(n))
               \/ (\E q \in waiting : QueryTimeout(q))
    BY Zenon, <1>1, <2>2 DEF EdgeFails, EdgeQuery, QueryTimeout, netVars
  <2>3. QED
    BY Zenon, <1>2, <2>1, <2>2, <1>NewPool, <1>DecidingSteps, <1>RecordingSteps DEF Environment
<1>3. CASE \/ EdgeControllerSync
           \/ \E o \in Objects : InformerSync(o) \/ ReconcileObjectSync(o)
  BY Zenon, <1>1, <1>3 DEF EdgeControllerSync, InformerSync, ReconcileObjectSync, netVars
<1>4. CASE \E o \in Objects : Ripen(o)
  BY Zenon, <1>4, <1>BackOffStep
<1>5. CASE DispatcherStep
  BY Zenon, <1>5, <1>DecidingSteps, <1>StoringStep, <1>EnqueueStep DEF DispatcherStep
<1>6. CASE \E s \in Sessions : SenderStep(s)
  BY Zenon, <1>6, <1>TakingSteps, <1>RecordingSteps DEF SenderStep
<1>7. CASE ReceiveAck \/ Connect
  BY Zenon, <1>7, <1>AckStep, <1>NewPool
<1>8. CASE EdgeProcess \/ EdgeAnswered
  BY Zenon, <1>1, <1>8 DEF EdgeProcess, EdgeAnswered
<1>9. CASE ReceiveQuery \/ \E m \in answers : PublishAnswer(m)
  BY Zenon, <1>1, <1>9 DEF ReceiveQuery, PublishAnswer, netVars
<1>10. CASE UNCHANGED vars
  BY Zenon, <1>1, <1>10 DEF vars, poolVars
<1>11. QED
  BY Zenon, <1>2, <1>3, <1>4, <1>5, <1>6, <1>7, <1>8, <1>9, <1>10 DEF Next

LEMMA QueueInvariance == Spec => []QInv
  BY QueueInit, QueueStep, Invariance, PTL DEF Spec

\* The work queue hands out each dirty key once, and the only key in process
\* is the one the session's sender holds.
THEOREM QueueAndSenderAgree == Spec => []QueueAgrees
<1>1. QInv => QueueAgrees
  BY Zenon DEF QInv, QueueAgrees, InProcess
<1>2. QED
  BY <1>1, QueueInvariance, PTL

\* A stored message that the edge has not acknowledged stays scheduled, whatever
\* the dispatcher and the sender do between each other's steps.
THEOREM NoMessageLost == Spec => []NoLostMessage
<1>1. QInv => NoLostMessage
  BY Zenon DEF QInv, Scheduled, Owed, Pending, NoLostMessage
<1>2. QED
  BY <1>1, QueueInvariance, PTL

-----------------------------------------------------------------------------
(* Delivery                                                                 *)

\* Different objects have different names.
DistinctNames == \A o, p \in Objects : NameOf[o] = NameOf[p] => o = p

\* No API call failed, cloudcore did not restart, the edge asked for nothing.
Undisturbed == failures = 0 /\ crashes = 0 /\ queries = 0

\* A message that brings version v of its object or a newer one.
Brings(m, v) == m.op = "upsert" /\ v <= m.rv /\ (m.rv = 1 => ~m.dts)

\* All messages of q about o bring version v or a newer one.
AtLeast(q, o, v) == \A i \in 1 .. Len(q) : q[i].obj = o => Brings(q[i], v)

\* The versions of o are in order in q.
InOrder(q, o) ==
  \A i, j \in 1 .. Len(q) :
    i < j /\ q[i].obj = o /\ q[j].obj = o => q[i].rv <= q[j].rv

Handling(o) == disp.pc # "idle" /\ disp.msg.obj = o
Sending(o) == connected /\ snd[sess].pc = "wait" /\ snd[sess].msg.obj = o
Row(o) == edge[NameOf[o]] # NoMsg /\ edge[NameOf[o]].obj = o

\* Version v of o is not newer than what is still to come, seen from each
\* place on the way of a message from the API server to the edge.
AtWatch(o, v) == v <= obj[o].rv /\ AtLeast(watch, o, v)
AtHub(o, v) == AtWatch(o, v) /\ AtLeast(hub, o, v)
AtDisp(o, v) == AtHub(o, v) /\ (Handling(o) => Brings(disp.msg, v))
AtStore(o, v) == AtDisp(o, v) /\ (store[o] # NoMsg => Brings(store[o], v))
AtSender(o, v) == AtStore(o, v) /\ (Sending(o) => Brings(snd[sess].msg, v))
AtEdge(o, v) == AtSender(o, v) /\ AtLeast(down, o, v)

\* No message about o comes after a newer one, at any place of its way.
Line(o) ==
  /\ AtEdge(o, 1)
  /\ obj[o].phase = "terminating" => obj[o].rv >= 2
  /\ InOrder(watch, o) /\ InOrder(hub, o) /\ InOrder(down, o)
  /\ \A i \in 1 .. Len(watch) : watch[i].obj = o => watch[i].rv <= obj[o].rv
  /\ \A v \in Nat :
       /\ \A i \in 1 .. Len(hub) : hub[i].obj = o /\ hub[i].rv = v => AtWatch(o, v)
       /\ Handling(o) /\ disp.msg.rv = v => AtHub(o, v)
       /\ store[o] # NoMsg /\ store[o].rv = v => AtDisp(o, v)
       /\ Sending(o) /\ snd[sess].msg.rv = v => AtStore(o, v)
       /\ \A i \in 1 .. Len(down) : down[i].obj = o /\ down[i].rv = v => AtSender(o, v)
       /\ Row(o) /\ edge[NameOf[o]].rv = v => AtEdge(o, v)

\* The edge still has what it stored, or something newer.
Kept(o) == \A v \in Nat : <<o, v>> \in persisted => Row(o) /\ v <= edge[NameOf[o]].rv

\* o has no ObjectSync yet, or one whose status is still to be written: the
\* message that does so is on its way, and no other got past the dispatcher.
Unsent(o) ==
  store[o] = NoMsg /\ \A s \in Sessions : snd[s].pc \in Sent => snd[s].msg.obj # o
First(q, o) == \E i \in 1 .. Len(q) : q[i].obj = o /\ q[i].rv = 1
Announced(o) ==
  /\ syncs[o] = Absent /\ syncCache[o] = Absent /\ Unsent(o)
  /\ Handling(o) => disp.pc = "create"
  /\ Handling(o) \/ First(hub, o) \/ First(watch, o)
Created(o) ==
  /\ syncs[o] = Blank /\ Unsent(o)
  /\ Handling(o) /\ disp.pc = "status" /\ disp.fresh
Recorded(o) == syncs[o] >= 0

\* Of an object that was never created the edge has nothing.
Unknown(o) == ~Row(o) /\ \A v \in Nat : <<o, v>> \notin persisted

Unasked == answers = {} /\ \A i \in 1 .. Len(up) : up[i].op # "query"

Synced(o) == Announced(o) \/ Created(o) \/ Recorded(o)

Delivering(o) == Line(o) /\ Kept(o) /\ Synced(o)

DInv ==
  Undisturbed =>
    /\ Unasked
    /\ \A o \in Objects :
         /\ obj[o].phase = "none" => Unknown(o)
         /\ Alive(o) /\ o \notin outrun => Delivering(o)

\* The messages of r about o are messages of q, in the order of q.
Fewer(r, q, o) ==
  /\ \A v \in Nat : AtLeast(q, o, v) => AtLeast(r, o, v)
  /\ InOrder(q, o) => InOrder(r, o)
  /\ \A i \in 1 .. Len(r) : r[i].obj = o => \E j \in 1 .. Len(q) : q[j] = r[i]

\* A message of a later version brings its own version.
LEMMA BringsOwn ==
  ASSUME NEW m, m.rv \in Nat, Brings(m, 1)
  PROVE  Brings(m, m.rv)
BY DEF Brings

\* A sequence has no more than itself.
LEMMA FewerSame ==
  ASSUME NEW q, NEW o
  PROVE  Fewer(q, q, o)
BY Zenon DEF Fewer

\* f says where the elements of r are in q.
LEMMA FewerBy ==
  ASSUME NEW q, NEW r, NEW o, NEW f, Len(q) \in Nat, Len(r) \in Nat,
         \A i \in 1 .. Len(r) : f[i] \in 1 .. Len(q) /\ r[i] = q[f[i]],
         \A i, j \in 1 .. Len(r) : i < j => f[i] < f[j]
  PROVE  Fewer(r, q, o)
<1>1. ASSUME NEW v \in Nat, AtLeast(q, o, v)
      PROVE  AtLeast(r, o, v)
  BY Zenon, <1>1 DEF AtLeast
<1>2. ASSUME InOrder(q, o), NEW i \in 1 .. Len(r), NEW j \in 1 .. Len(r),
             i < j, r[i].obj = o, r[j].obj = o
      PROVE  r[i].rv <= r[j].rv
  <2>1. f[i] \in 1 .. Len(q) /\ f[j] \in 1 .. Len(q) /\ f[i] < f[j]
    BY Zenon, <1>2
  <2>2. QED
    BY <1>2, <2>1 DEF InOrder
<1>3. \A i \in 1 .. Len(r) : r[i].obj = o => \E j \in 1 .. Len(q) : q[j] = r[i]
  BY Zenon
<1>4. InOrder(q, o) => InOrder(r, o)
  BY Zenon, <1>2 DEF InOrder
<1>5. QED
  BY Zenon, <1>1, <1>3, <1>4 DEF Fewer

\* The sequences a step makes of one contain what it contained.
LEMMA FewerTail ==
  ASSUME NEW q \in Seq(Message), q # << >>, NEW o
  PROVE  Fewer(Tail(q), q, o)
<1> DEFINE r == Tail(q)
           f == [i \in 1 .. Len(r) |-> i + 1]
<1>1. /\ Len(q) \in Nat /\ Len(q) > 0 /\ Len(r) = Len(q) - 1
      /\ \A i \in 1 .. Len(r) : r[i] = q[i + 1] /\ i + 1 \in 1 .. Len(q)
  OBVIOUS
<1>2. \A i \in 1 .. Len(r) : f[i] = i + 1
  BY Zenon
<1> HIDE DEF r, f
<1>3. Fewer(r, q, o)
  <2>1. \A i \in 1 .. Len(r) : f[i] \in 1 .. Len(q) /\ r[i] = q[f[i]]
    BY Zenon, <1>1, <1>2
  <2>2. \A i, j \in 1 .. Len(r) : i < j => f[i] < f[j]
    BY <1>1, <1>2
  <2>3. Len(q) \in Nat /\ Len(r) \in Nat
    BY <1>1
  <2>4. QED
    BY Zenon, <2>1, <2>2, <2>3, FewerBy
<1>4. QED
  BY Zenon, <1>3 DEF r

LEMMA FewerPrefix ==
  ASSUME NEW q \in Seq(Message), NEW k \in 0 .. Len(q), NEW o
  PROVE  Fewer(SubSeq(q, 1, k), q, o)
<1> DEFINE r == SubSeq(q, 1, k)
<1>1. /\ Len(q) \in Nat /\ Len(r) = k
      /\ \A i \in 1 .. Len(r) : r[i] = q[i] /\ i \in 1 .. Len(q)
  OBVIOUS
<1> HIDE DEF r
<1>2. Fewer(r, q, o)
  BY Zenon, <1>1 DEF Fewer, AtLeast, InOrder
<1>3. QED
  BY Zenon, <1>2 DEF r

\* Two sequences one after the other.
LEMMA SeqJoined ==
  ASSUME NEW S, NEW a \in Seq(S), NEW b \in Seq(S)
  PROVE  /\ Len(a \o b) = Len(a) + Len(b)
         /\ \A j \in 1 .. Len(a) + Len(b) :
              (a \o b)[j] = IF j <= Len(a) THEN a[j] ELSE b[j - Len(a)]
  OBVIOUS

\* The elements of a sequence without its i-th, by their places.
LEMMA JoinedPlaces ==
  ASSUME NEW q, NEW r, NEW a, NEW b, NEW n \in Nat, NEW i \in 1 .. n,
         Len(a) = i - 1, \A j \in 1 .. i - 1 : a[j] = q[j],
         Len(b) = n - i, \A j \in 1 .. n - i : b[j] = q[j + i],
         Len(r) = Len(a) + Len(b),
         \A j \in 1 .. Len(a) + Len(b) :
           r[j] = IF j <= Len(a) THEN a[j] ELSE b[j - Len(a)]
  PROVE  /\ Len(r) = n - 1
         /\ \A j \in 1 .. Len(r) : r[j] = q[IF j < i THEN j ELSE j + 1]
<1>1. Len(r) = n - 1
  OBVIOUS
<1>2. ASSUME NEW j \in 1 .. n - 1
      PROVE  r[j] = q[IF j < i THEN j ELSE j + 1]
  <2>1. r[j] = IF j <= i - 1 THEN a[j] ELSE b[j - (i - 1)]
    OBVIOUS
  <2>2. CASE j < i
    BY <2>1, <2>2
  <2>3. CASE ~(j < i)
    <3>1. j - (i - 1) \in 1 .. n - i /\ (j - (i - 1)) + i = j + 1
      BY <2>3
    <3>2. QED
      BY <2>1, <2>3, <3>1
  <2>4. QED
    BY Zenon, <2>2, <2>3
<1>3. QED
  BY Zenon, <1>1, <1>2

LEMMA WithoutPlaces ==
  ASSUME NEW q \in Seq(Message), NEW i \in 1 .. Len(q)
  PROVE  LET r == SubSeq(q, 1, i - 1) \o SubSeq(q, i + 1, Len(q))
         IN  /\ Len(q) \in Nat /\ Len(r) = Len(q) - 1
             /\ \A j \in 1 .. Len(r) : r[j] = q[IF j < i THEN j ELSE j + 1]
<1> DEFINE a == SubSeq(q, 1, i - 1)
           b == SubSeq(q, i + 1, Len(q))
           r == a \o b
<1>1. /\ Len(q) \in Nat /\ a \in Seq(Message) /\ Len(a) = i - 1
      /\ \A j \in 1 .. i - 1 : a[j] = q[j]
  BY SeqPrefix
<1>2. /\ b \in Seq(Message) /\ Len(b) = Len(q) - i
      /\ \A j \in 1 .. Len(q) - i : b[j] = q[j + i]
  BY SeqSuffix
<1> HIDE DEF a, b
<1>3. /\ Len(r) = Len(a) + Len(b)
      /\ \A j \in 1 .. Len(a) + Len(b) :
           r[j] = IF j <= Len(a) THEN a[j] ELSE b[j - Len(a)]
  BY Zenon, <1>1, <1>2, SeqJoined
<1> HIDE DEF r
<1>4. /\ Len(r) = Len(q) - 1
      /\ \A j \in 1 .. Len(r) : r[j] = q[IF j < i THEN j ELSE j + 1]
  <2> DEFINE n == Len(q)
  <2>1. /\ n \in Nat /\ i \in 1 .. n
        /\ Len(a) = i - 1 /\ \A j \in 1 .. i - 1 : a[j] = q[j]
        /\ Len(b) = n - i /\ \A j \in 1 .. n - i : b[j] = q[j + i]
    BY Zenon, <1>1, <1>2
  <2>2. SUFFICES /\ Len(r) = n - 1
                 /\ \A j \in 1 .. Len(r) : r[j] = q[IF j < i THEN j ELSE j + 1]
    BY Zenon
  <2> HIDE DEF n
  <2>3. QED
    BY <1>3, <2>1, JoinedPlaces
<1>5. QED
  BY Zenon, <1>1, <1>4 DEF r, a, b

LEMMA FewerWithout ==
  ASSUME NEW q \in Seq(Message), NEW i \in 1 .. Len(q), NEW o
  PROVE  Fewer(SubSeq(q, 1, i - 1) \o SubSeq(q, i + 1, Len(q)), q, o)
<1> DEFINE r == SubSeq(q, 1, i - 1) \o SubSeq(q, i + 1, Len(q))
           f == [j \in 1 .. Len(r) |-> IF j < i THEN j ELSE j + 1]
<1>1. /\ Len(q) \in Nat /\ Len(r) = Len(q) - 1
      /\ \A j \in 1 .. Len(r) : r[j] = q[IF j < i THEN j ELSE j + 1]
  BY Zenon, WithoutPlaces
<1>2. \A j \in 1 .. Len(r) : f[j] = IF j < i THEN j ELSE j + 1
  BY Zenon
<1> HIDE DEF r, f
<1>3. Fewer(r, q, o)
  <2>1. \A j \in 1 .. Len(r) : f[j] \in 1 .. Len(q) /\ r[j] = q[f[j]]
    BY <1>1, <1>2
  <2>2. \A j, k \in 1 .. Len(r) : j < k => f[j] < f[k]
    BY <1>1, <1>2
  <2>3. Len(q) \in Nat /\ Len(r) \in Nat
    BY <1>1
  <2>4. QED
    BY Zenon, <2>1, <2>2, <2>3, FewerBy
<1>4. QED
  BY Zenon, <1>3 DEF r

\* What is added at the end of a sequence.
LEMMA AppendPlaces ==
  ASSUME NEW q \in Seq(Message), NEW m
  PROVE  /\ Len(q) \in Nat /\ Len(Append(q, m)) = Len(q) + 1
         /\ \A i \in 1 .. Len(q) : Append(q, m)[i] = q[i]
         /\ Append(q, m)[Len(q) + 1] = m
OBVIOUS

LEMMA FewerOther ==
  ASSUME NEW q \in Seq(Message), NEW m, NEW o, m.obj # o
  PROVE  Fewer(Append(q, m), q, o)
<1> DEFINE r == Append(q, m)
<1>1. /\ Len(q) \in Nat /\ Len(r) = Len(q) + 1
      /\ \A i \in 1 .. Len(q) : r[i] = q[i]
      /\ r[Len(q) + 1] = m
  BY Zenon, AppendPlaces
<1> HIDE DEF r
<1>2. \A i \in 1 .. Len(r) : r[i].obj = o => i \in 1 .. Len(q) /\ r[i] = q[i]
  BY <1>1
<1>3. Fewer(r, q, o)
  BY Zenon, <1>1, <1>2 DEF Fewer, AtLeast, InOrder
<1>4. QED
  BY Zenon, <1>3 DEF r

\* Appending a message about o that brings what is at the end of the line.
LEMMA AppendBrings ==
  ASSUME NEW q \in Seq(Message), NEW m, NEW o, NEW v \in Nat,
         AtLeast(q, o, v), m.obj = o => Brings(m, v)
  PROVE  AtLeast(Append(q, m), o, v)
<1> DEFINE r == Append(q, m)
<1>1. /\ Len(q) \in Nat /\ Len(r) = Len(q) + 1
      /\ \A i \in 1 .. Len(q) : r[i] = q[i]
      /\ r[Len(q) + 1] = m
  BY Zenon, AppendPlaces
<1> HIDE DEF r
<1>2. AtLeast(r, o, v)
  BY <1>1 DEF AtLeast
<1>3. QED
  BY Zenon, <1>2 DEF r

LEMMA AppendInOrder ==
  ASSUME NEW q \in Seq(Message), NEW m, NEW o, InOrder(q, o),
         \A i \in 1 .. Len(q) : q[i].obj = o => q[i].rv <= m.rv
  PROVE  InOrder(Append(q, m), o)
<1> DEFINE r == Append(q, m)
<1>1. /\ Len(q) \in Nat /\ Len(r) = Len(q) + 1
      /\ \A i \in 1 .. Len(q) : r[i] = q[i]
      /\ r[Len(q) + 1] = m
  BY Zenon, AppendPlaces
<1> HIDE DEF r
<1>2. InOrder(r, o)
  BY <1>1 DEF InOrder
<1>3. QED
  BY Zenon, <1>2 DEF r

\* The elements of a sequence after an addition.
LEMMA AppendElements ==
  ASSUME NEW q \in Seq(Message), NEW m, NEW r, r = Append(q, m)
  PROVE  \A i \in 1 .. Len(r) : r[i] = m \/ \E j \in 1 .. Len(q) : r[i] = q[j]
BY AppendPlaces

LEMMA HubElements ==
  ASSUME NEW m, hub \in Seq(Message), hub' = Append(hub, m)
  PROVE  \A i \in 1 .. Len(hub') : hub'[i] = m \/ \E j \in 1 .. Len(hub) : hub'[i] = hub[j]
BY AppendElements

LEMMA DownElements ==
  ASSUME NEW m, down \in Seq(Message), down' = Append(down, m)
  PROVE  \A i \in 1 .. Len(down') :
           down'[i] = m \/ \E j \in 1 .. Len(down) : down'[i] = down[j]
BY AppendElements

\* The first message of a sequence in order is the oldest.
LEMMA HeadOldest ==
  ASSUME NEW q \in Seq(Message), q # << >>, NEW o, NEW v \in Nat,
         InOrder(q, o), AtLeast(q, o, v), Head(q).obj = o
  PROVE  AtLeast(Tail(q), o, Head(q).rv) /\ Brings(Head(q), v)
<1> DEFINE r == Tail(q)
<1>1. /\ Len(q) \in Nat /\ Len(q) > 0 /\ Len(r) = Len(q) - 1 /\ Head(q) = q[1]
      /\ \A i \in 1 .. Len(r) : r[i] = q[i + 1] /\ i + 1 \in 1 .. Len(q)
  OBVIOUS
<1> HIDE DEF r
<1>2. AtLeast(r, o, q[1].rv) /\ Brings(q[1], v)
  BY <1>1 DEF InOrder, AtLeast, Brings
<1>3. QED
  BY Zenon, <1>1, <1>2 DEF r

LEMMA ElementVersion ==
  ASSUME NEW q \in Seq(Message), NEW i \in 1 .. Len(q)
  PROVE  q[i] \in Message /\ q[i].rv \in Nat
<1>1. q[i] \in Message
  OBVIOUS
<1>2. QED
  BY Zenon, <1>1 DEF Message

LEMMA LineTypes ==
  ASSUME IInv, NEW o \in Objects
  PROVE  /\ obj[o].rv \in Nat
         /\ watch \in Seq(Message) /\ hub \in Seq(Message) /\ down \in Seq(Message)
         /\ disp.pc # "idle" => disp.msg \in Message
         /\ store[o] # NoMsg => store[o] \in Message /\ store[o].obj = o
         /\ sess \in Sessions
         /\ \A s \in Sessions : snd[s].pc \in Sent =>
              snd[s].msg \in Message /\ snd[s].key = snd[s].msg.obj
         /\ Row(o) => edge[NameOf[o]].rv \in Nat
<1>1. Genuine \subseteq Message
  BY Zenon DEF Genuine
<1>2. watch \in Seq(Message) /\ hub \in Seq(Message) /\ down \in Seq(Message)
  BY Zenon, <1>1, SeqWiden DEF IInv, ApiInv, DispInv, NetInv
<1>3. disp.pc # "idle" => disp.msg \in Message
  BY Zenon, <1>1 DEF IInv, DispInv
<1>4. store[o] # NoMsg => store[o] \in Message /\ store[o].obj = o
  BY Zenon, <1>1 DEF IInv, PoolInv, MaybeMsg
<1>5. \A s \in Sessions : snd[s].pc \in Sent =>
        snd[s].msg \in Message /\ snd[s].key = snd[s].msg.obj
  BY Zenon, <1>1 DEF IInv, SenderInv, SenderOK, Sent
<1>6. obj[o].rv \in Nat /\ sess \in Sessions
  BY Zenon DEF IInv, ApiInv, NetInv
<1>7. Row(o) => edge[NameOf[o]].rv \in Nat
  BY Zenon, ReliableSyncAssumption DEF IInv, EdgeInv, Row
<1>8. QED
  BY Zenon, <1>2, <1>3, <1>4, <1>5, <1>6, <1>7

\* What a step may leave of each place without adding anything.
LessDisp(o) == Handling(o)' => Handling(o) /\ disp'.msg = disp.msg
LessStore(o) == store'[o] # NoMsg => store'[o] = store[o]
LessSender(o) == Sending(o)' => Sending(o) /\ snd'[sess'].msg = snd[sess].msg
LessRow(o) == Row(o)' => Row(o) /\ edge'[NameOf[o]] = edge[NameOf[o]]

\* A step that adds at most to the events keeps the line, ...
LEMMA LineWatch ==
  ASSUME NEW o \in Objects, Line(o),
         \A v \in Nat : AtWatch(o, v) => AtWatch(o, v)',
         obj'[o].phase = "terminating" => obj'[o].rv >= 2,
         InOrder(watch', o),
         \A i \in 1 .. Len(watch') : watch'[i].obj = o => watch'[i].rv <= obj'[o].rv,
         Fewer(hub', hub, o), Fewer(down', down, o),
         LessDisp(o), LessStore(o), LessSender(o), LessRow(o)
  PROVE  Line(o)'
<1>1. \A v \in Nat : AtHub(o, v) => AtHub(o, v)'
  BY Zenon DEF AtHub, Fewer
<1>2. \A v \in Nat :
        /\ AtDisp(o, v) => AtDisp(o, v)'
        /\ AtStore(o, v) => AtStore(o, v)'
  BY Zenon, <1>1 DEF AtDisp, AtStore, LessDisp, LessStore
<1>3. \A v \in Nat :
        /\ AtSender(o, v) => AtSender(o, v)'
        /\ AtEdge(o, v) => AtEdge(o, v)'
  BY Zenon, <1>2 DEF AtSender, AtEdge, LessSender, Fewer
<1>4. AtEdge(o, 1)'
  BY Zenon, <1>3 DEF Line
<1>5. InOrder(hub', o) /\ InOrder(down', o)
  BY Zenon DEF Line, Fewer
<1>6. ASSUME NEW v \in Nat, NEW i \in 1 .. Len(hub'), hub'[i].obj = o, hub'[i].rv = v
      PROVE  AtWatch(o, v)'
  <2>1. PICK j \in 1 .. Len(hub) : hub[j] = hub'[i]
    BY Zenon, <1>6 DEF Fewer
  <2>2. QED
    BY Zenon, <1>6, <2>1 DEF Line
<1>7. \A v \in Nat : Handling(o)' /\ disp'.msg.rv = v => AtHub(o, v)'
  BY Zenon, <1>1 DEF Line, LessDisp
<1>8. \A v \in Nat :
        /\ store'[o] # NoMsg /\ store'[o].rv = v => AtDisp(o, v)'
        /\ Sending(o)' /\ snd'[sess'].msg.rv = v => AtStore(o, v)'
  BY Zenon, <1>2 DEF Line, LessStore, LessSender
<1>9. ASSUME NEW v \in Nat, NEW i \in 1 .. Len(down'), down'[i].obj = o, down'[i].rv = v
      PROVE  AtSender(o, v)'
  <2>1. PICK j \in 1 .. Len(down) : down[j] = down'[i]
    BY Zenon, <1>9 DEF Fewer
  <2>2. QED
    BY Zenon, <1>3, <1>9, <2>1 DEF Line
<1>10. \A v \in Nat : Row(o)' /\ edge'[NameOf[o]].rv = v => AtEdge(o, v)'
  BY Zenon, <1>3 DEF Line, LessRow
<1>11. QED
  BY Zenon, <1>4, <1>5, <1>6, <1>7, <1>8, <1>9, <1>10 DEF Line

\* ... and so does one that only takes messages away.
LEMMA LineShrinks ==
  ASSUME NEW o \in Objects, Line(o), obj'[o] = obj[o],
         Fewer(watch', watch, o), Fewer(hub', hub, o), Fewer(down', down, o),
         LessDisp(o), LessStore(o), LessSender(o), LessRow(o)
  PROVE  Line(o)'
<1>1. \A v \in Nat : AtWatch(o, v) => AtWatch(o, v)'
  BY Zenon DEF AtWatch, Fewer
<1>2. (obj'[o].phase = "terminating" => obj'[o].rv >= 2) /\ InOrder(watch', o)
  BY Zenon DEF Line, Fewer
<1>3. \A i \in 1 .. Len(watch') : watch'[i].obj = o => watch'[i].rv <= obj'[o].rv
  <2>1. \A j \in 1 .. Len(watch) : watch[j].obj = o => watch[j].rv <= obj'[o].rv
    BY Zenon DEF Line
  <2>2. \A i \in 1 .. Len(watch') :
          watch'[i].obj = o => \E j \in 1 .. Len(watch) : watch[j] = watch'[i]
    BY Zenon DEF Fewer
  <2>3. QED
    BY Zenon, <2>1, <2>2
<1>4. QED
  BY Zenon, <1>1, <1>2, <1>3, LineWatch

\* A message is published behind all that is on its way.
LEMMA LineHub ==
  ASSUME IInv, NEW o \in Objects, Line(o), obj'[o] = obj[o],
         Fewer(watch', watch, o), NEW m \in Message, hub' = Append(hub, m), m.obj = o,
         m.rv <= obj[o].rv, AtLeast(watch', o, m.rv),
         \A v \in Nat : AtWatch(o, v) => Brings(m, v),
         UNCHANGED <<disp, store, snd, sess, connected, down, edge>>
  PROVE  Line(o)'
<1>1. hub \in Seq(Message) /\ m.rv \in Nat
  BY Zenon, LineTypes DEF Message
<1>2. \A v \in Nat :
        /\ AtWatch(o, v) => AtWatch(o, v)'
        /\ AtHub(o, v) => AtHub(o, v)'
  BY Zenon, <1>1, AppendBrings DEF AtWatch, AtHub, Fewer
<1>3. \A v \in Nat :
        /\ AtDisp(o, v) => AtDisp(o, v)'
        /\ AtStore(o, v) => AtStore(o, v)'
        /\ AtSender(o, v) => AtSender(o, v)'
        /\ AtEdge(o, v) => AtEdge(o, v)'
  BY Zenon, <1>2 DEF AtDisp, AtStore, AtSender, AtEdge, Handling, Sending
<1>4. /\ AtEdge(o, 1)'
      /\ obj'[o].phase = "terminating" => obj'[o].rv >= 2
      /\ InOrder(watch', o) /\ InOrder(down', o)
      /\ \A i \in 1 .. Len(watch') : watch'[i].obj = o => watch'[i].rv <= obj'[o].rv
  BY Zenon, <1>3 DEF Line, Fewer
<1>5. ASSUME NEW i \in 1 .. Len(hub), hub[i].obj = o
      PROVE  hub[i].rv <= m.rv
  <2>1. hub[i].rv \in Nat
    BY Zenon, <1>1, ElementVersion
  <2>2. AtWatch(o, hub[i].rv)
    BY Zenon, <1>5, <2>1 DEF Line
  <2>3. QED
    BY Zenon, <2>1, <2>2 DEF Brings
<1>6. InOrder(hub', o)
  BY Zenon, <1>1, <1>5, AppendInOrder DEF Line
<1>7. ASSUME NEW v \in Nat, NEW i \in 1 .. Len(hub'), hub'[i].obj = o, hub'[i].rv = v
      PROVE  AtWatch(o, v)'
  <2>1. CASE hub'[i] = m
    BY Zenon, <1>7, <2>1 DEF AtWatch
  <2>2. CASE \E j \in 1 .. Len(hub) : hub'[i] = hub[j]
    BY Zenon, <1>2, <1>7, <2>2 DEF Line
  <2>3. hub'[i] = m \/ \E j \in 1 .. Len(hub) : hub'[i] = hub[j]
    BY Zenon, <1>1, HubElements
  <2>4. QED
    BY Zenon, <2>1, <2>2, <2>3
<1>8. \A v \in Nat :
        /\ Handling(o)' /\ disp'.msg.rv = v => AtHub(o, v)'
        /\ store'[o] # NoMsg /\ store'[o].rv = v => AtDisp(o, v)'
        /\ Sending(o)' /\ snd'[sess'].msg.rv = v => AtStore(o, v)'
  BY Zenon, <1>2, <1>3 DEF Line, Handling, Sending
<1>9. \A v \in Nat :
        /\ \A i \in 1 .. Len(down') : down'[i].obj = o /\ down'[i].rv = v => AtSender(o, v)'
        /\ Row(o)' /\ edge'[NameOf[o]].rv = v => AtEdge(o, v)'
  BY Zenon, <1>3 DEF Line, Row
<1>10. QED
  BY Zenon, <1>4, <1>6, <1>7, <1>8, <1>9 DEF Line

\* The dispatcher takes the next message.
LEMMA LineDisp ==
  ASSUME IInv, NEW o \in Objects, Line(o), hub # << >>, hub' = Tail(hub),
         Head(hub).obj = o, ~Handling(o), Handling(o)' => disp'.msg = Head(hub),
         UNCHANGED <<obj, watch, store, snd, sess, connected, down, edge>>
  PROVE  Line(o)'
<1>1. hub \in Seq(Message) /\ Head(hub) \in Message /\ Head(hub).rv \in Nat
  <2>1. hub \in Seq(Message)
    BY Zenon, LineTypes
  <2>2. Head(hub) \in Message
    BY Zenon, <2>1, SeqEnds
  <2>3. QED
    BY Zenon, <2>1, <2>2 DEF Message
<1>2. Fewer(hub', hub, o)
  BY Zenon, <1>1, FewerTail
<1>3. Head(hub) = hub[1] /\ 1 \in 1 .. Len(hub)
  BY <1>1
<1>4. \A v \in Nat : AtLeast(hub, o, v) => Brings(Head(hub), v)
  BY Zenon, <1>3 DEF AtLeast
<1>5. AtLeast(hub', o, Head(hub).rv)
  <2>1. AtLeast(hub, o, 1) /\ InOrder(hub, o)
    BY Zenon DEF Line, AtEdge, AtSender, AtStore, AtDisp, AtHub
  <2>2. QED
    BY Zenon, <1>1, <2>1, HeadOldest
<1>6. \A v \in Nat :
        /\ AtWatch(o, v) => AtWatch(o, v)'
        /\ AtHub(o, v) => AtHub(o, v)'
  BY Zenon, <1>2 DEF AtWatch, AtHub, Fewer
<1>7. \A v \in Nat :
        /\ AtDisp(o, v) => AtDisp(o, v)'
        /\ AtStore(o, v) => AtStore(o, v)'
        /\ AtSender(o, v) => AtSender(o, v)'
        /\ AtEdge(o, v) => AtEdge(o, v)'
  <2>1. \A v \in Nat : AtDisp(o, v) => AtDisp(o, v)'
    BY Zenon, <1>4, <1>6 DEF AtDisp, AtHub
  <2>2. QED
    BY Zenon, <2>1 DEF AtStore, AtSender, AtEdge, Sending
<1>8. /\ AtEdge(o, 1)'
      /\ obj'[o].phase = "terminating" => obj'[o].rv >= 2
      /\ InOrder(watch', o) /\ InOrder(hub', o) /\ InOrder(down', o)
      /\ \A i \in 1 .. Len(watch') : watch'[i].obj = o => watch'[i].rv <= obj'[o].rv
  BY Zenon, <1>2, <1>7 DEF Line, Fewer
<1>9. ASSUME NEW v \in Nat, NEW i \in 1 .. Len(hub'), hub'[i].obj = o, hub'[i].rv = v
      PROVE  AtWatch(o, v)'
  <2>1. PICK j \in 1 .. Len(hub) : hub[j] = hub'[i]
    BY Zenon, <1>2, <1>9 DEF Fewer
  <2>2. QED
    BY Zenon, <1>6, <1>9, <2>1 DEF Line
<1>10. ASSUME NEW v \in Nat, Handling(o)', disp'.msg.rv = v
       PROVE  AtHub(o, v)'
  <2>1. v = Head(hub).rv
    BY Zenon, <1>10
  <2>2. AtWatch(o, v)
    BY Zenon, <1>3, <2>1 DEF Line
  <2>3. QED
    BY Zenon, <1>5, <1>6, <2>1, <2>2 DEF AtHub
<1>11. \A v \in Nat :
        /\ store'[o] # NoMsg /\ store'[o].rv = v => AtDisp(o, v)'
        /\ Sending(o)' /\ snd'[sess'].msg.rv = v => AtStore(o, v)'
  BY Zenon, <1>7 DEF Line, Sending
<1>12. \A v \in Nat :
        /\ \A i \in 1 .. Len(down') : down'[i].obj = o /\ down'[i].rv = v => AtSender(o, v)'
        /\ Row(o)' /\ edge'[NameOf[o]].rv = v => AtEdge(o, v)'
  BY Zenon, <1>7 DEF Line, Row
<1>13. QED
  BY Zenon, <1>8, <1>9, <1>10, <1>11, <1>12 DEF Line

\* The dispatcher's message is stored.
LEMMA LineStore ==
  ASSUME IInv, NEW o \in Objects, Line(o), Handling(o), disp'.msg = disp.msg,
         store'[o] = disp.msg,
         UNCHANGED <<obj, watch, hub, snd, sess, connected, down, edge>>
  PROVE  Line(o)'
<1>1. \A v \in Nat :
        /\ AtWatch(o, v) => AtWatch(o, v)'
        /\ AtHub(o, v) => AtHub(o, v)'
        /\ AtDisp(o, v) => AtDisp(o, v)'
  BY Zenon DEF AtWatch, AtHub, AtDisp
<1>2. \A v \in Nat :
        /\ AtStore(o, v) => AtStore(o, v)'
        /\ AtSender(o, v) => AtSender(o, v)'
        /\ AtEdge(o, v) => AtEdge(o, v)'
  <2>1. \A v \in Nat : AtStore(o, v) => AtStore(o, v)'
    BY Zenon, <1>1 DEF AtStore, AtDisp
  <2>2. QED
    BY Zenon, <2>1 DEF AtSender, AtEdge, Sending
<1>3. /\ AtEdge(o, 1)'
      /\ obj'[o].phase = "terminating" => obj'[o].rv >= 2
      /\ InOrder(watch', o) /\ InOrder(hub', o) /\ InOrder(down', o)
      /\ \A i \in 1 .. Len(watch') : watch'[i].obj = o => watch'[i].rv <= obj'[o].rv
  BY Zenon, <1>2 DEF Line
<1>4. \A v \in Nat :
        /\ \A i \in 1 .. Len(hub') : hub'[i].obj = o /\ hub'[i].rv = v => AtWatch(o, v)'
        /\ Handling(o)' /\ disp'.msg.rv = v => AtHub(o, v)'
  BY Zenon, <1>1 DEF Line
<1>5. ASSUME NEW v \in Nat, store'[o].rv = v
      PROVE  AtDisp(o, v)'
  <2>1. AtHub(o, v)'
    BY Zenon, <1>1, <1>5 DEF Line
  <2>2. Brings(disp.msg, 1)
    BY Zenon DEF Line, AtEdge, AtSender, AtStore, AtDisp
  <2>3. disp'.msg.rv = v
    BY Zenon, <1>5
  <2>4. v <= v
    BY <1>5
  <2>5. Brings(disp'.msg, v)
    BY Zenon, <2>2, <2>3, <2>4 DEF Brings
  <2>6. QED
    BY Zenon, <2>1, <2>5 DEF AtDisp
<1>6. \A v \in Nat : Sending(o)' /\ snd'[sess'].msg.rv = v => AtStore(o, v)'
  BY Zenon, <1>2 DEF Line, Sending
<1>7. \A v \in Nat :
        /\ \A i \in 1 .. Len(down') : down'[i].obj = o /\ down'[i].rv = v => AtSender(o, v)'
        /\ Row(o)' /\ edge'[NameOf[o]].rv = v => AtEdge(o, v)'
  BY Zenon, <1>2 DEF Line, Row
<1>8. QED
  BY Zenon, <1>3, <1>4, <1>5, <1>6, <1>7 DEF Line

\* The sender puts a message on the wire: the stored one, or again the one it
\* waits for.
LEMMA LineSend ==
  ASSUME IInv, NEW o \in Objects, Line(o), NEW m \in Message, m.obj = o,
         down' = Append(down, m), \/ store[o] # NoMsg /\ m = store[o]
                                  \/ Sending(o) /\ m = snd[sess].msg,
         Sending(o)' => snd'[sess].msg = m, Sending(o) => snd[sess].msg.rv <= m.rv,
         UNCHANGED <<obj, watch, hub, disp, store, sess, connected, edge>>
  PROVE  Line(o)'
<1>0. down \in Seq(Message) /\ m.rv \in Nat
  BY Zenon, LineTypes DEF Message
<1>1. \A v \in Nat :
        /\ AtWatch(o, v) => AtWatch(o, v)'
        /\ AtHub(o, v) => AtHub(o, v)'
        /\ AtDisp(o, v) => AtDisp(o, v)'
        /\ AtStore(o, v) => AtStore(o, v)'
  BY Zenon DEF AtWatch, AtHub, AtDisp, AtStore, Handling
<1>2. \A v \in Nat : AtSender(o, v) => Brings(m, v) /\ AtSender(o, v)'
  BY Zenon, <1>1 DEF AtSender, AtStore
<1>3. \A v \in Nat : AtEdge(o, v) => AtEdge(o, v)'
  BY Zenon, <1>0, <1>2, AppendBrings DEF AtEdge
<1>4. /\ AtEdge(o, 1)'
      /\ obj'[o].phase = "terminating" => obj'[o].rv >= 2
      /\ InOrder(watch', o) /\ InOrder(hub', o)
      /\ \A i \in 1 .. Len(watch') : watch'[i].obj = o => watch'[i].rv <= obj'[o].rv
  BY Zenon, <1>3 DEF Line
<1>5. InOrder(down', o)
  <2>1. ASSUME NEW i \in 1 .. Len(down), down[i].obj = o
        PROVE  down[i].rv <= m.rv
    <3>1. down[i].rv \in Nat
      BY Zenon, <1>0, ElementVersion
    <3>2. AtSender(o, down[i].rv)
      BY Zenon, <2>1, <3>1 DEF Line
    <3>3. QED
      BY Zenon, <1>2, <3>1, <3>2 DEF Brings
  <2>2. QED
    BY Zenon, <1>0, <2>1, AppendInOrder DEF Line
<1>6. \A v \in Nat :
        /\ \A i \in 1 .. Len(hub') : hub'[i].obj = o /\ hub'[i].rv = v => AtWatch(o, v)'
        /\ Handling(o)' /\ disp'.msg.rv = v => AtHub(o, v)'
        /\ store'[o] # NoMsg /\ store'[o].rv = v => AtDisp(o, v)'
  BY Zenon, <1>1 DEF Line, Handling
<1>7. /\ AtStore(o, m.rv) /\ AtStore(o, m.rv)'
      /\ Brings(m, m.rv)
  <2>1. Brings(m, 1)
    BY Zenon, <1>2 DEF Line, AtEdge
  <2>2. AtStore(o, m.rv)
    <3>1. CASE store[o] # NoMsg /\ m = store[o]
      <4>1. AtDisp(o, m.rv)
        BY Zenon, <1>0, <3>1 DEF Line
      <4>2. QED
        BY Zenon, <1>0, <2>1, <3>1, <4>1, BringsOwn DEF AtStore
    <3>2. CASE Sending(o) /\ m = snd[sess].msg
      BY Zenon, <1>0, <3>2 DEF Line
    <3>3. QED
      BY Zenon, <3>1, <3>2
  <2>3. QED
    BY Zenon, <1>0, <1>1, <2>1, <2>2, BringsOwn
<1>8. \A v \in Nat : Sending(o)' /\ snd'[sess'].msg.rv = v => AtStore(o, v)'
  BY Zenon, <1>7
<1>9. ASSUME NEW v \in Nat, NEW i \in 1 .. Len(down'), down'[i].obj = o, down'[i].rv = v
      PROVE  AtSender(o, v)'
  <2>1. CASE down'[i] = m
    <3>1. AtStore(o, v)' /\ Brings(m, v)
      BY Zenon, <1>7, <1>9, <2>1
    <3>2. QED
      BY Zenon, <3>1 DEF AtSender
  <2>2. CASE \E j \in 1 .. Len(down) : down'[i] = down[j]
    BY Zenon, <1>2, <1>9, <2>2 DEF Line
  <2>3. down'[i] = m \/ \E j \in 1 .. Len(down) : down'[i] = down[j]
    BY Zenon, <1>0, DownElements
  <2>4. QED
    BY Zenon, <2>1, <2>2, <2>3
<1>10. \A v \in Nat : Row(o)' /\ edge'[NameOf[o]].rv = v => AtEdge(o, v)'
  BY Zenon, <1>3 DEF Line, Row
<1>11. QED
  BY Zenon, <1>4, <1>5, <1>6, <1>8, <1>9, <1>10 DEF Line

\* The edge writes the first message about o.
LEMMA LineEdge ==
  ASSUME IInv, NEW o \in Objects, Line(o), NEW i \in Orders, \A j \in Orders : i <= j,
         down[i].obj = o, down' = Without(i),
         edge'[NameOf[o]] = [obj |-> o, rv |-> down[i].rv],
         UNCHANGED <<obj, watch, hub, disp, store, snd, sess, connected>>
  PROVE  /\ Line(o)'
         /\ Row(o)'
         /\ Row(o) => edge[NameOf[o]].rv <= edge'[NameOf[o]].rv
<1>1. down \in Seq(Message) /\ i \in 1 .. Len(down) /\ down[i].rv \in Nat
  <2>1. down \in Seq(Message) /\ i \in 1 .. Len(down)
    BY Zenon, LineTypes DEF Orders
  <2>2. QED
    BY Zenon, <2>1, ElementVersion
<1>2. Fewer(down', down, o)
  BY Zenon, <1>1, FewerWithout DEF Without
<1>3. InOrder(down, o) /\ AtLeast(down, o, 1)
  BY Zenon DEF Line, AtEdge
<1>4. AtLeast(down', o, down[i].rv)
  <2>1. /\ Len(down) \in Nat /\ Len(down') = Len(down) - 1
        /\ \A j \in 1 .. Len(down') : down'[j] = down[IF j < i THEN j ELSE j + 1]
    BY Zenon, <1>1, WithoutPlaces DEF Without
  <2>2. \A j \in 1 .. Len(down) : j < i => down[j].obj # o
    <3>1. \A j \in 1 .. Len(down) : down[j].obj = o => j \in Orders
      BY Zenon, <1>3 DEF AtLeast, Brings, Orders
    <3>2. QED
      BY <1>1, <2>1, <3>1
  <2>3. ASSUME NEW j \in 1 .. Len(down'), down'[j].obj = o
        PROVE  Brings(down'[j], down[i].rv)
    <3>1. ~(j < i)
      BY <1>1, <2>1, <2>2, <2>3
    <3>2. j + 1 \in 1 .. Len(down) /\ i < j + 1 /\ down'[j] = down[j + 1]
      BY <1>1, <2>1, <3>1
    <3>3. Brings(down[j + 1], 1) /\ down[i].rv <= down[j + 1].rv
      BY Zenon, <1>1, <1>3, <2>3, <3>2 DEF AtLeast, InOrder
    <3>4. QED
      BY Zenon, <3>2, <3>3 DEF Brings
  <2>4. QED
    BY Zenon, <2>3 DEF AtLeast
<1>5. \A v \in Nat :
        /\ AtWatch(o, v) => AtWatch(o, v)'
        /\ AtHub(o, v) => AtHub(o, v)'
        /\ AtDisp(o, v) => AtDisp(o, v)'
        /\ AtStore(o, v) => AtStore(o, v)'
  BY Zenon DEF AtWatch, AtHub, AtDisp, AtStore, Handling
<1>6. \A v \in Nat :
        /\ AtSender(o, v) => AtSender(o, v)'
        /\ AtEdge(o, v) => AtEdge(o, v)'
  BY Zenon, <1>2, <1>5 DEF AtSender, AtEdge, Sending, Fewer
<1>7. /\ AtEdge(o, 1)'
      /\ obj'[o].phase = "terminating" => obj'[o].rv >= 2
      /\ InOrder(watch', o) /\ InOrder(hub', o) /\ InOrder(down', o)
      /\ \A j \in 1 .. Len(watch') : watch'[j].obj = o => watch'[j].rv <= obj'[o].rv
  BY Zenon, <1>2, <1>6 DEF Line, Fewer
<1>8. \A v \in Nat :
        /\ \A j \in 1 .. Len(hub') : hub'[j].obj = o /\ hub'[j].rv = v => AtWatch(o, v)'
        /\ Handling(o)' /\ disp'.msg.rv = v => AtHub(o, v)'
        /\ store'[o] # NoMsg /\ store'[o].rv = v => AtDisp(o, v)'
        /\ Sending(o)' /\ snd'[sess'].msg.rv = v => AtStore(o, v)'
  BY Zenon, <1>5 DEF Line, Handling, Sending
<1>9. ASSUME NEW v \in Nat, NEW j \in 1 .. Len(down'), down'[j].obj = o, down'[j].rv = v
      PROVE  AtSender(o, v)'
  <2>1. PICK k \in 1 .. Len(down) : down[k] = down'[j]
    BY Zenon, <1>2, <1>9 DEF Fewer
  <2>2. QED
    BY Zenon, <1>6, <1>9, <2>1 DEF Line
<1>10. Row(o)' /\ edge'[NameOf[o]].rv = down[i].rv
  BY DEF Row, NoMsg
<1>11. \A v \in Nat : Row(o)' /\ edge'[NameOf[o]].rv = v => AtEdge(o, v)'
  <2>1. AtSender(o, down[i].rv)
    BY Zenon, <1>1 DEF Line
  <2>2. QED
    BY Zenon, <1>1, <1>4, <1>6, <1>10, <2>1 DEF AtEdge
<1>12. Row(o) => edge[NameOf[o]].rv <= edge'[NameOf[o]].rv
  <2>1. Row(o) => AtLeast(down, o, edge[NameOf[o]].rv)
    BY Zenon, LineTypes DEF Line, AtEdge
  <2>2. QED
    BY Zenon, <1>1, <1>10, <2>1 DEF AtLeast, Brings
<1>13. QED
  BY Zenon, <1>7, <1>8, <1>9, <1>10, <1>11, <1>12 DEF Line
=============================================================================
