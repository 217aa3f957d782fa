--------------------------- MODULE DeliveryProofs ---------------------------
(***************************************************************************)
(* Proofs about ReliableSync: when nothing is left to do the edge has the  *)
(* current version of every object, however often the connection broke.    *)
(*                                                                         *)
(* The inductive invariant DInv has three parts for each object that is    *)
(* there and whose events SyncController did not overtake.  Line: no       *)
(* message about the object comes after a newer one, at any place on its   *)
(* way.  Kept: the edge has everything it ever wrote of the object, or     *)
(* something newer.  Synced: the ObjectSync has a status, or the message   *)
(* that makes the dispatcher write it is on its way, and no other message  *)
(* has passed the dispatcher.                                              *)
(***************************************************************************)
EXTENDS ReliableSyncProofs

\* What a sender has sent, it had sent before.
SenderKept(r, q) ==
  r.pc \in Sent => q.pc \in Sent /\ r.msg = q.msg /\ (r.pc = "wait" => q.pc = "wait")
SendersKept == \A s \in Sessions : SenderKept(snd'[s], snd[s])

LEMMA KeptWrite ==
  ASSUME NEW f \in [Sessions -> SenderType], NEW s \in Sessions, NEW r,
         \A t \in Sessions : SenderKept(f[t], snd[t]),
         SenderKept(r, snd[s]), snd' = [f EXCEPT ![s] = r]
  PROVE  SendersKept
BY Zenon DEF SendersKept

LEMMA KeptSpoiled ==
  ASSUME IInv, NEW o
  PROVE  /\ snd \in [Sessions -> SenderType]
         /\ SpoilSnd(snd, o) \in [Sessions -> SenderType]
         /\ \A t \in Sessions : SenderKept(snd[t], snd[t])
         /\ \A t \in Sessions : SenderKept(SpoilSnd(snd, o)[t], snd[t])
<1>1. snd \in [Sessions -> SenderType]
  BY Zenon DEF IInv, SenderInv
<1>2. SpoilSnd(snd, o) \in [Sessions -> SenderType]
  BY Zenon, <1>1 DEF SpoilSnd, SenderType
<1>3. ASSUME NEW t \in Sessions
      PROVE  SenderKept(snd[t], snd[t]) /\ SenderKept(SpoilSnd(snd, o)[t], snd[t])
  BY Zenon, <1>1 DEF SpoilSnd, SenderType, SenderKept
<1>4. QED
  BY Zenon, <1>1, <1>2, <1>3

\* A sender that rests has sent nothing.
LEMMA KeptResting ==
  ASSUME NEW q
  PROVE  SenderKept(IdleSender, q) /\ SenderKept(ExitedSender, q)
BY Zenon DEF SenderKept, IdleSender, ExitedSender, Sent

LEMMA KeptFinish ==
  ASSUME IInv, NEW s \in Sessions, NEW f \in [Sessions -> SenderType],
         \A t \in Sessions : SenderKept(f[t], snd[t]), Finish(s, f)
  PROVE  SendersKept
<1>1. PICK r \in {IdleSender, ExitedSender} : snd' = [f EXCEPT ![s] = r]
  BY Zenon DEF Finish
<1>2. SenderKept(r, snd[s])
  BY Zenon, KeptResting
<1>3. QED
  BY Zenon, <1>1, <1>2, KeptWrite

LEMMA KeptSteps ==
  ASSUME IInv, NEW s \in Sessions,
         \/ UNCHANGED snd \/ DispatchCreate \/ DispatchStatus
         \/ SenderGet(s) \/ SenderResend(s) \/ SenderTimeout(s) \/ ReceiveAck
         \/ SaveDelete(s) \/ SaveGet(s) \/ SaveDrop(s) \/ SaveCreate(s)
         \/ SaveUpdate(s) \/ ZombieExit(s) \/ Disconnect
  PROVE  SendersKept
<1>1. snd \in [Sessions -> SenderType] /\ sess \in Sessions
  BY Zenon DEF IInv, SenderInv, NetInv
<1>2. \A t \in Sessions : SenderKept(snd[t], snd[t])
  BY Zenon, KeptSpoiled
<1>3. CASE UNCHANGED snd
  BY Zenon, <1>2, <1>3 DEF SendersKept
<1>4. CASE DispatchCreate \/ DispatchStatus
  <2>1. UNCHANGED snd \/ snd' = SpoilSnd(snd, disp.msg.obj)
    BY Zenon, <1>4 DEF DispatchCreate, DispatchStatus
  <2>2. QED
    BY Zenon, <1>3, <2>1, KeptSpoiled DEF SendersKept
<1>5. CASE SenderGet(s)
  <2>1. snd'[s].pc = "got" /\ \A t \in Sessions : t # s => snd'[t] = snd[t]
    BY Zenon, <1>1, <1>5 DEF SenderGet, SenderType
  <2>2. QED
    BY Zenon, <1>2, <2>1 DEF SendersKept, SenderKept, Sent
<1>6. CASE SenderResend(s)
  <2>1. /\ snd'[s].pc = snd[s].pc /\ snd'[s].msg = snd[s].msg
        /\ \A t \in Sessions : t # s => snd'[t] = snd[t]
    BY Zenon, <1>1, <1>6 DEF SenderResend, SenderType
  <2>2. QED
    BY Zenon, <1>2, <2>1 DEF SendersKept, SenderKept
<1>7. CASE SenderTimeout(s) \/ ZombieExit(s)
  <2>1. PICK r \in {IdleSender, ExitedSender} : snd' = [snd EXCEPT ![s] = r]
    BY Zenon, <1>7 DEF SenderTimeout, ZombieExit
  <2>2. SenderKept(r, snd[s])
    BY Zenon, KeptResting
  <2>3. QED
    BY Zenon, <1>1, <1>2, <2>1, <2>2, KeptWrite
<1>8. CASE ReceiveAck
  <2>1. CASE snd' = [snd EXCEPT ![sess].acked = TRUE]
    <3>1. /\ snd'[sess].pc = snd[sess].pc /\ snd'[sess].msg = snd[sess].msg
          /\ \A t \in Sessions : t # sess => snd'[t] = snd[t]
      BY Zenon, <1>1, <2>1 DEF SenderType
    <3>2. QED
      BY Zenon, <1>2, <3>1 DEF SendersKept, SenderKept
  <2>2. QED
    BY Zenon, <1>3, <1>8, <2>1 DEF ReceiveAck
<1>9. ASSUME NEW f \in {snd, SpoilSnd(snd, snd[s].msg.obj)}, NEW pc \in Sent \ {"wait"},
             NEW b, snd[s].pc \in Sent, snd' = [f EXCEPT ![s].pc = pc, ![s].fresh = b]
      PROVE  SendersKept
  <2>1. f \in [Sessions -> SenderType] /\ \A t \in Sessions : SenderKept(f[t], snd[t])
    BY Zenon, KeptSpoiled
  <2>2. f[s].msg = snd[s].msg
    BY Zenon, <1>1 DEF SpoilSnd, SenderType
  <2>3. /\ snd'[s].pc = pc /\ snd'[s].msg = f[s].msg
        /\ \A t \in Sessions : t # s => snd'[t] = f[t]
    BY Zenon, <1>9, <2>1 DEF SenderType
  <2>4. QED
    BY Zenon, <1>9, <2>1, <2>2, <2>3 DEF SendersKept, SenderKept
<1>10. CASE SaveDelete(s)
  <2>1. PICK f \in {snd, SpoilSnd(snd, snd[s].msg.obj)} : snd' = [f EXCEPT ![s].pc = "drop"]
    BY Zenon, <1>10 DEF SaveDelete
  <2>2. f \in [Sessions -> SenderType]
    BY Zenon, <2>1, KeptSpoiled
  <2>3. snd' = [f EXCEPT ![s].pc = "drop", ![s].fresh = f[s].fresh]
    BY Zenon, <2>1, <2>2 DEF SenderType
  <2>4. snd[s].pc \in Sent /\ "drop" \in Sent \ {"wait"}
    BY Zenon, <1>10 DEF SaveDelete, Sent
  <2>5. QED
    BY Zenon, <1>9, <2>1, <2>3, <2>4
<1>11. CASE SaveGet(s)
  <2>1. snd[s].pc \in Sent
    BY Zenon, <1>11 DEF SaveGet, Sent
  <2>2. \/ snd' = [snd EXCEPT ![s].pc = "create"]
        \/ snd' = [snd EXCEPT ![s].pc = "update", ![s].fresh = TRUE]
    BY Zenon, <1>11 DEF SaveGet
  <2>3. \E pc \in Sent \ {"wait"}, b \in BOOLEAN :
          snd' = [snd EXCEPT ![s].pc = pc, ![s].fresh = b]
    <3>1. CASE snd' = [snd EXCEPT ![s].pc = "create"]
      <4>1. snd' = [snd EXCEPT ![s].pc = "create", ![s].fresh = snd[s].fresh]
        BY Zenon, <1>1, <3>1 DEF SenderType
      <4>2. snd[s].fresh \in BOOLEAN /\ "create" \in Sent \ {"wait"}
        BY Zenon, <1>1 DEF SenderType, Sent
      <4>3. QED
        BY Zenon, <4>1, <4>2
    <3>2. CASE snd' = [snd EXCEPT ![s].pc = "update", ![s].fresh = TRUE]
      <4>1. "update" \in Sent \ {"wait"} /\ TRUE \in BOOLEAN
        BY Zenon DEF Sent
      <4>2. QED
        BY Zenon, <3>2, <4>1
    <3>3. QED
      BY Zenon, <2>2, <3>1, <3>2
  <2>4. QED
    BY Zenon, <1>9, <2>1, <2>3
<1>12. CASE SaveDrop(s)
  BY Zenon, <1>1, <1>2, <1>12, KeptFinish DEF SaveDrop
<1>13. CASE SaveUpdate(s)
  BY Zenon, <1>1, <1>2, <1>13, KeptFinish, KeptSpoiled DEF SaveUpdate
<1>14. CASE SaveCreate(s)
  <2>1. CASE Finish(s, snd)
    BY Zenon, <1>1, <1>2, <2>1, KeptFinish
  <2>2. CASE snd' = [SpoilSnd(snd, snd[s].msg.obj) EXCEPT ![s].pc = "update",
                                                          ![s].fresh = TRUE]
    <3>1. snd[s].pc \in Sent /\ "update" \in Sent \ {"wait"}
      BY Zenon, <1>14 DEF SaveCreate, Sent
    <3>2. QED
      BY Zenon, <1>9, <2>2, <3>1
  <2>3. QED
    BY Zenon, <1>14, <2>1, <2>2 DEF SaveCreate
<1>15. CASE Disconnect
  <2>1. snd' = snd \/ snd' = [snd EXCEPT ![sess] = ExitedSender]
    BY Zenon, <1>15 DEF Disconnect
  <2>2. QED
    BY Zenon, <1>1, <1>2, <1>3, <2>1, KeptWrite, KeptResting
<1>16. QED
  BY Zenon, <1>3, <1>4, <1>5, <1>6, <1>7, <1>8, <1>10, <1>11, <1>12, <1>13, <1>14, <1>15

\* The sender sends nothing new about o, and has sent nothing if it had not.
LEMMA KeptLess ==
  ASSUME IInv, QInv, NEW o \in Objects, SendersKept,
         UNCHANGED <<sess, connected>> \/ Disconnect \/ Connect
  PROVE  /\ LessSender(o)
         /\ Unsent(o) /\ store'[o] = NoMsg => Unsent(o)'
<1>1. Unsent(o) /\ store'[o] = NoMsg => Unsent(o)'
  BY Zenon DEF Unsent, SendersKept, SenderKept
<1>2. sess \in Sessions
  BY Zenon DEF IInv, NetInv
<1>3. CASE UNCHANGED <<sess, connected>>
  <2>1. SenderKept(snd'[sess], snd[sess])
    BY Zenon, <1>2 DEF SendersKept
  <2>2. ASSUME Sending(o)'
        PROVE  Sending(o) /\ snd'[sess'].msg = snd[sess].msg
    <3>1. connected' /\ snd'[sess'].pc = "wait" /\ snd'[sess'].msg.obj = o
      BY Zenon, <2>2 DEF Sending
    <3>2. connected' = connected /\ snd'[sess'] = snd'[sess]
      BY Zenon, <1>3
    <3>3. snd[sess].pc = "wait" /\ snd'[sess'].msg = snd[sess].msg
      BY Zenon, <2>1, <3>1, <3>2 DEF SenderKept, Sent
    <3>4. QED
      BY Zenon, <3>1, <3>2, <3>3 DEF Sending
  <2>3. QED
    BY Zenon, <1>1, <2>2 DEF LessSender
<1>4. CASE Disconnect
  <2>1. ~connected'
    BY Zenon, <1>4 DEF Disconnect
  <2>2. ~Sending(o)'
    BY Zenon, <2>1 DEF Sending
  <2>3. QED
    BY Zenon, <1>1, <2>2 DEF LessSender
<1>5. CASE Connect
  <2>1. sess' = sess + 1 /\ snd' = snd /\ sess < MaxSessions
    BY Zenon, <1>5 DEF Connect
  <2>2. sess' \in Sessions /\ sess' > sess
    BY <1>2, <2>1, ReliableSyncAssumption DEF Sessions
  <2>3. snd[sess'] = IdleSender
    BY Zenon, <2>2 DEF QInv, Unopened
  <2>4. snd'[sess'].pc # "wait"
    BY <2>1, <2>3 DEF IdleSender
  <2>5. ~Sending(o)'
    BY Zenon, <2>4 DEF Sending
  <2>6. QED
    BY Zenon, <1>1, <2>5 DEF LessSender
<1>6. QED
  BY Zenon, <1>1, <1>3, <1>4, <1>5

\* The first version of o stays in a sequence that is moved on.
LEMMA FirstStays ==
  ASSUME NEW q \in Seq(Message), NEW o, First(q, o)
  PROVE  /\ \A m : First(Append(q, m), o)
         /\ q # << >>
         /\ ~(Head(q).obj = o /\ Head(q).rv = 1) => First(Tail(q), o)
<1>1. PICK i \in 1 .. Len(q) : q[i].obj = o /\ q[i].rv = 1
  BY Zenon DEF First
<1>2. \A m : First(Append(q, m), o)
  <2>1. ASSUME NEW m
        PROVE  i \in 1 .. Len(Append(q, m)) /\ Append(q, m)[i] = q[i]
    BY AppendPlaces
  <2>2. QED
    BY Zenon, <1>1, <2>1 DEF First
<1>3. q # << >> /\ Len(q) \in Nat /\ Len(q) > 0 /\ Head(q) = q[1]
  OBVIOUS
<1>4. ASSUME ~(Head(q).obj = o /\ Head(q).rv = 1)
      PROVE  First(Tail(q), o)
  <2>1. i # 1
    BY Zenon, <1>1, <1>3, <1>4
  <2> DEFINE r == Tail(q)
             j == i - 1
  <2>2. j \in 1 .. Len(r) /\ r[j] = q[i]
    BY <1>3, <2>1
  <2> HIDE DEF r, j
  <2>3. First(r, o)
    BY Zenon, <1>1, <2>2 DEF First
  <2>4. QED
    BY Zenon, <2>3 DEF r
<1>5. QED
  BY Zenon, <1>2, <1>3, <1>4

LEMMA FirstAdded ==
  ASSUME NEW q \in Seq(Message), NEW m, NEW o, m.obj = o, m.rv = 1
  PROVE  First(Append(q, m), o)
<1>1. Len(q) + 1 \in 1 .. Len(Append(q, m)) /\ Append(q, m)[Len(q) + 1] = m
  BY AppendPlaces
<1>2. QED
  BY Zenon, <1>1 DEF First

\* The dispatcher handles o as before, or still does not handle it.
SameDisp(o) == (Handling(o)' <=> Handling(o)) /\ (Handling(o) => disp' = disp)

\* A step that leaves o's ObjectSync alone.
LEMMA SyncedFrame ==
  ASSUME NEW o \in Objects, Synced(o), syncs'[o] = syncs[o],
         syncCache'[o] \in {syncCache[o], syncs[o]},
         Unsent(o) => Unsent(o)', SameDisp(o),
         First(hub, o) => First(hub', o),
         First(watch, o) => First(hub', o) \/ First(watch', o)
  PROVE  Synced(o)'
<1>1. CASE Announced(o)
  <2>1. syncs'[o] = Absent /\ syncCache'[o] = Absent /\ Unsent(o)'
    BY Zenon, <1>1 DEF Announced
  <2>2. Handling(o)' => disp'.pc = "create"
    BY Zenon, <1>1 DEF Announced, SameDisp
  <2>3. Handling(o)' \/ First(hub', o) \/ First(watch', o)
    BY Zenon, <1>1 DEF Announced, SameDisp
  <2>4. Announced(o)'
    BY Zenon, <2>1, <2>2, <2>3 DEF Announced
  <2>5. QED
    BY Zenon, <2>4 DEF Synced
<1>2. CASE Created(o)
  <2>1. Created(o)'
    BY Zenon, <1>2 DEF Created, SameDisp
  <2>2. QED
    BY Zenon, <2>1 DEF Synced
<1>3. CASE Recorded(o)
  BY Zenon, <1>3 DEF Recorded, Synced
<1>4. QED
  BY Zenon, <1>1, <1>2, <1>3 DEF Synced

\* While the row of o stays, so does what is said of it.
LEMMA KeptFrame ==
  ASSUME NEW o \in Objects, Kept(o), edge'[NameOf[o]] = edge[NameOf[o]],
         \A v \in Nat : <<o, v>> \in persisted' => <<o, v>> \in persisted
  PROVE  Kept(o)' /\ LessRow(o)
BY Zenon DEF Kept, LessRow, Row

\* A step that does not touch what is on its way about o, but may lose some.
LEMMA DeliveringFrame ==
  ASSUME NEW o \in Objects, Delivering(o), obj'[o] = obj[o],
         Fewer(watch', watch, o), Fewer(hub', hub, o), Fewer(down', down, o),
         SameDisp(o), LessStore(o), LessSender(o),
         edge'[NameOf[o]] = edge[NameOf[o]],
         \A v \in Nat : <<o, v>> \in persisted' => <<o, v>> \in persisted,
         syncs'[o] = syncs[o], syncCache'[o] \in {syncCache[o], syncs[o]},
         Unsent(o) => Unsent(o)', First(hub, o) => First(hub', o),
         First(watch, o) => First(hub', o) \/ First(watch', o)
  PROVE  Delivering(o)'
<1>1. Kept(o)' /\ LessRow(o)
  BY Zenon, KeptFrame DEF Delivering
<1>2. LessDisp(o)
  BY Zenon DEF SameDisp, LessDisp
<1>3. Line(o)'
  BY Zenon, <1>1, <1>2, LineShrinks DEF Delivering
<1>4. Synced(o)'
  BY Zenon, SyncedFrame DEF Delivering
<1>5. QED
  BY Zenon, <1>1, <1>3, <1>4 DEF Delivering

\* What a step leaves alone.
LEMMA SameParts ==
  ASSUME NEW o \in Objects
  PROVE  /\ UNCHANGED watch => Fewer(watch', watch, o) /\ (First(watch, o) => First(watch', o))
         /\ UNCHANGED hub => Fewer(hub', hub, o) /\ (First(hub, o) => First(hub', o))
         /\ UNCHANGED down => Fewer(down', down, o)
         /\ UNCHANGED disp => SameDisp(o)
         /\ UNCHANGED store => LessStore(o)
         /\ UNCHANGED <<snd, sess, connected>> => LessSender(o)
         /\ UNCHANGED <<snd, store>> => (Unsent(o) => Unsent(o)')
<1>1. Fewer(watch, watch, o) /\ Fewer(hub, hub, o) /\ Fewer(down, down, o)
  BY Zenon, FewerSame
<1>2. UNCHANGED disp => SameDisp(o)
  BY Zenon DEF SameDisp, Handling
<1>3. UNCHANGED store => LessStore(o)
  BY Zenon DEF LessStore
<1>4. UNCHANGED <<snd, sess, connected>> => LessSender(o)
  BY Zenon DEF LessSender, Sending
<1>5. UNCHANGED <<snd, store>> => (Unsent(o) => Unsent(o)')
  BY Zenon DEF Unsent
<1>6. QED
  BY Zenon, <1>1, <1>2, <1>3, <1>4, <1>5

\* What a message of the API server's events says.
LEMMA UpsertSays ==
  ASSUME NEW o \in Objects, NEW v \in Nat, NEW t \in BOOLEAN
  PROVE  /\ Upsert(o, v, t) \in Message
         /\ Upsert(o, v, t).op = "upsert" /\ Upsert(o, v, t).obj = o
         /\ Upsert(o, v, t).rv = v
BY Zenon, UpsertType DEF Upsert

LEMMA UpdateSays ==
  ASSUME NEW o \in Objects, NEW v \in Nat, NEW ph
  PROVE  /\ Upsert(o, v, ph = "terminating") \in Message
         /\ Upsert(o, v, ph = "terminating").op = "upsert"
         /\ Upsert(o, v, ph = "terminating").obj = o
         /\ Upsert(o, v, ph = "terminating").rv = v
<1>1. CASE ph = "terminating"
  BY Zenon, <1>1, UpsertSays
<1>2. CASE ph # "terminating"
  BY Zenon, <1>2, UpsertSays
<1>3. QED
  BY Zenon, <1>1, <1>2

LEMMA StampSays ==
  ASSUME NEW m \in Message, CanPublish(m)
  PROVE  /\ Stamp(m) \in Message
         /\ Stamp(m).op = m.op /\ Stamp(m).obj = m.obj
         /\ Stamp(m).rv = m.rv /\ Stamp(m).dts = m.dts
<1>1. Stamp(m) \in Stamped(m)
  BY Zenon DEF CanPublish, Stamp
<1>2. PICK i \in Ids : Stamp(m) = [m EXCEPT !.id = i]
  BY Zenon, <1>1 DEF Stamped
<1>3. QED
  BY Zenon, <1>2 DEF Message

\* Clients change other objects ...
LEMMA DeliveringOther ==
  ASSUME IInv, NEW o \in Objects, Delivering(o), NEW p \in Objects, p # o,
         NEW ph, CreateObject(p) \/ UpdateObject(p, ph) \/ RemoveObject(p)
  PROVE  Delivering(o)'
<1>1. UNCHANGED <<syncs, syncCache, hub, disp, store, snd, sess, connected, down, edge,
                  persisted>>
  BY Zenon DEF CreateObject, UpdateObject, RemoveObject, poolVars, netVars, edgeVars
<1>2. obj'[o] = obj[o]
  BY Zenon DEF CreateObject, UpdateObject, RemoveObject, IInv, ApiInv
<1>3. watch \in Seq(Message)
  BY Zenon, LineTypes
<1>4. \E m : watch' = Append(watch, m) /\ m.obj = p
  <2>1. CASE CreateObject(p)
    <3>1. Upsert(p, 1, FALSE).obj = p
      BY Zenon, UpsertSays
    <3>2. QED
      BY Zenon, <2>1, <3>1 DEF CreateObject
  <2>2. CASE UpdateObject(p, ph)
    <3>1. obj[p].rv + 1 \in Nat /\ (ph = "terminating") \in BOOLEAN
      BY LineTypes
    <3>2. Upsert(p, obj[p].rv + 1, ph = "terminating").obj = p
      BY Zenon, <3>1, UpsertSays
    <3>3. QED
      BY Zenon, <2>2, <3>2 DEF UpdateObject
  <2>3. CASE RemoveObject(p)
    BY Zenon, <2>3, DeleteType DEF RemoveObject
  <2>4. QED
    BY Zenon, <2>1, <2>2, <2>3
<1>5. Fewer(watch', watch, o) /\ (First(watch, o) => First(watch', o))
  BY Zenon, <1>3, <1>4, FewerOther, FirstStays
<1>6. QED
  BY Zenon, <1>1, <1>2, <1>5, SameParts, DeliveringFrame

\* ... or o itself.
LEMMA DeliveringUpdate ==
  ASSUME IInv, NEW o \in Objects, Delivering(o),
         NEW ph \in {"live", "terminating"}, UpdateObject(o, ph)
  PROVE  Delivering(o)'
<1>1. UNCHANGED <<syncs, syncCache, hub, disp, store, snd, sess, connected, down, edge,
                  persisted>>
  BY Zenon DEF UpdateObject, poolVars, netVars, edgeVars
<1>2. obj[o].rv \in Nat /\ watch \in Seq(Message) /\ obj[o].rv >= 1
  BY Zenon, LineTypes
     DEF Delivering, Line, AtEdge, AtSender, AtStore, AtDisp, AtHub, AtWatch
<1>3. obj'[o].rv = obj[o].rv + 1
  BY Zenon DEF UpdateObject, IInv, ApiInv
<1>4. PICK m \in Message : /\ watch' = Append(watch, m) /\ m.op = "upsert" /\ m.obj = o
                           /\ m.rv = obj[o].rv + 1
  <2>1. PICK v \in Nat : v = obj[o].rv + 1
    BY <1>2
  <2> DEFINE m == Upsert(o, v, ph = "terminating")
  <2>2. m \in Message /\ m.op = "upsert" /\ m.obj = o /\ m.rv = v
    BY UpdateSays
  <2>3. watch' = Append(watch, m)
    BY Zenon, <2>1 DEF UpdateObject
  <2> HIDE DEF m
  <2>4. QED
    BY Zenon, <2>1, <2>2, <2>3
<1>5. \A v \in Nat : v <= obj[o].rv => Brings(m, v)
  BY <1>2, <1>4 DEF Brings
<1>6. \A v \in Nat : AtWatch(o, v) => AtWatch(o, v)'
  <2>1. ASSUME NEW v \in Nat, AtWatch(o, v)
        PROVE  AtWatch(o, v)'
    <3>1. v <= obj[o].rv /\ AtLeast(watch, o, v) /\ v <= obj'[o].rv
      BY <1>2, <1>3, <2>1 DEF AtWatch
    <3>2. AtLeast(watch', o, v)
      BY Zenon, <1>2, <1>4, <1>5, <3>1, AppendBrings
    <3>3. QED
      BY Zenon, <3>1, <3>2 DEF AtWatch
  <2>2. QED
    BY Zenon, <2>1
<1>7. \A i \in 1 .. Len(watch) : watch[i].obj = o => watch[i].rv <= obj[o].rv
  BY Zenon DEF Delivering, Line
<1>8. InOrder(watch', o)
  <2>1. \A i \in 1 .. Len(watch) : watch[i].obj = o => watch[i].rv <= m.rv
    BY <1>2, <1>4, <1>7, ElementVersion
  <2>2. QED
    BY Zenon, <1>2, <1>4, <2>1, AppendInOrder DEF Delivering, Line
<1>9. \A i \in 1 .. Len(watch') : watch'[i].obj = o => watch'[i].rv <= obj'[o].rv
  <2>1. ASSUME NEW i \in 1 .. Len(watch'), watch'[i].obj = o
        PROVE  watch'[i].rv <= obj'[o].rv
    <3>1. CASE watch'[i] = m
      BY <1>2, <1>3, <1>4, <3>1
    <3>2. CASE \E j \in 1 .. Len(watch) : watch'[i] = watch[j]
      BY <1>2, <1>3, <1>7, <2>1, <3>2, ElementVersion
    <3>3. QED
      BY <1>2, <1>4, <3>1, <3>2, AppendElements
  <2>2. QED
    BY Zenon, <2>1
<1>10. obj'[o].rv >= 2
  BY <1>2, <1>3
<1>11. First(watch, o) => First(watch', o)
  BY Zenon, <1>2, <1>4, FirstStays
<1>12. Kept(o)' /\ LessRow(o)
  BY Zenon, <1>1, KeptFrame DEF Delivering
<1>13. LessDisp(o)
  BY Zenon, <1>1 DEF LessDisp, Handling
<1>14. Line(o)'
  BY Zenon, <1>1, <1>6, <1>8, <1>9, <1>10, <1>12, <1>13, SameParts, LineWatch DEF Delivering
<1>15. Synced(o)'
  BY Zenon, <1>1, <1>11, SameParts, SyncedFrame DEF Delivering
<1>16. QED
  BY Zenon, <1>12, <1>14, <1>15 DEF Delivering

\* The creation of o: nothing is on its way, nor at the edge.
LEMMA DeliveringCreate ==
  ASSUME IInv, NEW o \in Objects, Unknown(o), CreateObject(o)
  PROVE  Delivering(o)'
<1>1. UNCHANGED <<syncs, syncCache, hub, disp, store, snd, sess, connected, down, edge,
                  persisted>>
  BY Zenon DEF CreateObject, poolVars, netVars, edgeVars
<1>2. obj[o].phase = "none" /\ obj'[o].rv = 1 /\ obj'[o].phase = "live"
  BY Zenon DEF CreateObject, IInv, ApiInv
<1>3. PICK m \in Message : /\ watch' = Append(watch, m) /\ m.op = "upsert" /\ m.obj = o
                           /\ m.rv = 1 /\ ~m.dts
  <2> DEFINE m == Upsert(o, 1, FALSE)
  <2>1. m \in Message /\ m.op = "upsert" /\ m.obj = o /\ m.rv = 1
    <3>1. 1 \in Nat /\ FALSE \in BOOLEAN
      OBVIOUS
    <3>2. QED
      BY Zenon, <3>1, UpsertSays
  <2>0. ~m.dts
    BY Zenon DEF Upsert
  <2>2. watch' = Append(watch, m)
    BY Zenon DEF CreateObject
  <2> HIDE DEF m
  <2>3. QED
    BY Zenon, <2>0, <2>1, <2>2
<1>4. /\ watch \in Seq(Message)
      /\ \A i \in 1 .. Len(watch) : watch[i].obj # o
      /\ \A i \in 1 .. Len(hub) : hub[i].obj # o
      /\ \A i \in 1 .. Len(down) : down[i].obj # o
  <2>1. \A x \in Genuine : x.obj # o
    BY Zenon, <1>2 DEF Genuine
  <2>2. watch \in Seq(Genuine) /\ hub \in Seq(Genuine) /\ down \in Seq(Genuine)
    BY Zenon DEF IInv, ApiInv, DispInv, NetInv
  <2>3. /\ \A i \in 1 .. Len(watch) : watch[i] \in Genuine
        /\ \A i \in 1 .. Len(hub) : hub[i] \in Genuine
        /\ \A i \in 1 .. Len(down) : down[i] \in Genuine
    BY <2>2
  <2>4. QED
    BY Zenon, <2>1, <2>3, LineTypes
<1>5. /\ ~Handling(o) /\ store[o] = NoMsg
      /\ \A s \in Sessions : snd[s].pc \in Sent => snd[s].msg.obj # o
  BY <1>2 DEF IInv, DispInv, PoolInv, SenderInv, SenderOK, MaybeMsg, Genuine, Handling, Sent
<1>6. ~Sending(o) /\ Unsent(o) /\ ~Row(o)
  BY Zenon, <1>5, LineTypes DEF Sending, Unsent, Sent, Unknown
<1>7. ~Handling(o)' /\ store'[o] = NoMsg /\ ~Sending(o)' /\ Unsent(o)' /\ ~Row(o)'
  BY Zenon, <1>1, <1>5, <1>6 DEF Handling, Sending, Unsent, Row
<1>8. /\ \A v \in Nat : AtLeast(hub', o, v) /\ AtLeast(down', o, v) /\ AtLeast(watch, o, v)
      /\ InOrder(hub', o) /\ InOrder(down', o) /\ InOrder(watch, o)
  BY Zenon, <1>1, <1>4 DEF AtLeast, InOrder
<1>9. AtLeast(watch', o, 1) /\ InOrder(watch', o)
  <2>1. Brings(m, 1)
    BY <1>3 DEF Brings
  <2>2. QED
    BY Zenon, <1>3, <1>4, <1>8, <2>1, AppendBrings, AppendInOrder
<1>10. \A i \in 1 .. Len(watch') : watch'[i].obj = o => watch'[i].rv <= obj'[o].rv
  <2>1. ASSUME NEW i \in 1 .. Len(watch'), watch'[i].obj = o
        PROVE  watch'[i].rv <= obj'[o].rv
    <3>1. watch'[i] = m
      BY <1>3, <1>4, <2>1, AppendElements
    <3>2. QED
      BY <1>2, <1>3, <3>1
  <2>2. QED
    BY Zenon, <2>1
<1>11. AtEdge(o, 1)'
  BY <1>2, <1>7, <1>8, <1>9 DEF AtEdge, AtSender, AtStore, AtDisp, AtHub, AtWatch
<1>12. Line(o)'
  BY Zenon, <1>1, <1>2, <1>4, <1>7, <1>8, <1>9, <1>10, <1>11 DEF Line
<1>13. Kept(o)'
  BY Zenon, <1>1 DEF Unknown, Kept
<1>14. syncs'[o] = Absent /\ syncCache'[o] = Absent
  BY Zenon, <1>1, <1>2 DEF IInv, ApiInv
<1>15. First(watch', o)
  BY Zenon, <1>3, <1>4, FirstAdded
<1>16. Announced(o)'
  BY Zenon, <1>7, <1>14, <1>15 DEF Announced
<1>17. QED
  BY Zenon, <1>12, <1>13, <1>16 DEF Delivering, Synced

\* EdgeController publishes its next event.
LEMMA DeliveringEvent ==
  ASSUME IInv, NEW o \in Objects, Delivering(o), EdgeControllerSync
  PROVE  Delivering(o)'
<1>1. UNCHANGED <<obj, syncs, syncCache, disp, store, snd, sess, connected, down, edge,
                  persisted>>
  BY Zenon DEF EdgeControllerSync, poolVars, netVars, edgeVars
<1>2. /\ watch \in Seq(Message) /\ hub \in Seq(Message) /\ watch # << >>
      /\ watch' = Tail(watch)
  BY Zenon, LineTypes DEF EdgeControllerSync
<1>3. /\ Head(watch) \in Message /\ Head(watch).rv \in Nat
      /\ Head(watch) = watch[1] /\ 1 \in 1 .. Len(watch)
  <2>1. Head(watch) = watch[1] /\ 1 \in 1 .. Len(watch)
    BY <1>2
  <2>2. QED
    BY Zenon, <1>2, <2>1, ElementVersion
<1>4. PICK m \in Message : /\ hub' = Append(hub, m)
                           /\ m.op = Head(watch).op /\ m.obj = Head(watch).obj
                           /\ m.rv = Head(watch).rv /\ m.dts = Head(watch).dts
  BY Zenon, <1>3, StampSays DEF EdgeControllerSync, Publish
<1>5. Fewer(watch', watch, o)
  BY Zenon, <1>2, FewerTail
<1>6. Kept(o)' /\ LessRow(o)
  BY Zenon, <1>1, KeptFrame DEF Delivering
<1>7. /\ First(hub, o) => First(hub', o)
      /\ First(watch, o) => First(hub', o) \/ First(watch', o)
  <2>1. First(hub, o) => First(hub', o)
    BY Zenon, <1>2, <1>4, FirstStays
  <2>2. CASE Head(watch).obj = o /\ Head(watch).rv = 1
    BY Zenon, <1>2, <1>4, <2>1, <2>2, FirstAdded
  <2>3. CASE ~(Head(watch).obj = o /\ Head(watch).rv = 1)
    BY Zenon, <1>2, <2>1, <2>3, FirstStays
  <2>4. QED
    BY Zenon, <2>2, <2>3
<1>8. CASE Head(watch).obj # o
  <2>1. Fewer(hub', hub, o)
    BY Zenon, <1>2, <1>4, <1>8, FewerOther
  <2>2. QED
    BY Zenon, <1>1, <1>5, <1>7, <2>1, SameParts, DeliveringFrame
<1>9. CASE Head(watch).obj = o
  <2>1. AtLeast(watch, o, 1) /\ InOrder(watch, o) /\ Head(watch).rv <= obj[o].rv
    BY Zenon, <1>3, <1>9
       DEF Delivering, Line, AtEdge, AtSender, AtStore, AtDisp, AtHub, AtWatch
  <2>2. AtLeast(watch', o, m.rv)
    BY Zenon, <1>2, <1>4, <1>9, <2>1, HeadOldest
  <2>3. \A v \in Nat : AtWatch(o, v) => Brings(m, v)
    <3>1. \A v \in Nat : AtWatch(o, v) => Brings(Head(watch), v)
      BY Zenon, <1>3, <1>9 DEF AtWatch, AtLeast
    <3>2. QED
      BY Zenon, <1>4, <3>1 DEF Brings
  <2>4. Line(o)'
    BY Zenon, <1>1, <1>4, <1>5, <1>9, <2>1, <2>2, <2>3, LineHub DEF Delivering
  <2>5. Synced(o)'
    BY Zenon, <1>1, <1>7, SameParts, SyncedFrame DEF Delivering
  <2>6. QED
    BY Zenon, <1>6, <2>4, <2>5 DEF Delivering
<1>10. QED
  BY Zenon, <1>8, <1>9

\* The informer catches up.
LEMMA DeliveringInformer ==
  ASSUME IInv, NEW o \in Objects, Delivering(o), NEW p \in Objects, InformerSync(p)
  PROVE  Delivering(o)'
<1>1. UNCHANGED <<obj, watch, syncs, hub, disp, store, snd, sess, connected, down, edge,
                  persisted>>
  BY Zenon DEF InformerSync, apiVars, poolVars, netVars, edgeVars
<1>2. syncCache'[o] \in {syncCache[o], syncs[o]}
  BY Zenon DEF InformerSync, IInv, ApiInv
<1>3. QED
  BY Zenon, <1>1, <1>2, SameParts, DeliveringFrame

\* SyncController publishes what it finds missing.
LEMMA DeliveringResend ==
  ASSUME IInv, NEW o \in Objects, Delivering(o), Alive(o), o \notin outrun',
         NEW p \in Objects, ReconcileObjectSync(p)
  PROVE  Delivering(o)'
<1>1. UNCHANGED <<obj, watch, syncs, syncCache, disp, store, snd, sess, connected, down,
                  edge, persisted>>
  BY Zenon DEF ReconcileObjectSync, poolVars, netVars, edgeVars
<1>2. /\ watch \in Seq(Message) /\ hub \in Seq(Message)
      /\ \A q \in Objects : obj[q].rv \in Nat
  BY Zenon, LineTypes
<1>3. PICK m \in Message :
        /\ hub' = Append(hub, m) /\ m.obj = p
        /\ p = o => /\ m.op = "upsert" /\ m.rv = obj[o].rv
                    /\ m.dts => obj[o].phase = "terminating"
  <2> DEFINE d == Delete(p)
             u == Upsert(p, obj[p].rv, obj[p].phase = "terminating")
  <2>1. d \in Message /\ d.obj = p
    BY Zenon, DeleteType
  <2>2. u \in Message /\ u.op = "upsert" /\ u.obj = p /\ u.rv = obj[p].rv
    <3>1. obj[p].rv \in Nat /\ (obj[p].phase = "terminating") \in BOOLEAN
      BY Zenon, <1>2
    <3>2. \A v \in Nat, t \in BOOLEAN :
            /\ Upsert(p, v, t) \in Message /\ Upsert(p, v, t).op = "upsert"
            /\ Upsert(p, v, t).obj = p /\ Upsert(p, v, t).rv = v
      BY UpsertSays
    <3>3. QED
      BY Zenon, <3>1, <3>2
  <2>3. u.dts => obj[p].phase = "terminating"
    BY Zenon DEF Upsert
  <2>4. \E x \in {d, u} : hub' = Append(hub, Stamp(x)) /\ CanPublish(x) /\ (p = o => x = u)
    BY Zenon DEF ReconcileObjectSync, Publish, NeedsDelete
  <2> HIDE DEF d, u
  <2>5. PICK x \in {d, u} : hub' = Append(hub, Stamp(x)) /\ CanPublish(x) /\ (p = o => x = u)
    BY Zenon, <2>4
  <2>6. x \in Message /\ x.obj = p
    BY Zenon, <2>1, <2>2
  <2>7. /\ Stamp(x) \in Message /\ Stamp(x).op = x.op /\ Stamp(x).obj = x.obj
        /\ Stamp(x).rv = x.rv /\ Stamp(x).dts = x.dts
    BY Zenon, <2>5, <2>6, StampSays
  <2>8. QED
    BY Zenon, <2>2, <2>3, <2>5, <2>6, <2>7
<1>4. First(hub, o) => First(hub', o)
  BY Zenon, <1>2, <1>3, FirstStays
<1>5. CASE p # o
  <2>1. Fewer(hub', hub, o)
    BY Zenon, <1>2, <1>3, <1>5, FewerOther
  <2>2. QED
    BY Zenon, <1>1, <1>4, <2>1, SameParts, DeliveringFrame
<1>6. CASE p = o
  <2>1. /\ obj[o].rv >= 1 /\ AtLeast(watch, o, 1)
        /\ obj[o].phase = "terminating" => obj[o].rv >= 2
    BY Zenon DEF Delivering, Line, AtEdge, AtSender, AtStore, AtDisp, AtHub, AtWatch
  <2>2. \A v \in Nat : AtWatch(o, v) => Brings(m, v)
    BY <1>2, <1>3, <1>6, <2>1 DEF AtWatch, Brings
  <2>3. ~Overtakes(o)
    BY Zenon, <1>6 DEF ReconcileObjectSync
  <2>4. AtLeast(watch, o, m.rv)
    <3>1. ASSUME NEW i \in 1 .. Len(watch), watch[i].obj = o
          PROVE  Brings(watch[i], m.rv)
      <4>1. watch[i].rv \in Nat /\ Brings(watch[i], 1)
        BY Zenon, <1>2, <2>1, <3>1, ElementVersion DEF AtLeast
      <4>2. ~(watch[i].rv < obj[o].rv)
        BY Zenon, <2>3, <3>1 DEF Overtakes
      <4>3. QED
        BY <1>2, <1>3, <1>6, <4>1, <4>2 DEF Brings
    <3>2. QED
      BY Zenon, <3>1 DEF AtLeast
  <2>5. m.rv <= obj[o].rv
    BY <1>2, <1>3, <1>6
  <2>6. Line(o)'
    BY Zenon, <1>1, <1>3, <1>6, <2>2, <2>4, <2>5, SameParts, LineHub DEF Delivering
  <2>7. Kept(o)'
    BY Zenon, <1>1, KeptFrame DEF Delivering
  <2>8. Synced(o)'
    BY Zenon, <1>1, <1>4, SameParts, SyncedFrame DEF Delivering
  <2>9. QED
    BY Zenon, <2>6, <2>7, <2>8 DEF Delivering
<1>7. QED
  BY Zenon, <1>5, <1>6

\* Places that o's messages leave only.
LEMMA LineSame ==
  ASSUME NEW o \in Objects, Delivering(o),
         UNCHANGED <<obj, watch, hub, down, edge, persisted>>,
         LessDisp(o), LessStore(o), LessSender(o)
  PROVE  Line(o)' /\ Kept(o)'
<1>1. Kept(o)' /\ LessRow(o)
  BY Zenon, KeptFrame DEF Delivering
<1>2. QED
  BY Zenon, <1>1, SameParts, LineShrinks DEF Delivering

\* The first message about o that the dispatcher takes makes it create the
\* ObjectSync.
LEMMA FirstIsCreated ==
  ASSUME IInv, NEW o \in Objects, Line(o), Announced(o), ~Handling(o),
         hub # << >>, Head(hub).obj = o
  PROVE  Verdict(Head(hub)) = "create"
<1>1. /\ hub \in Seq(Message) /\ Head(hub) = hub[1] /\ 1 \in 1 .. Len(hub)
      /\ hub[1] \in Message /\ hub[1].rv \in Nat /\ Len(hub) \in Nat
  <2>1. hub \in Seq(Message)
    BY Zenon, LineTypes
  <2>2. Head(hub) = hub[1] /\ 1 \in 1 .. Len(hub) /\ Len(hub) \in Nat
    BY <2>1
  <2>3. QED
    BY Zenon, <2>1, <2>2, ElementVersion
<1>2. Brings(hub[1], 1)
  BY Zenon, <1>1 DEF Line, AtEdge, AtSender, AtStore, AtDisp, AtHub, AtLeast
<1>3. hub[1].rv <= 1
  <2>1. CASE First(hub, o)
    <3>1. PICK i \in 1 .. Len(hub) : hub[i].obj = o /\ hub[i].rv = 1
      BY Zenon, <2>1 DEF First
    <3>2. CASE i = 1
      BY <3>1, <3>2
    <3>3. CASE i # 1
      <4>1. 1 < i
        BY <1>1, <3>3
      <4>2. QED
        BY Zenon, <1>1, <3>1, <4>1 DEF Line, InOrder
    <3>4. QED
      BY Zenon, <3>2, <3>3
  <2>2. CASE First(watch, o)
    <3>1. AtWatch(o, hub[1].rv)
      BY Zenon, <1>1 DEF Line
    <3>2. QED
      BY Zenon, <2>2, <3>1 DEF AtWatch, AtLeast, Brings, First
  <2>3. QED
    BY Zenon, <2>1, <2>2 DEF Announced
<1>4. ~IsDelete(hub[1]) /\ hub[1].op = "upsert" /\ store[o] = NoMsg /\ syncCache[o] = Absent
  BY <1>1, <1>2, <1>3 DEF Brings, IsDelete, Announced, Unsent
<1>5. QED
  BY Zenon, <1>1, <1>4 DEF Verdict

LEMMA DeliveringDispatch ==
  ASSUME IInv, NEW o \in Objects, Delivering(o), Dispatch
  PROVE  Delivering(o)'
<1>1. UNCHANGED <<obj, watch, syncs, syncCache, store, snd, sess, connected, down, edge,
                  persisted>>
  BY Zenon DEF Dispatch, apiVars, poolVars, netVars, edgeVars
<1>2. hub \in Seq(Message) /\ hub # << >> /\ hub' = Tail(hub) /\ ~Handling(o)
  BY Zenon, LineTypes DEF Dispatch, Handling
<1>3. /\ disp'.pc # "idle" => disp'.msg = Head(hub)
      /\ Verdict(Head(hub)) = "create" => disp'.pc = "create" /\ disp'.msg = Head(hub)
  BY Zenon DEF Dispatch, IdleDisp
<1>4. CASE Head(hub).obj # o
  <2>1. SameDisp(o)
    BY Zenon, <1>2, <1>3, <1>4 DEF SameDisp, Handling
  <2>2. Fewer(hub', hub, o) /\ (First(hub, o) => First(hub', o))
    BY Zenon, <1>2, <1>4, FewerTail, FirstStays
  <2>3. QED
    BY Zenon, <1>1, <2>1, <2>2, SameParts, DeliveringFrame
<1>5. CASE Head(hub).obj = o
  <2>1. Line(o)'
    BY Zenon, <1>1, <1>2, <1>3, <1>5, LineDisp DEF Delivering, Handling
  <2>2. Kept(o)'
    BY Zenon, <1>1, KeptFrame DEF Delivering
  <2>3. CASE Announced(o)
    <3>1. disp'.pc = "create" /\ disp'.msg.obj = o
      BY Zenon, <1>2, <1>3, <1>5, <2>3, FirstIsCreated DEF Delivering
    <3>2. Unsent(o)'
      BY Zenon, <1>1, <2>3 DEF Announced, Unsent
    <3>3. Announced(o)'
      BY Zenon, <1>1, <2>3, <3>1, <3>2 DEF Announced, Handling
    <3>4. QED
      BY Zenon, <2>1, <2>2, <3>3 DEF Delivering, Synced
  <2>4. CASE Recorded(o)
    BY Zenon, <1>1, <2>1, <2>2, <2>4 DEF Recorded, Delivering, Synced
  <2>5. ~Created(o)
    BY Zenon, <1>2 DEF Created
  <2>6. QED
    BY Zenon, <2>3, <2>4, <2>5 DEF Delivering, Synced
<1>6. QED
  BY Zenon, <1>4, <1>5

\* The dispatcher creates the ObjectSync, then writes its status.
LEMMA DeliveringCreateSync ==
  ASSUME IInv, QInv, NEW o \in Objects, Delivering(o), DispatchCreate \/ DispatchStatus
  PROVE  Delivering(o)'
<1>1. UNCHANGED <<obj, watch, syncCache, hub, store, sess, connected, down, edge,
                  persisted>>
  BY Zenon DEF DispatchCreate, DispatchStatus, apiVars, poolVars, netVars, edgeVars
<1>2. LessSender(o) /\ (Unsent(o) => Unsent(o)')
  <2>1. sess \in Sessions
    BY Zenon, LineTypes
  <2>2. SendersKept
    BY Zenon, <2>1, KeptSteps
  <2>3. QED
    BY Zenon, <1>1, <2>2, KeptLess DEF Unsent
<1>3. /\ disp \in [pc: DispPc, msg: MaybeMsg, pool: Nat \X BOOLEAN, fresh: BOOLEAN]
      /\ syncs \in [Objects -> SyncVersions] /\ disp.pc \in {"create", "status"}
      /\ disp.msg.obj \in Objects
  <2>1. disp.pc \in {"create", "status"}
    BY Zenon DEF DispatchCreate, DispatchStatus
  <2>2. disp.msg \in Message
    BY Zenon, <2>1, LineTypes
  <2>3. disp.msg.obj \in Objects
    BY Zenon, <2>2 DEF Message
  <2>4. disp \in [pc: DispPc, msg: MaybeMsg, pool: Nat \X BOOLEAN, fresh: BOOLEAN]
    BY Zenon DEF IInv, DispInv
  <2>5. syncs \in [Objects -> SyncVersions]
    BY Zenon DEF IInv, ApiInv
  <2>6. QED
    BY Zenon, <2>1, <2>3, <2>4, <2>5
<1>4. disp'.pc = "idle" \/ disp'.msg = disp.msg
  <2>1. \/ disp' = IdleDisp
        \/ disp' = [disp EXCEPT !.pc = "status", !.fresh = TRUE]
        \/ disp' = [disp EXCEPT !.pc = "add", !.fresh = FALSE]
    BY Zenon DEF DispatchCreate, DispatchStatus
  <2>2. IdleDisp.pc = "idle"
    BY Zenon DEF IdleDisp
  <2>3. QED
    BY Zenon, <1>3, <2>1, <2>2
<1>5. LessDisp(o)
  BY Zenon, <1>3, <1>4 DEF LessDisp, Handling
<1>6. Line(o)' /\ Kept(o)'
  BY Zenon, <1>1, <1>2, <1>5, SameParts, LineSame
<1>7. CASE ~Handling(o)
  <2>1. disp.msg.obj # o
    BY Zenon, <1>3, <1>7 DEF Handling
  <2>2. SameDisp(o)
    BY Zenon, <1>4, <1>7, <2>1 DEF SameDisp, Handling
  <2>3. syncs'[o] = syncs[o]
    BY Zenon, <1>3, <2>1 DEF DispatchCreate, DispatchStatus
  <2>4. Synced(o)'
    BY Zenon, <1>1, <1>2, <2>2, <2>3, SameParts, SyncedFrame DEF Delivering
  <2>5. QED
    BY Zenon, <1>6, <2>4 DEF Delivering
<1>8. CASE Handling(o) /\ Announced(o)
  <2>1. disp.pc = "create" /\ disp.msg.obj = o /\ syncs[o] = Absent /\ Unsent(o)
    BY Zenon, <1>8 DEF Announced, Handling
  <2>2. syncs' = [syncs EXCEPT ![o] = Blank]
    BY Zenon, <2>1 DEF DispatchCreate, DispatchStatus
  <2>3. disp' = [disp EXCEPT !.pc = "status", !.fresh = TRUE]
    BY Zenon, <2>1 DEF DispatchCreate, DispatchStatus
  <2>4. disp'.pc = "status" /\ disp'.fresh /\ disp'.msg = disp.msg
    BY Zenon, <1>3, <2>3
  <2>5. syncs'[o] = Blank
    BY Zenon, <1>3, <2>2
  <2>6. Created(o)'
    BY Zenon, <1>2, <2>1, <2>4, <2>5 DEF Created, Handling
  <2>7. QED
    BY Zenon, <1>6, <2>6 DEF Delivering, Synced
<1>9. CASE Handling(o) /\ Created(o)
  <2>1. disp.pc = "status" /\ disp.msg.obj = o /\ disp.fresh
    BY Zenon, <1>9 DEF Created, Handling
  <2>2. syncs'[o] = 0
    BY Zenon, <1>3, <2>1 DEF DispatchCreate, DispatchStatus
  <2>3. Recorded(o)'
    BY <2>2 DEF Recorded
  <2>4. QED
    BY Zenon, <1>6, <2>3 DEF Delivering, Synced
<1>10. CASE Recorded(o)
  <2>1. syncs[o] # Absent
    BY <1>10 DEF Recorded, Absent
  <2>2. syncs'[o] = syncs[o] \/ syncs'[o] = 0
    BY Zenon, <1>3, <2>1 DEF DispatchCreate, DispatchStatus
  <2>3. Recorded(o)'
    BY <1>10, <2>2 DEF Recorded
  <2>4. QED
    BY Zenon, <1>6, <2>3 DEF Delivering, Synced
<1>11. QED
  BY Zenon, <1>7, <1>8, <1>9, <1>10 DEF Delivering, Synced

\* The dispatcher stores its message and queues its key.
LEMMA DeliveringStore ==
  ASSUME IInv, NEW o \in Objects, Delivering(o), DispatchAdd \/ DispatchEnqueue
  PROVE  Delivering(o)'
<1>1. UNCHANGED <<obj, watch, syncs, syncCache, hub, snd, sess, connected, down, edge,
                  persisted>>
  BY Zenon DEF DispatchAdd, DispatchEnqueue, apiVars, poolVars, netVars, edgeVars
<1>2. /\ disp \in [pc: DispPc, msg: MaybeMsg, pool: Nat \X BOOLEAN, fresh: BOOLEAN]
      /\ store \in [Objects -> MaybeMsg] /\ disp.pc \in {"add", "enqueue"}
      /\ disp.msg.obj \in Objects
  <2>1. disp.pc \in {"add", "enqueue"}
    BY Zenon DEF DispatchAdd, DispatchEnqueue
  <2>2. disp.msg \in Message
    BY Zenon, <2>1, LineTypes
  <2>3. disp.msg.obj \in Objects
    BY Zenon, <2>2 DEF Message
  <2>4. disp \in [pc: DispPc, msg: MaybeMsg, pool: Nat \X BOOLEAN, fresh: BOOLEAN]
    BY Zenon DEF IInv, DispInv
  <2>5. store \in [Objects -> MaybeMsg]
    BY Zenon DEF IInv, PoolInv
  <2>6. QED
    BY Zenon, <2>1, <2>3, <2>4, <2>5
<1>3. disp'.pc = "idle" \/ disp'.msg = disp.msg
  <2>1. disp' = IdleDisp \/ disp' = [disp EXCEPT !.pc = "enqueue"]
    BY Zenon DEF DispatchAdd, DispatchEnqueue
  <2>2. IdleDisp.pc = "idle"
    BY Zenon DEF IdleDisp
  <2>3. QED
    BY Zenon, <1>2, <2>1, <2>2
<1>4. store'[o] = store[o] \/ (Handling(o) /\ store'[o] = disp.msg /\ disp'.msg = disp.msg)
  BY Zenon, <1>2 DEF DispatchAdd, DispatchEnqueue, Handling
<1>5. LessDisp(o)
  BY Zenon, <1>2, <1>3 DEF LessDisp, Handling
<1>6. Line(o)' /\ Kept(o)'
  <2>1. CASE store'[o] = store[o]
    BY Zenon, <1>1, <1>5, <2>1, SameParts, LineSame DEF LessStore
  <2>2. CASE Handling(o) /\ store'[o] = disp.msg /\ disp'.msg = disp.msg
    BY Zenon, <1>1, <2>2, LineStore, KeptFrame DEF Delivering
  <2>3. QED
    BY Zenon, <1>4, <2>1, <2>2
<1>7. CASE ~Handling(o)
  <2>1. disp.msg.obj # o /\ store'[o] = store[o]
    BY Zenon, <1>2, <1>4, <1>7 DEF Handling
  <2>2. SameDisp(o)
    BY Zenon, <1>3, <1>7, <2>1 DEF SameDisp, Handling
  <2>3. Unsent(o) => Unsent(o)'
    BY Zenon, <1>1, <2>1 DEF Unsent
  <2>4. Synced(o)'
    BY Zenon, <1>1, <2>2, <2>3, SameParts, SyncedFrame DEF Delivering
  <2>5. QED
    BY Zenon, <1>6, <2>4 DEF Delivering
<1>8. CASE Handling(o)
  <2>1. Recorded(o)
    BY Zenon, <1>2, <1>8 DEF Delivering, Synced, Announced, Created
  <2>2. QED
    BY Zenon, <1>1, <1>6, <2>1 DEF Delivering, Synced, Recorded
<1>9. QED
  BY Zenon, <1>7, <1>8

\* Writing the ObjectSync of another object.
LEMMA SpoiledOther ==
  ASSUME IInv, NEW o \in Objects, NEW p \in Objects, p # o, disp' = SpoilDisp(disp, p)
  PROVE  SameDisp(o) /\ LessDisp(o)
<1>1. disp \in [pc: DispPc, msg: MaybeMsg, pool: Nat \X BOOLEAN, fresh: BOOLEAN]
  BY Zenon DEF IInv, DispInv
<1>2. CASE disp' = disp
  BY Zenon, <1>2 DEF SameDisp, LessDisp, Handling
<1>3. CASE disp.msg.obj = p /\ disp' = [disp EXCEPT !.fresh = FALSE]
  <2>1. disp'.msg = disp.msg
    BY Zenon, <1>1, <1>3
  <2>2. QED
    BY Zenon, <1>3, <2>1 DEF SameDisp, LessDisp, Handling
<1>4. QED
  BY Zenon, <1>2, <1>3 DEF SpoilDisp

\* Spoiling changes neither the message nor the place.
LEMMA SpoiledLess ==
  ASSUME IInv, NEW o \in Objects, NEW p \in Objects, disp' = SpoilDisp(disp, p)
  PROVE  LessDisp(o)
<1>1. disp \in [pc: DispPc, msg: MaybeMsg, pool: Nat \X BOOLEAN, fresh: BOOLEAN]
  BY Zenon DEF IInv, DispInv
<1>2. CASE disp' = disp
  BY Zenon, <1>2 DEF LessDisp, Handling
<1>3. CASE disp' = [disp EXCEPT !.fresh = FALSE]
  <2>1. disp'.msg = disp.msg /\ disp'.pc = disp.pc
    BY Zenon, <1>1, <1>3
  <2>2. QED
    BY Zenon, <2>1 DEF LessDisp, Handling
<1>4. QED
  BY Zenon, <1>2, <1>3 DEF SpoilDisp

\* A sender writes the ObjectSync of another object, or one that has a status.
LEMMA SenderWrites ==
  ASSUME IInv, NEW o \in Objects, Alive(o), Synced(o), NEW s \in Sessions,
         SaveDelete(s) \/ SaveCreate(s) \/ SaveUpdate(s), failures' = failures
  PROVE  /\ LessDisp(o)
         /\ \/ syncs'[o] = syncs[o] /\ SameDisp(o)
            \/ Recorded(o)'
<1> DEFINE p == snd[s].msg.obj
<1>1. /\ snd[s].pc \in Sent /\ snd[s].msg \in Genuine /\ p \in Objects
      /\ snd[s].msg.rv \in Nat
  <2>1. snd[s].pc \in Sent
    BY Zenon DEF SaveDelete, SaveCreate, SaveUpdate, Sent
  <2>2. snd[s].msg \in Genuine
    BY Zenon, <2>1 DEF IInv, SenderInv, SenderOK, Sent
  <2>3. QED
    BY Zenon, <2>1, <2>2 DEF Genuine, Message
<1>2. syncs \in [Objects -> SyncVersions]
  BY Zenon DEF IInv, ApiInv
<1>3. CASE UNCHANGED <<syncs, disp>>
  BY Zenon, <1>3 DEF LessDisp, SameDisp, Handling
<1>4. CASE \E v : syncs' = [syncs EXCEPT ![p] = v] /\ disp' = SpoilDisp(disp, p) /\ p # o
  BY Zenon, <1>1, <1>2, <1>4, SpoiledOther
<1>5. CASE p = o /\ ~UNCHANGED <<syncs, disp>>
  <2>1. ~Unsent(o)
    BY Zenon, <1>1, <1>5 DEF Unsent
  <2>2. Recorded(o)
    BY Zenon, <2>1 DEF Synced, Announced, Created
  <2>3. ~SaveDelete(s)
    BY Zenon, <1>1, <1>5 DEF SaveDelete, Genuine, Alive
  <2>4. syncs[o] # Absent
    BY <2>2 DEF Recorded, Absent
  <2>5. syncs' = [syncs EXCEPT ![o] = snd[s].msg.rv] /\ disp' = SpoilDisp(disp, o)
    BY Zenon, <1>5, <2>3, <2>4 DEF SaveCreate, SaveUpdate
  <2>6. syncs'[o] = snd[s].msg.rv
    BY Zenon, <1>2, <2>5
  <2>7. Recorded(o)'
    BY <1>1, <2>6 DEF Recorded
  <2>8. QED
    BY Zenon, <2>5, <2>7, SpoiledLess
<1>6. UNCHANGED <<syncs, disp>>
      \/ (\E v : syncs' = [syncs EXCEPT ![p] = v] /\ disp' = SpoilDisp(disp, p))
  BY Zenon DEF SaveDelete, SaveCreate, SaveUpdate
<1> HIDE DEF p
<1>7. QED
  BY Zenon, <1>3, <1>4, <1>5, <1>6

\* Every step of a sender but those that send.
LEMMA DeliveringSaves ==
  ASSUME IInv, QInv, NEW o \in Objects, Alive(o), Delivering(o), NEW s \in Sessions,
         failures' = failures,
         \/ SenderGet(s) \/ SenderTimeout(s) \/ ReceiveAck \/ SaveDelete(s)
         \/ SaveGet(s) \/ SaveDrop(s) \/ SaveCreate(s) \/ SaveUpdate(s) \/ ZombieExit(s)
  PROVE  Delivering(o)'
<1>1. UNCHANGED <<obj, watch, syncCache, hub, sess, connected, down, edge, persisted>>
  BY Zenon DEF SenderGet, SenderTimeout, ReceiveAck, SaveDelete, SaveGet, SaveDrop, SaveCreate,
     SaveUpdate, ZombieExit, apiVars, poolVars, netVars, edgeVars
<1>2. store' = store \/ (\E k : store' = [store EXCEPT ![k] = NoMsg])
  BY Zenon DEF SenderGet, SenderTimeout, ReceiveAck, SaveDelete, SaveGet, SaveDrop, SaveCreate,
     SaveUpdate, ZombieExit, poolVars
<1>3. LessStore(o) /\ (store[o] = NoMsg => store'[o] = NoMsg)
  <2>1. store \in [Objects -> MaybeMsg]
    BY Zenon DEF IInv, PoolInv
  <2>2. QED
    BY Zenon, <1>2, <2>1 DEF LessStore
<1>4. LessSender(o) /\ (Unsent(o) => Unsent(o)')
  <2>1. SendersKept
    BY Zenon, KeptSteps
  <2>2. QED
    BY Zenon, <1>1, <1>3, <2>1, KeptLess DEF Unsent
<1>5. /\ LessDisp(o)
      /\ \/ syncs'[o] = syncs[o] /\ SameDisp(o)
         \/ Recorded(o)'
  <2>1. CASE SaveDelete(s) \/ SaveCreate(s) \/ SaveUpdate(s)
    BY Zenon, <2>1, SenderWrites DEF Delivering
  <2>2. CASE ~(SaveDelete(s) \/ SaveCreate(s) \/ SaveUpdate(s))
    <3>1. UNCHANGED <<syncs, disp>>
      BY Zenon, <2>2 DEF SenderGet, SenderTimeout, ReceiveAck, SaveGet, SaveDrop, ZombieExit
    <3>2. QED
      BY Zenon, <3>1 DEF LessDisp, SameDisp, Handling
  <2>3. QED
    BY Zenon, <2>1, <2>2
<1>6. Line(o)' /\ Kept(o)'
  BY Zenon, <1>1, <1>3, <1>4, <1>5, LineSame
<1>7. Synced(o)'
  <2>1. CASE syncs'[o] = syncs[o] /\ SameDisp(o)
    BY Zenon, <1>1, <1>4, <2>1, SameParts, SyncedFrame DEF Delivering
  <2>2. CASE Recorded(o)'
    BY Zenon, <2>2 DEF Synced
  <2>3. QED
    BY Zenon, <1>5, <2>1, <2>2
<1>8. QED
  BY Zenon, <1>6, <1>7 DEF Delivering

\* Steps that touch nothing of the way from the cloud to the edge.
LEMMA DeliveringElsewhere ==
  ASSUME NEW o \in Objects, Delivering(o),
         UNCHANGED <<obj, watch, syncs, syncCache, hub, disp, store, snd, sess, connected,
                     down, edge, persisted>>
  PROVE  Delivering(o)'
<1>1. Fewer(watch', watch, o) /\ Fewer(hub', hub, o) /\ Fewer(down', down, o)
  BY Zenon, SameParts
<1>2. SameDisp(o) /\ LessStore(o) /\ LessSender(o) /\ (Unsent(o) => Unsent(o)')
  BY Zenon, SameParts
<1>3. (First(hub, o) => First(hub', o)) /\ (First(watch, o) => First(watch', o))
  BY Zenon, SameParts
<1>4. QED
  BY Zenon, <1>1, <1>2, <1>3, DeliveringFrame

LEMMA DeliveringSend ==
  ASSUME IInv, QInv, NEW o \in Objects, Delivering(o), NEW s \in Sessions, SenderSend(s)
  PROVE  Delivering(o)'
<1>1. UNCHANGED <<obj, watch, syncs, syncCache, hub, disp, store, sess, connected, edge,
                  persisted>>
  BY Zenon DEF SenderSend, apiVars, edgeVars
<1>2. /\ s = sess /\ connected /\ snd[s].pc = "got" /\ snd[s].key \in Objects
      /\ snd \in [Sessions -> SenderType] /\ SenderOK(snd[s]) /\ down \in Seq(Message)
  <2>1. s = sess /\ connected /\ snd[s].pc = "got"
    BY Zenon DEF SenderSend, Live
  <2>2. snd \in [Sessions -> SenderType] /\ SenderOK(snd[s])
    BY Zenon DEF IInv, SenderInv
  <2>3. QED
    BY Zenon, <2>1, <2>2, LineTypes DEF SenderOK
<1>3. PICK k \in Objects : k = snd[s].key
  BY Zenon, <1>2
<1>4. CASE store[k] = NoMsg
  <2>1. snd' = [snd EXCEPT ![s] = IdleSender] /\ down' = down
    BY Zenon, <1>3, <1>4 DEF SenderSend
  <2>2. \A t \in Sessions : SenderKept(snd[t], snd[t])
    BY Zenon, KeptSpoiled
  <2>3. SenderKept(IdleSender, snd[s])
    BY Zenon, KeptResting
  <2>4. SendersKept
    BY Zenon, <1>2, <2>1, <2>2, <2>3, KeptWrite
  <2>5. LessSender(o) /\ (Unsent(o) => Unsent(o)')
    BY Zenon, <1>1, <2>4, KeptLess DEF Unsent
  <2>6. QED
    BY Zenon, <1>1, <2>1, <2>5, SameParts, DeliveringFrame
<1>5. CASE store[k] # NoMsg
  <2>1. PICK m \in Message : m = store[k] /\ m.obj = k
    BY Zenon, <1>5, LineTypes
  <2>2. /\ down' = Append(down, m)
        /\ snd' = [snd EXCEPT ![s].pc = "wait", ![s].msg = m]
    BY Zenon, <1>3, <1>5, <2>1 DEF SenderSend
  <2>3. snd'[s].msg = m /\ \A t \in Sessions : t # s => snd'[t] = snd[t]
    BY Zenon, <1>2, <2>2 DEF SenderType
  <2>4. ~Sending(o)
    BY Zenon, <1>2 DEF Sending
  <2>5. CASE k = o
    <3>1. Line(o)'
      BY <1>1, <1>2, <1>5, <2>1, <2>2, <2>3, <2>4, <2>5, LineSend DEF Delivering
    <3>2. Kept(o)'
      BY Zenon, <1>1, KeptFrame DEF Delivering
    <3>3. Recorded(o)
      BY Zenon, <1>5, <2>5 DEF Delivering, Synced, Announced, Created, Unsent
    <3>4. QED
      BY Zenon, <1>1, <3>1, <3>2, <3>3 DEF Delivering, Synced, Recorded
  <2>6. CASE k # o
    <3>1. Fewer(down', down, o)
      BY Zenon, <1>2, <2>1, <2>2, <2>6, FewerOther
    <3>2. LessSender(o)
      BY Zenon, <1>1, <1>2, <2>1, <2>3, <2>6 DEF LessSender, Sending
    <3>3. Unsent(o) => Unsent(o)'
      BY Zenon, <1>1, <2>1, <2>3, <2>6 DEF Unsent
    <3>4. QED
      BY Zenon, <1>1, <3>1, <3>2, <3>3, SameParts, DeliveringFrame
  <2>7. QED
    BY Zenon, <2>5, <2>6
<1>6. QED
  BY Zenon, <1>4, <1>5

LEMMA DeliveringRetry ==
  ASSUME IInv, QInv, NEW o \in Objects, Delivering(o), NEW s \in Sessions, SenderResend(s)
  PROVE  Delivering(o)'
<1>1. UNCHANGED <<obj, watch, syncs, syncCache, hub, disp, store, sess, connected, edge,
                  persisted>>
  BY Zenon DEF SenderResend, apiVars, poolVars, edgeVars
<1>2. /\ s = sess /\ connected /\ snd[s].pc = "wait"
      /\ snd \in [Sessions -> SenderType] /\ down \in Seq(Message)
  <2>1. s = sess /\ connected /\ snd[s].pc = "wait"
    BY Zenon DEF SenderResend, Live
  <2>2. snd \in [Sessions -> SenderType]
    BY Zenon DEF IInv, SenderInv
  <2>3. QED
    BY Zenon, <2>1, <2>2, LineTypes
<1>3. PICK m \in Message : m = snd[s].msg
  BY Zenon, <1>2, LineTypes DEF Sent
<1>4. down' = Append(down, m) /\ snd' = [snd EXCEPT ![s].n = snd[s].n + 1]
  BY Zenon, <1>3 DEF SenderResend
<1>5. snd'[s].msg = m
  BY Zenon, <1>2, <1>3, <1>4 DEF SenderType
<1>6. LessSender(o) /\ (Unsent(o) => Unsent(o)')
  <2>1. SendersKept
    BY Zenon, KeptSteps
  <2>2. QED
    BY Zenon, <1>1, <2>1, KeptLess DEF Unsent
<1>7. CASE m.obj = o
  <2>1. Sending(o) /\ m = snd[sess].msg /\ m.rv \in Nat
    BY Zenon, <1>2, <1>3, <1>7 DEF Sending, Message
  <2>2. Sending(o)' => snd'[sess].msg = m
    BY Zenon, <1>2, <1>5
  <2>3. Line(o)'
    BY <1>1, <1>4, <1>7, <2>1, <2>2, LineSend DEF Delivering
  <2>4. Kept(o)'
    BY Zenon, <1>1, KeptFrame DEF Delivering
  <2>5. Synced(o)'
    BY Zenon, <1>1, <1>6, SameParts, SyncedFrame DEF Delivering
  <2>6. QED
    BY Zenon, <2>3, <2>4, <2>5 DEF Delivering
<1>8. CASE m.obj # o
  <2>1. Fewer(down', down, o)
    BY Zenon, <1>2, <1>4, <1>8, FewerOther
  <2>2. QED
    BY Zenon, <1>1, <1>6, <2>1, SameParts, DeliveringFrame
<1>9. QED
  BY Zenon, <1>7, <1>8

\* The connection breaks or comes back, and the pool starts empty.
LEMMA DeliveringSession ==
  ASSUME IInv, QInv, NEW o \in Objects, Delivering(o), Disconnect \/ Connect
  PROVE  Delivering(o)'
<1>1. UNCHANGED <<obj, watch, syncs, syncCache, hub, disp, edge, persisted>>
  BY Zenon DEF Disconnect, Connect, apiVars, edgeVars
<1>2. store'[o] = NoMsg
  BY Zenon DEF Disconnect, Connect, ClearPool
<1>3. Fewer(down', down, o)
  <2>1. CASE Disconnect
    <3>1. PICK k \in 0 .. Len(down) : down' = SubSeq(down, 1, k)
      BY Zenon, <2>1 DEF Disconnect, KeepDown
    <3>2. QED
      BY Zenon, <3>1, LineTypes, FewerPrefix
  <2>2. CASE Connect
    BY Zenon, <2>2, SameParts DEF Connect
  <2>3. QED
    BY Zenon, <2>1, <2>2
<1>4. LessSender(o) /\ (Unsent(o) => Unsent(o)')
  <2>1. sess \in Sessions
    BY Zenon, LineTypes
  <2>2. Disconnect \/ UNCHANGED snd
    BY Zenon DEF Connect
  <2>3. SendersKept
    BY Zenon, <2>1, <2>2, KeptSteps
  <2>4. QED
    BY Zenon, <1>2, <2>3, KeptLess
<1>5. LessStore(o)
  BY Zenon, <1>2 DEF LessStore
<1>6. QED
  BY Zenon, <1>1, <1>3, <1>4, <1>5, SameParts, DeliveringFrame

\* The edge acts on a message about another object.
LEMMA OtherRow ==
  ASSUME IInv, DistinctNames, NEW o \in Objects, NEW m \in Message, m.obj # o, Perform(m)
  PROVE  /\ edge'[NameOf[o]] = edge[NameOf[o]]
         /\ \A v \in Nat : <<o, v>> \in persisted' => <<o, v>> \in persisted
<1>1. m.obj \in Objects /\ NameOf[m.obj] # NameOf[o]
  BY Zenon DEF DistinctNames, Message
<1>2. edge' = edge \/ \E x : edge' = [edge EXCEPT ![NameOf[m.obj]] = x]
  BY Zenon DEF Perform, Applied
<1>3. edge'[NameOf[o]] = edge[NameOf[o]]
  <2>1. edge \in [Names -> [obj: Objects, rv: Nat] \cup {NoMsg}] /\ NameOf[o] \in Names
    BY Zenon, ReliableSyncAssumption DEF IInv, EdgeInv
  <2>2. QED
    BY Zenon, <1>1, <1>2, <2>1
<1>4. \A v \in Nat : <<o, v>> \in persisted' => <<o, v>> \in persisted
  BY Zenon DEF Perform
<1>5. QED
  BY Zenon, <1>3, <1>4

\* MetaManager processes a message, or an answer that was under way.
LEMMA DeliveringEdge ==
  ASSUME IInv, DistinctNames, NEW o \in Objects, Delivering(o), EdgeProcess \/ EdgeAnswered
  PROVE  Delivering(o)'
<1>1. UNCHANGED <<obj, watch, syncs, syncCache, hub, disp, store, snd, sess, connected>>
  BY Zenon DEF EdgeProcess, EdgeAnswered, apiVars, poolVars
<1>2. PICK i \in 1 .. Len(down) :
        /\ down' = Without(i)
        /\ Perform(down[i]) \/ UNCHANGED <<edge, persisted>>
        /\ down[i].op # "response" =>
             i \in Orders /\ (\A j \in Orders : i <= j) /\ Perform(down[i])
  BY Zenon DEF EdgeProcess, EdgeAnswered, Orders
<1>3. down \in Seq(Message) /\ down[i] \in Message /\ down[i].rv \in Nat
  BY Zenon, LineTypes, ElementVersion
<1>4. Fewer(down', down, o)
  BY Zenon, <1>2, <1>3, FewerWithout DEF Without
<1>5. CASE down[i].obj # o
  <2>1. /\ edge'[NameOf[o]] = edge[NameOf[o]]
        /\ \A v \in Nat : <<o, v>> \in persisted' => <<o, v>> \in persisted
    BY Zenon, <1>2, <1>3, <1>5, OtherRow
  <2>2. QED
    BY Zenon, <1>1, <1>4, <2>1, SameParts, DeliveringFrame
<1>6. CASE down[i].obj = o
  <2>1. PICK r \in Nat : r = down[i].rv
    BY Zenon, <1>3
  <2>2. Brings(down[i], 1)
    BY Zenon, <1>6 DEF Delivering, Line, AtEdge, AtLeast
  <2>3. down[i].op = "upsert"
    BY Zenon, <2>2 DEF Brings
  <2>4. /\ edge' = [edge EXCEPT ![NameOf[o]] = [obj |-> o, rv |-> r]]
        /\ persisted' = persisted \cup {<<o, r>>}
    BY Zenon, <1>2, <1>6, <2>1, <2>3 DEF Perform, Applied
  <2>5. edge'[NameOf[o]] = [obj |-> o, rv |-> r]
    <3>1. edge \in [Names -> [obj: Objects, rv: Nat] \cup {NoMsg}] /\ NameOf[o] \in Names
      BY Zenon, ReliableSyncAssumption DEF IInv, EdgeInv
    <3>2. QED
      BY Zenon, <2>4, <3>1
  <2>6. Line(o)' /\ Row(o)' /\ (Row(o) => edge[NameOf[o]].rv <= edge'[NameOf[o]].rv)
    BY Zenon, <1>1, <1>2, <1>6, <2>1, <2>3, <2>5, LineEdge DEF Delivering
  <2>7. Kept(o)'
    <3>1. edge'[NameOf[o]].rv = r
      BY <2>5
    <3>2. ASSUME NEW v \in Nat, <<o, v>> \in persisted'
          PROVE  v <= edge'[NameOf[o]].rv
      <4>1. CASE <<o, v>> \in persisted
        <5>1. Row(o) /\ v <= edge[NameOf[o]].rv
          BY Zenon, <4>1 DEF Delivering, Kept
        <5>2. edge[NameOf[o]].rv \in Nat
          BY Zenon, <5>1, LineTypes
        <5>3. QED
          BY <2>6, <3>1, <5>1, <5>2
      <4>2. CASE v = r
        BY <3>1, <4>2
      <4>3. QED
        BY Zenon, <2>4, <3>2, <4>1, <4>2
    <3>3. QED
      BY Zenon, <2>6, <3>2 DEF Kept
  <2>8. Synced(o)'
    BY Zenon, <1>1, SameParts, SyncedFrame DEF Delivering
  <2>9. QED
    BY Zenon, <2>6, <2>7, <2>8 DEF Delivering
<1>7. QED
  BY Zenon, <1>5, <1>6

-----------------------------------------------------------------------------
(* Delivery: every step                                                     *)

\* The steps that disturb count up, and nothing counts down.
LEMMA Undisturbing ==
  ASSUME IInv, Next, Undisturbed'
  PROVE  /\ Undisturbed /\ UNCHANGED <<failures, crashes, queries>>
         /\ ~DispatchFails /\ ~EdgeFails /\ ~Crash
         /\ \A s \in Sessions : ~SaveFails(s)
         /\ \A n \in Names : ~EdgeQuery(n)
<1>1. failures \in Nat /\ crashes \in Nat /\ queries \in Nat
  BY Zenon DEF IInv, EdgeInv
<1>2. failures' = 0 /\ crashes' = 0 /\ queries' = 0
  BY Zenon DEF Undisturbed
<1>3. /\ ~DispatchFails /\ ~EdgeFails /\ ~Crash
      /\ \A s \in Sessions : ~SaveFails(s)
      /\ \A n \in Names : ~EdgeQuery(n)
  BY <1>1, <1>2 DEF DispatchFails, EdgeFails, Crash, SaveFails, EdgeQuery
<1>4. UNCHANGED <<failures, crashes, queries>>
  <2>1. CASE Environment
    BY Zenon, <1>1, <1>2, <1>3, <2>1 DEF Environment, CreateObject, UpdateObject, RemoveObject,
       Disconnect, ZombieExit, QueryTimeout, edgeVars
  <2>2. CASE \/ EdgeControllerSync \/ DispatcherStep
             \/ \E o \in Objects : InformerSync(o) \/ ReconcileObjectSync(o) \/ Ripen(o)
    BY Zenon, <2>2 DEF EdgeControllerSync, InformerSync, ReconcileObjectSync, Ripen, DispatcherStep,
       Dispatch, DispatchCreate, DispatchStatus, DispatchAdd, DispatchEnqueue, edgeVars
  <2>3. CASE \E s \in Sessions : SenderStep(s)
    <3>1. PICK s \in Sessions : SenderStep(s)
      BY Zenon, <2>3
    <3>2. CASE SaveDelete(s)
      <4>1. failures' = failures \/ failures' = failures + 1
        BY Zenon, <3>2 DEF SaveDelete
      <4>2. QED
        BY <1>1, <1>2, <3>2, <4>1 DEF SaveDelete, edgeVars
    <3>3. CASE ~SaveDelete(s)
      BY Zenon, <3>1, <3>3 DEF SenderStep, SenderGet, SenderSend, SenderResend, SenderTimeout,
         SaveGet, SaveDrop, SaveCreate, SaveUpdate, edgeVars
    <3>4. QED
      BY Zenon, <3>2, <3>3
  <2>4. CASE \/ ReceiveAck \/ Connect \/ EdgeProcess \/ ReceiveQuery
             \/ (\E m \in answers : PublishAnswer(m)) \/ EdgeAnswered
    BY Zenon, <2>4 DEF ReceiveAck, Connect, EdgeProcess, ReceiveQuery, PublishAnswer, EdgeAnswered,
       edgeVars
  <2>5. QED
    BY Zenon, <2>1, <2>2, <2>3, <2>4 DEF Next
<1>5. QED
  BY Zenon, <1>2, <1>3, <1>4 DEF Undisturbed

\* Sequences without queries stay so.
LEMMA NoQueries ==
  ASSUME NEW S, NEW q \in Seq(S), \A i \in 1 .. Len(q) : q[i].op # "query"
  PROVE  /\ q # << >> => \A i \in 1 .. Len(Tail(q)) : Tail(q)[i].op # "query"
         /\ \A m : m.op # "query" =>
              \A i \in 1 .. Len(Append(q, m)) : Append(q, m)[i].op # "query"
         /\ \A j \in 1 .. Len(q) + 1 : \A i \in 1 .. Len(SubSeq(q, j, Len(q))) :
              SubSeq(q, j, Len(q))[i].op # "query"
<1>1. ASSUME q # << >>, NEW i \in 1 .. Len(Tail(q)) PROVE Tail(q)[i].op # "query"
  <2>1. Tail(q)[i] = q[i + 1] /\ i + 1 \in 1 .. Len(q)
    BY <1>1
  <2>2. QED
    BY Zenon, <2>1
<1>2. ASSUME NEW m, m.op # "query", NEW i \in 1 .. Len(Append(q, m))
      PROVE  Append(q, m)[i].op # "query"
  <2>1. Len(q) \in Nat /\ (i \in 1 .. Len(q) \/ i = Len(q) + 1)
    BY <1>2
  <2>2. CASE i \in 1 .. Len(q)
    <3>1. Append(q, m)[i] = q[i]
      BY <2>2
    <3>2. QED
      BY Zenon, <2>2, <3>1
  <2>3. CASE i = Len(q) + 1
    <3>1. Append(q, m)[i] = m
      BY <2>1, <2>3
    <3>2. QED
      BY Zenon, <1>2, <3>1
  <2>4. QED
    BY Zenon, <2>1, <2>2, <2>3
<1>3. ASSUME NEW j \in 1 .. Len(q) + 1, NEW i \in 1 .. Len(SubSeq(q, j, Len(q)))
      PROVE  SubSeq(q, j, Len(q))[i].op # "query"
  <2>1. SubSeq(q, j, Len(q))[i] = q[j + i - 1] /\ j + i - 1 \in 1 .. Len(q)
    OBVIOUS
  <2>2. QED
    BY Zenon, <2>1
<1>4. QED
  BY Zenon, <1>1, <1>2, <1>3

LEMMA UnaskedStep ==
  ASSUME IInv, Next, Unasked, Undisturbed'
  PROVE  Unasked'
<1>1. /\ ~DispatchFails /\ ~EdgeFails /\ ~Crash
      /\ \A s \in Sessions : ~SaveFails(s)
      /\ \A n \in Names : ~EdgeQuery(n)
  BY Zenon, Undisturbing
<1>2. PICK S : up \in Seq(S)
  BY Zenon DEF IInv, NetInv
<1>3. answers = {} /\ \A i \in 1 .. Len(up) : up[i].op # "query"
  BY Zenon DEF Unasked
<1>4. /\ up # << >> => \A i \in 1 .. Len(Tail(up)) : Tail(up)[i].op # "query"
      /\ \A m : m.op # "query" =>
           \A i \in 1 .. Len(Append(up, m)) : Append(up, m)[i].op # "query"
      /\ \A j \in 1 .. Len(up) + 1 : \A i \in 1 .. Len(SubSeq(up, j, Len(up))) :
           SubSeq(up, j, Len(up))[i].op # "query"
  BY Zenon, <1>2, <1>3, NoQueries
<1>5. ~ReceiveQuery
  <2>1. up # << >> => Head(up) = up[1] /\ 1 \in 1 .. Len(up)
    BY <1>2
  <2>2. QED
    BY Zenon, <1>3, <2>1 DEF ReceiveQuery
<1>6. CASE UNCHANGED <<up, answers>>
  BY Zenon, <1>3, <1>6 DEF Unasked
<1>7. CASE Environment
  <2>1. CASE Disconnect
    BY Zenon, <1>3, <1>4, <2>1 DEF Disconnect, KeepUp, edgeVars, Unasked
  <2>2. CASE ~Disconnect
    BY Zenon, <1>1, <1>6, <1>7, <2>2 DEF Environment, CreateObject, UpdateObject, RemoveObject,
       ZombieExit, QueryTimeout, netVars, edgeVars
  <2>3. QED
    BY Zenon, <2>1, <2>2
<1>8. CASE \/ EdgeControllerSync \/ DispatcherStep
           \/ \E o \in Objects : InformerSync(o) \/ ReconcileObjectSync(o) \/ Ripen(o)
  BY Zenon, <1>6, <1>8 DEF EdgeControllerSync, InformerSync, ReconcileObjectSync, Ripen,
     DispatcherStep, Dispatch, DispatchCreate, DispatchStatus, DispatchAdd, DispatchEnqueue,
     netVars, edgeVars
<1>9. CASE \E s \in Sessions : SenderStep(s)
  BY Zenon, <1>6, <1>9 DEF SenderStep, SenderGet, SenderSend, SenderResend, SenderTimeout,
     SaveDelete, SaveGet, SaveDrop, SaveCreate, SaveUpdate, netVars, edgeVars
<1>10. CASE ReceiveAck
  BY Zenon, <1>3, <1>4, <1>10 DEF ReceiveAck, edgeVars, Unasked
<1>11. CASE Connect
  BY Zenon, <1>3, <1>4, <1>11 DEF Connect, KeepUp, edgeVars, Unasked
<1>12. CASE EdgeProcess \/ EdgeAnswered
  <2>1. PICK i \in 1 .. Len(down) : Perform(down[i]) \/ UNCHANGED up
    BY Zenon, <1>12 DEF EdgeProcess, EdgeAnswered, Orders
  <2>2. down[i].op # "query"
    <3>1. down \in Seq(Genuine)
      BY Zenon DEF IInv, NetInv
    <3>2. down[i] \in Genuine
      BY <3>1
    <3>3. QED
      BY Zenon, <3>2 DEF Genuine, Message
  <2>3. UNCHANGED answers
    BY Zenon, <1>12 DEF EdgeProcess, EdgeAnswered
  <2>4. QED
    BY Zenon, <1>3, <1>4, <2>1, <2>2, <2>3 DEF Perform, Unasked
<1>13. ~\E m \in answers : PublishAnswer(m)
  BY Zenon, <1>3
<1>14. QED
  BY Zenon, <1>5, <1>7, <1>8, <1>9, <1>10, <1>11, <1>12, <1>13 DEF Next

LEMMA UnknownStep ==
  ASSUME IInv, DistinctNames, Next, NEW o \in Objects,
         obj[o].phase = "none" => Unknown(o), obj'[o].phase = "none"
  PROVE  Unknown(o)'
<1>1. obj[o].phase = "none"
  <2>1. obj \in [Objects -> [rv: Nat, phase: Phases]]
    BY Zenon DEF IInv, ApiInv
  <2>2. CASE UNCHANGED obj
    BY Zenon, <2>2
  <2>3. CASE \E p \in Objects : \/ CreateObject(p) \/ UpdateObject(p, "live")
                                \/ UpdateObject(p, "terminating") \/ RemoveObject(p)
    <3>1. PICK p \in Objects : \/ CreateObject(p) \/ UpdateObject(p, "live")
                               \/ UpdateObject(p, "terminating") \/ RemoveObject(p)
      BY Zenon, <2>3
    <3>2. p # o => obj'[o] = obj[o]
      BY Zenon, <2>1, <3>1 DEF CreateObject, UpdateObject, RemoveObject
    <3>3. CASE p = o
      <4>1. CASE CreateObject(o)
        BY Zenon, <4>1 DEF CreateObject
      <4>2. CASE UpdateObject(o, "live") \/ UpdateObject(o, "terminating")
        <5>1. obj'[o].phase \in {"live", "terminating"}
          BY <2>1, <4>2 DEF UpdateObject
        <5>2. QED
          BY Zenon, <5>1
      <4>3. CASE RemoveObject(o)
        <5>1. obj'[o].phase = "gone"
          BY Zenon, <2>1, <4>3 DEF RemoveObject
        <5>2. QED
          BY Zenon, <5>1
      <4>4. QED
        BY Zenon, <3>1, <3>3, <4>1, <4>2, <4>3
    <3>4. QED
      BY Zenon, <3>2, <3>3
  <2>4. (\E p \in Objects : \/ CreateObject(p) \/ UpdateObject(p, "live")
                            \/ UpdateObject(p, "terminating") \/ RemoveObject(p))
          \/ UNCHANGED obj
    BY Zenon DEF Next, Environment, Disconnect, Crash, DispatchFails, EdgeFails, SaveFails,
       ZombieExit, EdgeQuery, QueryTimeout, EdgeControllerSync, InformerSync,
       ReconcileObjectSync, Ripen, DispatcherStep, Dispatch, DispatchCreate,
       DispatchStatus, DispatchAdd, DispatchEnqueue, SenderStep, SenderGet, SenderSend,
       SenderResend, SenderTimeout, SaveDelete, SaveGet, SaveDrop, SaveCreate, SaveUpdate,
       ReceiveAck, Connect, EdgeProcess, ReceiveQuery, PublishAnswer, EdgeAnswered, apiVars
  <2>5. QED
    BY Zenon, <2>2, <2>3, <2>4
<1>2. ~Row(o) /\ \A v \in Nat : <<o, v>> \notin persisted
  BY Zenon, <1>1 DEF Unknown
<1>3. CASE EdgeProcess \/ EdgeAnswered
  <2>1. PICK i \in 1 .. Len(down) : Perform(down[i]) \/ UNCHANGED <<edge, persisted>>
    BY Zenon, <1>3 DEF EdgeProcess, EdgeAnswered, Orders
  <2>2. down[i] \in Message /\ down[i].obj # o
    <3>1. down \in Seq(Genuine)
      BY Zenon DEF IInv, NetInv
    <3>2. down[i] \in Genuine
      BY <3>1
    <3>3. QED
      BY Zenon, <1>1, <3>2 DEF Genuine
  <2>3. /\ edge'[NameOf[o]] = edge[NameOf[o]]
        /\ \A v \in Nat : <<o, v>> \in persisted' => <<o, v>> \in persisted
    BY Zenon, <2>1, <2>2, OtherRow
  <2>4. QED
    BY Zenon, <1>2, <2>3 DEF Unknown, Row
<1>4. CASE UNCHANGED <<edge, persisted>>
  BY Zenon, <1>2, <1>4 DEF Unknown, Row
<1>5. EdgeProcess \/ EdgeAnswered \/ UNCHANGED <<edge, persisted>>
  BY ZenonT(30)
     DEF Next, Environment, CreateObject, UpdateObject, RemoveObject, Disconnect, Crash,
     DispatchFails, EdgeFails, SaveFails,
     ZombieExit, EdgeQuery, QueryTimeout, EdgeControllerSync, InformerSync,
     ReconcileObjectSync, Ripen, DispatcherStep, Dispatch, DispatchCreate,
     DispatchStatus, DispatchAdd, DispatchEnqueue, SenderStep, SenderGet, SenderSend,
     SenderResend, SenderTimeout, SaveDelete, SaveGet, SaveDrop, SaveCreate, SaveUpdate,
     ReceiveAck, Connect, ReceiveQuery, PublishAnswer, edgeVars
<1>6. QED
  BY Zenon, <1>3, <1>4, <1>5

\* The objects whose events were outrun stay so.
LEMMA OutrunGrows ==
  ASSUME Next
  PROVE  outrun \subseteq outrun'
<1>1. CASE \E o \in Objects : ReconcileObjectSync(o)
  BY Zenon, <1>1 DEF ReconcileObjectSync
<1>2. CASE ~\E o \in Objects : ReconcileObjectSync(o)
  BY Zenon, <1>2 DEF Next, Environment, CreateObject, UpdateObject, RemoveObject, Disconnect, Crash,
     DispatchFails, EdgeFails, SaveFails, ZombieExit, EdgeQuery, QueryTimeout,
     EdgeControllerSync, InformerSync, Ripen, DispatcherStep, Dispatch, DispatchCreate,
     DispatchStatus, DispatchAdd, DispatchEnqueue, SenderStep, SenderGet, SenderSend,
     SenderResend, SenderTimeout, SaveDelete, SaveGet, SaveDrop, SaveCreate, SaveUpdate,
     ReceiveAck, Connect, EdgeProcess, ReceiveQuery, PublishAnswer, EdgeAnswered, apiVars
<1>3. QED
  BY Zenon, <1>1, <1>2

LEMMA DeliveringStep ==
  ASSUME IInv, QInv, DistinctNames, Next, Unasked, Undisturbed', NEW o \in Objects,
         obj[o].phase = "none" => Unknown(o),
         Alive(o) /\ o \notin outrun => Delivering(o),
         Alive(o)', o \notin outrun'
  PROVE  Delivering(o)'
<1>1. /\ ~DispatchFails /\ ~EdgeFails /\ ~Crash /\ failures' = failures
      /\ \A s \in Sessions : ~SaveFails(s)
      /\ \A n \in Names : ~EdgeQuery(n)
  BY Zenon, Undisturbing
<1>2. o \notin outrun
  BY Zenon, OutrunGrows
<1>3. CASE CreateObject(o)
  <2>1. Unknown(o)
    BY Zenon, <1>3 DEF CreateObject
  <2>2. QED
    BY Zenon, <1>3, <2>1, DeliveringCreate
<1>4. CASE ~CreateObject(o) /\ ~Alive(o)
  <2>1. obj \in [Objects -> [rv: Nat, phase: Phases]]
    BY Zenon DEF IInv, ApiInv
  <2>2. ASSUME NEW p \in Objects,
               \/ CreateObject(p) \/ UpdateObject(p, "live")
               \/ UpdateObject(p, "terminating") \/ RemoveObject(p)
        PROVE  obj'[o] = obj[o]
    <3>1. p # o
      BY Zenon, <1>4, <2>2 DEF UpdateObject, RemoveObject
    <3>2. QED
      BY Zenon, <2>1, <2>2, <3>1 DEF CreateObject, UpdateObject, RemoveObject
  <2>3. UNCHANGED obj \/ (\E p \in Objects : \/ CreateObject(p) \/ UpdateObject(p, "live")
                                             \/ UpdateObject(p, "terminating")
                                             \/ RemoveObject(p))
    BY Zenon, <1>1 DEF Next, Environment, Disconnect, ZombieExit, QueryTimeout, EdgeControllerSync,
       InformerSync, ReconcileObjectSync, Ripen, DispatcherStep, Dispatch, DispatchCreate,
       DispatchStatus, DispatchAdd, DispatchEnqueue, SenderStep, SenderGet, SenderSend,
       SenderResend, SenderTimeout, SaveDelete, SaveGet, SaveDrop, SaveCreate, SaveUpdate,
       ReceiveAck, Connect, EdgeProcess, ReceiveQuery, PublishAnswer, EdgeAnswered, apiVars
  <2>4. obj'[o] = obj[o]
    BY Zenon, <2>2, <2>3
  <2>5. QED
    BY Zenon, <1>4, <2>4 DEF Alive
<1>5. CASE Alive(o)
  <2>1. Delivering(o)
    BY Zenon, <1>2, <1>5
  <2>2. CASE Environment
    <3>1. CASE \E p \in Objects : \/ CreateObject(p) \/ UpdateObject(p, "live")
                                  \/ UpdateObject(p, "terminating") \/ RemoveObject(p)
      <4>1. PICK p \in Objects : \/ CreateObject(p) \/ UpdateObject(p, "live")
                                 \/ UpdateObject(p, "terminating") \/ RemoveObject(p)
        BY Zenon, <3>1
      <4>2. CASE p # o
        BY Zenon, <2>1, <4>1, <4>2, DeliveringOther
      <4>3. CASE p = o
        <5>1. ~CreateObject(o)
          BY Zenon, <1>5 DEF CreateObject, Alive
        <5>2. ~RemoveObject(o)
          <6>1. ASSUME RemoveObject(o) PROVE obj'[o].phase = "gone"
            BY Zenon, <6>1 DEF RemoveObject, IInv, ApiInv
          <6>2. QED
            BY Zenon, <6>1 DEF Alive
        <5>3. QED
          BY Zenon, <2>1, <4>1, <4>3, <5>1, <5>2, DeliveringUpdate
      <4>4. QED
        BY Zenon, <4>2, <4>3
    <3>2. CASE Disconnect
      BY Zenon, <2>1, <3>2, DeliveringSession
    <3>3. CASE \E s \in Sessions : ZombieExit(s)
      BY Zenon, <1>1, <1>5, <2>1, <3>3, DeliveringSaves
    <3>4. CASE \E q \in waiting : QueryTimeout(q)
      BY Zenon, <2>1, <3>4, DeliveringElsewhere DEF QueryTimeout, apiVars, poolVars, netVars
    <3>5. QED
      BY Zenon, <1>1, <2>2, <3>1, <3>2, <3>3, <3>4 DEF Environment
  <2>3. CASE EdgeControllerSync
    BY Zenon, <2>1, <2>3, DeliveringEvent
  <2>4. CASE \E p \in Objects : InformerSync(p) \/ ReconcileObjectSync(p)
    BY Zenon, <1>5, <2>1, <2>4, DeliveringInformer, DeliveringResend
  <2>5. CASE \E p \in Objects : Ripen(p)
    BY Zenon, <2>1, <2>5, DeliveringElsewhere DEF Ripen, apiVars, netVars, edgeVars
  <2>6. CASE DispatcherStep
    BY Zenon, <2>1, <2>6, DeliveringDispatch, DeliveringCreateSync, DeliveringStore
       DEF DispatcherStep
  <2>7. CASE \E s \in Sessions : SenderStep(s)
    BY Zenon, <1>1, <1>5, <2>1, <2>7, DeliveringSaves, DeliveringSend, DeliveringRetry
       DEF SenderStep
  <2>8. CASE ReceiveAck
    <3>1. sess \in Sessions
      BY Zenon, LineTypes
    <3>2. QED
      BY Zenon, <1>1, <1>5, <2>1, <2>8, <3>1, DeliveringSaves
  <2>9. CASE Connect
    BY Zenon, <2>1, <2>9, DeliveringSession
  <2>10. CASE EdgeProcess \/ EdgeAnswered
    BY Zenon, <2>1, <2>10, DeliveringEdge
  <2>11. ~\E m \in answers : PublishAnswer(m)
    BY Zenon DEF Unasked
  <2>12. CASE ReceiveQuery
    <3>1. up \in Seq(Confirmed \cup Query)
      BY Zenon DEF IInv, NetInv
    <3>2. up # << >> => Head(up) = up[1] /\ 1 \in 1 .. Len(up)
      BY <3>1
    <3>3. QED
      BY Zenon, <2>12, <3>2 DEF ReceiveQuery, Unasked
  <2>13. QED
    BY Zenon, <2>2, <2>3, <2>4, <2>5, <2>6, <2>7, <2>8, <2>9, <2>10, <2>11, <2>12 DEF Next
<1>6. QED
  BY Zenon, <1>3, <1>4, <1>5

LEMMA DeliveryStep == DistinctNames /\ IInv /\ QInv /\ DInv /\ [Next]_vars => DInv'
<1> SUFFICES ASSUME DistinctNames, IInv, QInv, DInv, [Next]_vars, Undisturbed'
             PROVE  /\ Unasked'
                    /\ \A o \in Objects :
                         /\ obj'[o].phase = "none" => Unknown(o)'
                         /\ Alive(o)' /\ o \notin outrun' => Delivering(o)'
  BY Zenon DEF DInv
<1>1. CASE UNCHANGED vars
  <2>1. Undisturbed
    BY Zenon, <1>1 DEF vars, Undisturbed
  <2>2. /\ Unasked
        /\ \A o \in Objects : /\ obj[o].phase = "none" => Unknown(o)
                              /\ Alive(o) /\ o \notin outrun => Delivering(o)
    BY Zenon, <2>1 DEF DInv
  <2>3. Unasked'
    BY Zenon, <1>1, <2>2 DEF Unasked, vars
  <2>4. ASSUME NEW o \in Objects, obj'[o].phase = "none" PROVE Unknown(o)'
    BY Zenon, <1>1, <2>2, <2>4 DEF Unknown, Row, vars
  <2>5. ASSUME NEW o \in Objects, Alive(o)', o \notin outrun' PROVE Delivering(o)'
    <3>1. Delivering(o)
      BY Zenon, <1>1, <2>2, <2>5 DEF Alive, vars
    <3>2. QED
      BY Zenon, <1>1, <3>1, DeliveringElsewhere DEF vars
  <2>6. QED
    BY Zenon, <2>3, <2>4, <2>5
<1>2. CASE Next
  <2>1. Undisturbed
    BY Zenon, <1>2, Undisturbing
  <2>2. /\ Unasked
        /\ \A o \in Objects : /\ obj[o].phase = "none" => Unknown(o)
                              /\ Alive(o) /\ o \notin outrun => Delivering(o)
    BY Zenon, <2>1 DEF DInv
  <2>3. Unasked'
    BY Zenon, <1>2, <2>2, UnaskedStep
  <2>4. ASSUME NEW o \in Objects, obj'[o].phase = "none" PROVE Unknown(o)'
    BY Zenon, <1>2, <2>2, <2>4, UnknownStep
  <2>5. ASSUME NEW o \in Objects, Alive(o)', o \notin outrun' PROVE Delivering(o)'
    BY Zenon, <1>2, <2>2, <2>5, DeliveringStep
  <2>6. QED
    BY Zenon, <2>3, <2>4, <2>5
<1>3. QED
  BY Zenon, <1>1, <1>2

LEMMA DeliveryInit == Init => DInv
<1> SUFFICES ASSUME Init PROVE DInv
  BY Zenon
<1>1. Unasked
  BY DEF Init, Unasked
<1>2. ASSUME NEW o \in Objects PROVE Unknown(o) /\ ~Alive(o)
  <2>1. ~Row(o)
    BY Zenon, ReliableSyncAssumption DEF Init, Row
  <2>2. \A v \in Nat : <<o, v>> \notin persisted
    BY Zenon DEF Init
  <2>3. obj[o].phase = "none"
    BY Zenon DEF Init
  <2>4. QED
    BY Zenon, <2>1, <2>2, <2>3 DEF Unknown, Alive
<1>3. QED
  BY Zenon, <1>1, <1>2 DEF DInv

\* When different objects have different names: as long as no API call fails,
\* cloudcore does not restart and the edge asks for nothing itself, however often
\* the connection breaks, once nothing is left to do the edge has the current
\* version of every object whose events SyncController did not overtake.
THEOREM QuietIsDelivered == ASSUME DistinctNames PROVE Spec => []QuietDelivered
<1>1. ASSUME IInv, DInv PROVE QuietDelivered
  <2> SUFFICES ASSUME Quiet, Undisturbed, NEW o \in Objects, Alive(o), o \notin outrun
               PROVE  edge[NameOf[o]] = [obj |-> o, rv |-> obj[o].rv]
    BY Zenon DEF QuietDelivered, Undisturbed
  <2>1. Line(o) /\ Kept(o) /\ Synced(o)
    BY Zenon, <1>1 DEF DInv, Delivering
  <2>2. Recorded(o)
    BY <2>1 DEF Synced, Announced, Created, Handling, First, Quiet
  <2>3. obj[o].rv \in Nat /\ obj[o].rv >= 1
    BY Zenon, <1>1, <2>1, LineTypes
       DEF Line, AtEdge, AtSender, AtStore, AtDisp, AtHub, AtWatch
  <2>4. PICK v : v = syncs[o]
    BY Zenon
  <2>5. v \in Nat /\ obj[o].rv <= v
    <3>1. syncs \in [Objects -> SyncVersions]
      BY Zenon, <1>1 DEF IInv, ApiInv
    <3>2. v \in Nat
      BY <2>2, <2>4, <3>1 DEF Recorded, SyncVersions, Absent, Blank
    <3>3. QED
      BY <2>2, <2>3, <2>4, <3>2 DEF Quiet, NeedsUpdate, Recorded
  <2>6. <<o, v>> \in persisted
    BY <1>1, <2>3, <2>4, <2>5 DEF IInv, ApiInv
  <2>7. Row(o) /\ v <= edge[NameOf[o]].rv
    BY Zenon, <2>1, <2>5, <2>6 DEF Kept
  <2>8. edge[NameOf[o]] \in [obj: Objects, rv: Nat] /\ edge[NameOf[o]].obj = o
    BY Zenon, <1>1, <2>7, ReliableSyncAssumption DEF IInv, EdgeInv, Row
  <2>9. edge[NameOf[o]].rv <= obj[o].rv
    BY Zenon, <2>1, <2>7, <2>8
       DEF Line, AtEdge, AtSender, AtStore, AtDisp, AtHub, AtWatch
  <2>10. edge[NameOf[o]].rv = obj[o].rv
    BY <2>3, <2>5, <2>7, <2>8, <2>9
  <2>11. QED
    BY Zenon, <2>8, <2>10
<1>2. QED
  BY <1>1, DeliveryInit, DeliveryStep, Invariance, QueueInvariance, PTL DEF Spec
=============================================================================
