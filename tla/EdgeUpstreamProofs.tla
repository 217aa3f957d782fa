-------------------------- MODULE EdgeUpstreamProofs --------------------------
(***************************************************************************)
(* What an edge node writes through the cloud, for any number of workers,  *)
(* requests, retries and late answers: a status is written to the pod that *)
(* had it, a renewal that was answered is not undone, and workers take     *)
(* back nothing they do not know of.                                       *)
(*                                                                         *)
(* The argument is about copies.  A message, a job and the caches hold     *)
(* copies of objects with the resource version they had.  Versions are     *)
(* never given twice, so a copy whose version is that of the object agrees *)
(* with it (Current, GoodJob); a write that the API server accepts is thus *)
(* based on what is there.  Statuses carry the uid of their pod, and how   *)
(* far a pod has run only grows (GoodMsgs).                                *)
(***************************************************************************)
EXTENDS EdgeUpstream, TLAPS

Kinds == PodKinds \cup NodeKinds \cup LeaseKinds
Uids == 1..MaxUids
PodRec == [uid : Uids, rv : Nat, st : Nat, terminating : BOOLEAN]
LeaseRec == [rv : Nat, renew : Nat]
NodeRec == [rv : Nat, foreign : Nat]
BodyRec == [uid : Nat, st : Nat, rv : Nat, renew : Nat]
MsgRec == [id : Nat, try : Nat, kind : Kinds, body : BodyRec]
JobRec == [at : {"first", "second", "delete"}, msg : MsgRec, got : PodRec \cup NodeRec \cup {None}]

\* Counters and the histories.
Scalars ==
    /\ rv \in Nat /\ foreign \in Nat /\ requests \in Nat /\ ackedLease \in Nat
    /\ uids \in 0..MaxUids
    /\ ran \in [Uids -> Nat]

\* The objects carry versions that were given; the pod and its copy on the
\* node have a status the pod had.
ObjectsOK ==
    /\ pod # None => pod \in PodRec /\ pod.rv <= rv /\ pod.st <= ran[pod.uid]
    /\ lease # None => lease \in LeaseRec /\ lease.rv <= rv /\ lease.rv > 0
    /\ node # None => node \in NodeRec /\ node.rv <= rv /\ node.foreign <= foreign
    /\ local # None => local \in [uid : Uids, st : Nat] /\ local.st <= ran[local.uid]
    /\ AckedLeaseStays

\* A copy of the lease agrees with it when it has its version.
Current(l) ==
    /\ l \in LeaseRec /\ l.rv <= rv
    /\ lease # None /\ lease.rv = l.rv => lease.renew = l.renew

LeasesOK ==
    /\ known # None => Current(known)
    /\ leaseLister # None => Current(leaseLister)

\* A status is one the pod with that uid had; an update of the lease that
\* carries the version stored renews it.
GoodMsgs ==
    {m \in MsgRec :
       /\ m.kind \in {"podStatus", "podPatch"} =>
            m.body.uid \in Uids /\ m.body.st <= ran[m.body.uid]
       /\ m.kind = "leaseUpdate" =>
            /\ m.body.rv <= rv
            /\ lease # None /\ lease.rv = m.body.rv => lease.renew <= m.body.renew}

QueuesOK ==
    /\ up \in Seq(GoodMsgs)
    /\ chan \in [Chans -> Seq(GoodMsgs)]
    /\ client \in [Clients -> GoodMsgs \cup {None}]

\* What a worker has read agrees with the object that has its version.
GoodJob(j) ==
    /\ j \in JobRec /\ j.msg \in GoodMsgs
    /\ j.at = "second" /\ j.msg.kind = "podStatus" =>
         /\ j.got \in PodRec /\ j.got.rv <= rv /\ j.got.uid = j.msg.body.uid
         /\ pod # None /\ pod.rv = j.got.rv => pod.uid = j.got.uid
    /\ j.at = "second" /\ j.msg.kind \in {"nodeUpdate", "nodeStatus"} =>
         /\ j.got \in NodeRec /\ j.got.rv <= rv
         /\ node # None /\ node.rv = j.got.rv => node.foreign = j.got.foreign

JobsOK == \A j \in jobs : GoodJob(j)

\* Answers with a lease carry a copy of it; a renewal that succeeded is there.
GoodAnswer(a) ==
    a.kind # "delete" =>
      /\ a.kind \in Kinds
      /\ a.kind \in LeaseKinds /\ ~a.err => Current(a.object)
      /\ a.kind = "leaseUpdate" /\ ~a.err => lease # None /\ a.object.renew <= lease.renew

DownOK == \A a \in down : GoodAnswer(a)

\* The inductive invariant.
IInv == Scalars /\ ObjectsOK /\ LeasesOK /\ QueuesOK /\ JobsOK /\ DownOK

\* Constants: None is not a lease.
Constants == MaxUids \in Nat /\ None \notin LeaseRec

-----------------------------------------------------------------------------
(* What may become of the objects in a step, and what stays good then.     *)

Moves ==
    /\ rv' \in Nat /\ rv <= rv'
    /\ ran' \in [Uids -> Nat] /\ \A u \in Uids : ran[u] <= ran'[u]
    /\ \/ lease' = lease
       \/ /\ lease' # None /\ lease'.rv = rv + 1 /\ rv' = rv + 1
          /\ lease # None => lease.renew <= lease'.renew
          /\ lease'.renew \in Nat
    /\ pod' = pod \/ pod' = None \/ (pod'.rv = rv + 1 /\ rv' = rv + 1)
    /\ node' = node \/ node' = None \/ (node'.rv = rv + 1 /\ rv' = rv + 1)

LEMMA GoodMsgsStay == ASSUME IInv, Moves PROVE GoodMsgs \subseteq GoodMsgs'
<1> SUFFICES ASSUME NEW m \in GoodMsgs PROVE m \in GoodMsgs'
  BY Zenon
<1>1. m \in MsgRec /\ m.body \in BodyRec
  BY Zenon DEF GoodMsgs, MsgRec
<1>2. m.kind \in {"podStatus", "podPatch"} => m.body.uid \in Uids /\ m.body.st <= ran'[m.body.uid]
  BY <1>1 DEF GoodMsgs, Moves, IInv, Scalars, BodyRec
<1>3. m.kind = "leaseUpdate" =>
        /\ m.body.rv <= rv'
        /\ lease' # None /\ lease'.rv = m.body.rv => lease'.renew <= m.body.renew
  BY <1>1 DEF GoodMsgs, Moves, IInv, Scalars, BodyRec
<1> QED BY Zenon, <1>1, <1>2, <1>3 DEF GoodMsgs

LEMMA CurrentStays == ASSUME IInv, Moves, NEW l, Current(l) PROVE Current(l)'
  BY DEF Current, Moves, IInv, Scalars, LeaseRec

LEMMA GoodJobStays == ASSUME IInv, Moves, NEW j, GoodJob(j) PROVE GoodJob(j)'
<1>1. j \in JobRec /\ j.msg \in GoodMsgs'
  BY Zenon, GoodMsgsStay DEF GoodJob
<1>2. ASSUME j.at = "second", j.msg.kind = "podStatus"
      PROVE  /\ j.got \in PodRec /\ j.got.rv <= rv' /\ j.got.uid = j.msg.body.uid
             /\ pod' # None /\ pod'.rv = j.got.rv => pod'.uid = j.got.uid
  BY <1>2 DEF GoodJob, Moves, IInv, Scalars, PodRec
<1>3. ASSUME j.at = "second", j.msg.kind \in {"nodeUpdate", "nodeStatus"}
      PROVE  /\ j.got \in NodeRec /\ j.got.rv <= rv'
             /\ node' # None /\ node'.rv = j.got.rv => node'.foreign = j.got.foreign
  BY <1>3 DEF GoodJob, Moves, IInv, Scalars, NodeRec
<1> QED BY Zenon, <1>1, <1>2, <1>3 DEF GoodJob

LEMMA GoodAnswerStays == ASSUME IInv, Moves, NEW a, GoodAnswer(a) PROVE GoodAnswer(a)'
<1>1. ASSUME a.kind \in LeaseKinds, ~a.err, Current(a.object) PROVE Current(a.object)'
  BY Zenon, <1>1, CurrentStays
<1>2. ASSUME lease # None, Current(a.object), a.object.renew <= lease.renew
      PROVE  lease' # None /\ a.object.renew <= lease'.renew
  BY <1>2 DEF Moves, IInv, Scalars, ObjectsOK, Current, LeaseRec
<1>3. "leaseUpdate" \in LeaseKinds
  BY Zenon DEF LeaseKinds
<1> QED BY Zenon, <1>1, <1>2, <1>3 DEF GoodAnswer

-----------------------------------------------------------------------------
(* The parts of the invariant that copies are in, after a step.            *)

LEMMA SeqWiden ==
  ASSUME NEW S, NEW T, S \subseteq T, NEW q \in Seq(S)
  PROVE  q \in Seq(T)
  OBVIOUS

LEMMA SeqEnds ==
  ASSUME NEW S, NEW q \in Seq(S), q # <<>>
  PROVE  Head(q) \in S /\ Tail(q) \in Seq(S)
  OBVIOUS

LEMMA SeqAppend ==
  ASSUME NEW S, NEW q \in Seq(S), NEW x \in S
  PROVE  Append(q, x) \in Seq(S)
  OBVIOUS

LEMMA QueuesFrame ==
  ASSUME IInv, Moves, up' \in Seq(GoodMsgs), chan' \in [Chans -> Seq(GoodMsgs)],
         client' \in [Clients -> GoodMsgs \cup {None}]
  PROVE  QueuesOK'
<1>1. GoodMsgs \subseteq GoodMsgs'
  BY Zenon, GoodMsgsStay
<1>2. up' \in Seq(GoodMsgs') /\ \A k \in Chans : chan'[k] \in Seq(GoodMsgs')
  BY Zenon, <1>1, SeqWiden
<1>3. client' \in [Clients -> GoodMsgs' \cup {None}]
  BY Zenon, <1>1
<1> QED BY Zenon, <1>2, <1>3 DEF QueuesOK

LEMMA QueuesSame == ASSUME IInv, Moves, UNCHANGED <<up, chan, client>> PROVE QueuesOK'
  BY Zenon, QueuesFrame DEF IInv, QueuesOK

LEMMA JobsFrame == ASSUME IInv, Moves, \A j \in jobs' : GoodJob(j) PROVE JobsOK'
  BY Zenon, GoodJobStays DEF JobsOK

LEMMA JobsSame == ASSUME IInv, Moves, jobs' \subseteq jobs PROVE JobsOK'
  BY Zenon, JobsFrame DEF IInv, JobsOK

LEMMA DownFrame ==
  ASSUME IInv, Moves, \A a \in down' : a \in down \/ GoodAnswer(a)'
  PROVE  DownOK'
  BY Zenon, GoodAnswerStays DEF IInv, DownOK

LEMMA LeasesSame == ASSUME IInv, Moves, UNCHANGED <<known, leaseLister>> PROVE LeasesOK'
  BY Zenon, CurrentStays DEF IInv, LeasesOK

\* A step that leaves the API server and what ran alone.
LEMMA StillMoves == ASSUME IInv, UNCHANGED <<api, ran>> PROVE Moves
  BY DEF Moves, api, IInv, Scalars

\* The objects when nothing of them changes.
LEMMA ObjectsSame ==
  ASSUME IInv, UNCHANGED <<api, ran, foreign, uids, local, ackedLease>>, requests' \in Nat
  PROVE  Scalars' /\ ObjectsOK'
  BY Zenon DEF IInv, Scalars, ObjectsOK, AckedLeaseStays, api

LEMMA DownSame == ASSUME IInv, Moves, down' \subseteq down PROVE DownOK'
  BY Zenon, DownFrame

-----------------------------------------------------------------------------
(* The clients.                                                            *)

\* A client sends a request with a good message.
LEMMA CallKeeps ==
  ASSUME IInv, NEW kind \in Kinds, NEW body,
         [id |-> requests + 1, try |-> 1, kind |-> kind, body |-> body] \in GoodMsgs,
         SendSync(kind, body) \/ SendUpdate(kind, body),
         UNCHANGED <<api, leaseLister, uids, foreign, chan, jobs, down, edge>>
  PROVE  IInv'
<1> DEFINE m == [id |-> requests + 1, try |-> 1, kind |-> kind, body |-> body]
<1>1. Moves
  BY Zenon, StillMoves DEF edge
<1>2. Scalars' /\ ObjectsOK'
  <2>1. requests' \in Nat
    BY DEF SendSync, SendUpdate, Request, IInv, Scalars
  <2> QED BY Zenon, <2>1, ObjectsSame DEF edge
<1>3. LeasesOK' /\ JobsOK' /\ DownOK'
  BY Zenon, <1>1, LeasesSame, JobsSame, DownSame DEF edge
<1>4. QueuesOK'
  <2>1. up' = Append(up, m)
    BY Zenon DEF SendSync, SendUpdate, Request
  <2>2. client' = client \/ client' = [client EXCEPT ![ClientOf(kind)] = m]
    BY Zenon DEF SendSync, SendUpdate
  <2>3. m \in GoodMsgs
    BY Zenon
  <2> HIDE DEF m
  <2>4. up' \in Seq(GoodMsgs)
    BY Zenon, <2>1, <2>3, SeqAppend DEF IInv, QueuesOK
  <2>5. client' \in [Clients -> GoodMsgs \cup {None}]
    BY Zenon, <2>2, <2>3 DEF IInv, QueuesOK
  <2>6. chan' \in [Chans -> Seq(GoodMsgs)]
    BY Zenon DEF IInv, QueuesOK
  <2> QED BY Zenon, <1>1, <2>4, <2>5, <2>6, QueuesFrame
<1> QED BY Zenon, <1>2, <1>3, <1>4 DEF IInv

\* The bodies of requests, written out.
LEMMA Bodies ==
  ASSUME NEW a \in Nat, NEW b \in Nat
  PROVE  /\ [NoBody EXCEPT !.uid = a, !.st = b] = [uid |-> a, st |-> b, rv |-> 0, renew |-> 0]
         /\ [NoBody EXCEPT !.rv = a, !.renew = b] = [uid |-> 0, st |-> 0, rv |-> a, renew |-> b]
<1>1. [NoBody EXCEPT !.uid = a] = [uid |-> a, st |-> 0, rv |-> 0, renew |-> 0]
  BY DEF NoBody
<1>2. [[uid |-> a, st |-> 0, rv |-> 0, renew |-> 0] EXCEPT !.st = b]
        = [uid |-> a, st |-> b, rv |-> 0, renew |-> 0]
  OBVIOUS
<1>3. [NoBody EXCEPT !.uid = a, !.st = b] = [[NoBody EXCEPT !.uid = a] EXCEPT !.st = b]
  BY Zenon
<1>4. [NoBody EXCEPT !.rv = a] = [uid |-> 0, st |-> 0, rv |-> a, renew |-> 0]
  BY DEF NoBody
<1>5. [[uid |-> 0, st |-> 0, rv |-> a, renew |-> 0] EXCEPT !.renew = b]
        = [uid |-> 0, st |-> 0, rv |-> a, renew |-> b]
  OBVIOUS
<1>6. [NoBody EXCEPT !.rv = a, !.renew = b] = [[NoBody EXCEPT !.rv = a] EXCEPT !.renew = b]
  BY Zenon
<1> QED BY Zenon, <1>1, <1>2, <1>3, <1>4, <1>5, <1>6

\* The calls about a pod carry a status it had.
LEMMA PodCallKeeps ==
  ASSUME IInv, pods_Patch \/ podStatus_Update \/ pods_Delete \/ pods_Create
  PROVE  IInv'
<1>1. ASSUME local # None, NEW kind \in {"podPatch", "podStatus", "podDelete"}
      PROVE  [id |-> requests + 1, try |-> 1, kind |-> kind, body |-> PodBody] \in GoodMsgs
  <2>1. local.uid \in Uids /\ local.uid \in Nat /\ local.st \in Nat /\ local.st <= ran[local.uid]
    BY <1>1 DEF IInv, ObjectsOK, Uids
  <2>2. PodBody = [uid |-> local.uid, st |-> local.st, rv |-> 0, renew |-> 0]
    BY Zenon, <2>1, Bodies DEF PodBody
  <2>3. requests + 1 \in Nat /\ kind \in Kinds /\ kind # "leaseUpdate"
    BY DEF IInv, Scalars, Kinds, PodKinds
  <2> QED BY Zenon, <2>1, <2>2, <2>3 DEF GoodMsgs, MsgRec, BodyRec
<1>2. [id |-> requests + 1, try |-> 1, kind |-> "podCreate", body |-> NoBody] \in GoodMsgs
  BY DEF GoodMsgs, MsgRec, BodyRec, NoBody, IInv, Scalars, Kinds, PodKinds
<1>3. {"podPatch", "podStatus", "podDelete", "podCreate"} \subseteq Kinds
  BY Zenon DEF Kinds, PodKinds
<1>4. CASE pods_Patch
  BY Zenon, <1>1, <1>3, <1>4, CallKeeps DEF pods_Patch
<1>5. CASE podStatus_Update
  BY Zenon, <1>1, <1>3, <1>5, CallKeeps DEF podStatus_Update
<1>6. CASE pods_Delete
  BY Zenon, <1>1, <1>3, <1>6, CallKeeps DEF pods_Delete
<1>7. CASE pods_Create
  BY Zenon, <1>2, <1>3, <1>7, CallKeeps DEF pods_Create
<1> QED BY Zenon, <1>4, <1>5, <1>6, <1>7

\* A renewal is made from a copy of the lease.
LEMMA LeaseCallKeeps == ASSUME IInv, leases_Call PROVE IInv'
<1>1. {"leaseQuery", "leaseCreate", "leaseUpdate"} \subseteq Kinds
  BY Zenon DEF Kinds, LeaseKinds
<1>2. [id |-> requests + 1, try |-> 1, kind |-> "leaseQuery", body |-> NoBody] \in GoodMsgs
  BY <1>1 DEF GoodMsgs, MsgRec, BodyRec, NoBody, IInv, Scalars
<1>3. [id |-> requests + 1, try |-> 1, kind |-> "leaseCreate", body |-> [NoBody EXCEPT !.renew = 1]]
        \in GoodMsgs
  BY <1>1 DEF GoodMsgs, MsgRec, BodyRec, NoBody, IInv, Scalars
<1>4. ASSUME known # None
      PROVE  [id |-> requests + 1, try |-> 1, kind |-> "leaseUpdate",
              body |-> [NoBody EXCEPT !.rv = known.rv, !.renew = known.renew + 1]] \in GoodMsgs
  <2>1. Current(known)
    BY Zenon, <1>4 DEF IInv, LeasesOK
  <2>2. /\ known.rv \in Nat /\ known.renew \in Nat /\ known.rv <= rv
        /\ lease # None /\ lease.rv = known.rv => lease.renew <= known.renew + 1
    BY <2>1 DEF Current, LeaseRec
  <2>3. PICK v \in Nat, b \in Nat : v = known.rv /\ b = known.renew + 1
    BY <2>2
  <2>4. [NoBody EXCEPT !.rv = v, !.renew = b] = [uid |-> 0, st |-> 0, rv |-> v, renew |-> b]
    BY Zenon, Bodies
  <2>5. v <= rv /\ (lease # None /\ lease.rv = v => lease.renew <= b)
    BY Zenon, <2>2, <2>3
  <2>6. "leaseUpdate" \in Kinds /\ requests + 1 \in Nat
    BY <1>1 DEF IInv, Scalars
  <2>7. [id |-> requests + 1, try |-> 1, kind |-> "leaseUpdate",
         body |-> [uid |-> 0, st |-> 0, rv |-> v, renew |-> b]] \in GoodMsgs
    BY Zenon, <2>5, <2>6 DEF GoodMsgs, MsgRec, BodyRec
  <2> QED BY Zenon, <2>3, <2>4, <2>7
<1>5. CASE known = None /\ SendSync("leaseQuery", NoBody)
  BY Zenon, <1>1, <1>2, <1>5, CallKeeps DEF leases_Call
<1>6. CASE known = NoLease /\ SendSync("leaseCreate", [NoBody EXCEPT !.renew = 1])
  BY Zenon, <1>1, <1>3, <1>6, CallKeeps DEF leases_Call
<1>7. CASE /\ known \notin {None, NoLease}
           /\ SendSync("leaseUpdate", [NoBody EXCEPT !.rv = known.rv, !.renew = known.renew + 1])
  BY Zenon, <1>1, <1>4, <1>7, CallKeeps DEF leases_Call
<1> QED BY Zenon, <1>5, <1>6, <1>7 DEF leases_Call

LEMMA NodeCallKeeps == ASSUME IInv, nodes_Call PROVE IInv'
<1>1. NodeKinds \subseteq Kinds /\ NodeKinds = {"nodeCreate", "nodePatch", "nodeUpdate", "nodeStatus"}
  BY Zenon DEF Kinds, NodeKinds
<1>2. ASSUME NEW kind \in NodeKinds
      PROVE  [id |-> requests + 1, try |-> 1, kind |-> kind, body |-> NoBody] \in GoodMsgs
  BY <1>1 DEF GoodMsgs, MsgRec, BodyRec, NoBody, IInv, Scalars
<1>3. PICK kind \in NodeKinds : SendSync(kind, NoBody) \/ SendUpdate(kind, NoBody)
  BY Zenon, <1>1 DEF nodes_Call
<1> QED BY Zenon, <1>1, <1>2, <1>3, CallKeeps DEF nodes_Call

\* A message that is sent again is the same but for the number of the try.
LEMMA AgainGood == ASSUME NEW m \in GoodMsgs PROVE [m EXCEPT !.try = @ + 1] \in GoodMsgs
<1>1. m \in MsgRec
  BY Zenon DEF GoodMsgs
<1>2. [m EXCEPT !.try = @ + 1] = [id |-> m.id, try |-> m.try + 1, kind |-> m.kind, body |-> m.body]
  BY <1>1 DEF MsgRec
<1>3. [id |-> m.id, try |-> m.try + 1, kind |-> m.kind, body |-> m.body] \in MsgRec
  BY <1>1 DEF MsgRec
<1> QED BY Zenon, <1>2, <1>3 DEF GoodMsgs

LEMMA LateKeeps == ASSUME IInv, NEW c \in Clients, Late(c) PROVE IInv'
<1>1. UNCHANGED <<api, ran, uids, foreign, local, ackedLease, leaseLister, chan, jobs, down, requests>>
  BY Zenon DEF Late
<1>2. Moves
  BY Zenon, <1>1, StillMoves
<1>3. Scalars' /\ ObjectsOK'
  <2>1. requests' \in Nat
    BY Zenon, <1>1 DEF IInv, Scalars
  <2> QED BY Zenon, <1>1, <2>1, ObjectsSame
<1>4. JobsOK' /\ DownOK'
  BY Zenon, <1>1, <1>2, JobsSame, DownSame
<1>5. LeasesOK'
  <2>1. known' = None \/ known' = known
    BY Zenon DEF Late
  <2> QED BY Zenon, <1>1, <1>2, <2>1, CurrentStays DEF IInv, LeasesOK
<1>6. QueuesOK'
  <2> DEFINE again == [client[c] EXCEPT !.try = @ + 1]
  <2>1. client[c] \in GoodMsgs
    BY Zenon DEF Late, Waiting, IInv, QueuesOK
  <2>2. again \in GoodMsgs
    BY Zenon, <2>1, AgainGood
  <2>3. \/ client' = [client EXCEPT ![c] = again] /\ up' = Append(up, again)
        \/ client' = [client EXCEPT ![c] = None] /\ up' = up
    BY Zenon DEF Late
  <2> HIDE DEF again
  <2>4. up' \in Seq(GoodMsgs)
    <3>1. up \in Seq(GoodMsgs)
      BY Zenon DEF IInv, QueuesOK
    <3>2. Append(up, again) \in Seq(GoodMsgs)
      BY Zenon, <2>2, <3>1, SeqAppend
    <3> QED BY Zenon, <2>3, <3>1, <3>2
  <2>5. client' \in [Clients -> GoodMsgs \cup {None}] /\ chan' \in [Chans -> Seq(GoodMsgs)]
    BY Zenon, <1>1, <2>2, <2>3 DEF IInv, QueuesOK
  <2> QED BY Zenon, <1>2, <2>4, <2>5, QueuesFrame
<1> QED BY Zenon, <1>3, <1>4, <1>5, <1>6 DEF IInv

\* A client takes the lease of an answer; the renewal it is told of is there.
LEMMA AnsweredKeeps == ASSUME IInv, NEW a \in down, Answered(a) PROVE IInv'
<1>1. UNCHANGED <<api, ran, uids, foreign, local, leaseLister, chan, jobs, up, requests>>
  BY Zenon DEF Answered
<1>2. Moves
  BY Zenon, <1>1, StillMoves
<1>3. JobsOK' /\ DownOK'
  <2>1. down' \subseteq down
    BY Zenon DEF Answered
  <2> QED BY Zenon, <1>1, <1>2, <2>1, JobsSame, DownSame
<1>4. QueuesOK'
  <2>1. client' \in [Clients -> GoodMsgs \cup {None}]
    BY Zenon DEF Answered, IInv, QueuesOK
  <2> QED BY Zenon, <1>1, <1>2, <2>1, QueuesFrame DEF IInv, QueuesOK
<1>5. /\ known' \in {known, None} \/ Current(known')
      /\ \/ ackedLease' = ackedLease
         \/ lease # None /\ ackedLease' = a.object.renew /\ Current(a.object)
            /\ a.object.renew <= lease.renew
  <2>1. CASE UNCHANGED <<known, ackedLease>>
    BY Zenon, <2>1
  <2>2. CASE handleLeaseResp(a) /\ ClientOf(a.kind) = "lease"
    <3>1. GoodAnswer(a) /\ a.kind # "delete" /\ a.kind \in Kinds
      BY Zenon DEF Answered, IInv, DownOK, GoodAnswer
    <3>2. a.kind \in LeaseKinds
      BY Zenon, <2>2, <3>1 DEF ClientOf, Kinds
    <3>3. CASE a.err
      BY Zenon, <2>2, <3>3 DEF handleLeaseResp
    <3>4. CASE ~a.err
      BY Zenon, <2>2, <3>1, <3>2, <3>4 DEF handleLeaseResp, GoodAnswer
    <3> QED BY Zenon, <3>3, <3>4
  <2> QED BY Zenon, <2>1, <2>2 DEF Answered, handlePodResp
<1>6. LeasesOK'
  <2>1. known' # None => Current(known')
    BY Zenon, <1>5 DEF IInv, LeasesOK
  <2>2. leaseLister' # None => Current(leaseLister)
    BY Zenon, <1>1 DEF IInv, LeasesOK
  <2>3. UNCHANGED <<rv, lease, leaseLister>>
    BY Zenon, <1>1 DEF api
  <2> QED BY Zenon, <2>1, <2>2, <2>3 DEF LeasesOK, Current
<1>7. Scalars' /\ ObjectsOK'
  BY Zenon, <1>1, <1>5 DEF IInv, Scalars, ObjectsOK, AckedLeaseStays, Current, LeaseRec, api
<1> QED BY Zenon, <1>3, <1>4, <1>6, <1>7 DEF IInv

\* The pod of the node goes, comes or runs on.
LEMMA PodOnNodeKeeps == ASSUME IInv, Deleted \/ Pushed \/ Runs PROVE IInv'
<1>1. /\ UNCHANGED <<api, uids, foreign, ackedLease, leaseLister, known, up, chan, client, jobs,
                     requests>>
      /\ down' \subseteq down
  BY Zenon DEF Deleted, Pushed, Runs, sent
<1>2. \/ local' = None /\ ran' = ran
      \/ pod # None /\ local' = [uid |-> pod.uid, st |-> ran[pod.uid]] /\ ran' = ran
      \/ /\ local # None
         /\ local' = [local EXCEPT !.st = @ + 1]
         /\ ran' = [ran EXCEPT ![local.uid] = @ + 1]
  BY Zenon DEF Deleted, Pushed, Runs
<1>3. ran' \in [Uids -> Nat] /\ \A u \in Uids : ran[u] <= ran'[u]
  BY <1>2 DEF IInv, Scalars, ObjectsOK
<1>4. Moves
  BY <1>1, <1>3 DEF Moves, api, IInv, Scalars
<1>5. Scalars'
  BY Zenon, <1>1, <1>3 DEF IInv, Scalars, api
<1>6. ObjectsOK'
  <2>1. local' # None => local' \in [uid : Uids, st : Nat] /\ local'.st <= ran'[local'.uid]
    <3>1. CASE pod # None /\ local' = [uid |-> pod.uid, st |-> ran[pod.uid]] /\ ran' = ran
      BY <3>1 DEF IInv, Scalars, ObjectsOK, PodRec
    <3>2. CASE /\ local # None
               /\ local' = [local EXCEPT !.st = @ + 1]
               /\ ran' = [ran EXCEPT ![local.uid] = @ + 1]
      <4>1. local' = [uid |-> local.uid, st |-> local.st + 1]
        BY Zenon, <3>2 DEF IInv, ObjectsOK
      <4> QED BY <3>2, <4>1 DEF IInv, Scalars, ObjectsOK
    <3> QED BY Zenon, <1>2, <3>1, <3>2
  <2>2. pod' # None => pod' \in PodRec /\ pod'.rv <= rv' /\ pod'.st <= ran'[pod'.uid]
    BY <1>1, <1>3 DEF IInv, Scalars, ObjectsOK, PodRec, api
  <2> QED BY Zenon, <1>1, <2>1, <2>2 DEF IInv, ObjectsOK, AckedLeaseStays, api
<1>7. LeasesOK' /\ QueuesOK' /\ JobsOK' /\ DownOK'
  BY Zenon, <1>1, <1>4, LeasesSame, QueuesSame, JobsSame, DownSame
<1> QED BY Zenon, <1>5, <1>6, <1>7 DEF IInv

-----------------------------------------------------------------------------
(* The workers.                                                            *)

LEMMA DispatchKeeps == ASSUME IInv, dispatchMessage PROVE IInv'
<1>1. /\ UNCHANGED <<api, ran, uids, foreign, local, ackedLease, known, leaseLister, client, jobs,
                     down, requests>>
      /\ up # <<>> /\ up' = Tail(up)
      /\ chan' = [chan EXCEPT ![ChanOf(Head(up).kind)] = Append(@, Head(up))]
  BY Zenon DEF dispatchMessage, edge
<1>2. Moves
  BY Zenon, <1>1, StillMoves
<1>3. requests' \in Nat
  BY Zenon, <1>1 DEF IInv, Scalars
<1>4. Head(up) \in GoodMsgs /\ up' \in Seq(GoodMsgs)
  BY Zenon, <1>1, SeqEnds DEF IInv, QueuesOK
<1>5. chan' \in [Chans -> Seq(GoodMsgs)]
  <2>1. \A k \in Chans : Append(chan[k], Head(up)) \in Seq(GoodMsgs)
    BY Zenon, <1>4, SeqAppend DEF IInv, QueuesOK
  <2> QED BY Zenon, <1>1, <2>1 DEF IInv, QueuesOK
<1>6. QueuesOK'
  BY Zenon, <1>1, <1>2, <1>4, <1>5, QueuesFrame DEF IInv, QueuesOK
<1>7. Scalars' /\ ObjectsOK' /\ LeasesOK' /\ JobsOK' /\ DownOK'
  BY Zenon, <1>1, <1>2, <1>3, ObjectsSame, LeasesSame, JobsSame, DownSame
<1> QED BY Zenon, <1>6, <1>7 DEF IInv

LEMMA TakeKeeps == ASSUME IInv, NEW k \in Chans, Take(k) PROVE IInv'
<1>1. /\ UNCHANGED <<api, ran, uids, foreign, local, ackedLease, known, leaseLister, up, client,
                     down, requests>>
      /\ chan[k] # <<>> /\ chan' = [chan EXCEPT ![k] = Tail(@)]
      /\ jobs' = jobs \cup {[at |-> "first", msg |-> Head(chan[k]), got |-> None]}
  BY Zenon DEF Take, edge, sent
<1>2. Moves
  BY Zenon, <1>1, StillMoves
<1>3. requests' \in Nat
  BY Zenon, <1>1 DEF IInv, Scalars
<1>4. Head(chan[k]) \in GoodMsgs /\ Tail(chan[k]) \in Seq(GoodMsgs)
  BY Zenon, <1>1, SeqEnds DEF IInv, QueuesOK
<1>5. QueuesOK'
  <2>1. chan' \in [Chans -> Seq(GoodMsgs)]
    BY Zenon, <1>1, <1>4 DEF IInv, QueuesOK
  <2> QED BY Zenon, <1>1, <1>2, <2>1, QueuesFrame DEF IInv, QueuesOK
<1>6. JobsOK'
  <2> DEFINE j == [at |-> "first", msg |-> Head(chan[k]), got |-> None]
  <2>1. GoodJob(j)
    <3>1. j \in JobRec
      BY Zenon, <1>4 DEF JobRec, GoodMsgs
    <3> QED BY Zenon, <1>4, <3>1 DEF GoodJob
  <2> HIDE DEF j
  <2>2. jobs' = jobs \cup {j}
    BY Zenon, <1>1 DEF j
  <2> QED BY Zenon, <1>2, <2>1, <2>2, JobsFrame DEF IInv, JobsOK
<1>7. Scalars' /\ ObjectsOK' /\ LeasesOK' /\ DownOK'
  BY Zenon, <1>1, <1>2, <1>3, ObjectsSame, LeasesSame, DownSame
<1> QED BY Zenon, <1>5, <1>6, <1>7 DEF IInv

\* What no worker changes.
ServeFrame == UNCHANGED <<leaseLister, sent, foreign, chan, edge>>

LEMMA ServeKeeps ==
  ASSUME IInv, Moves, ServeFrame, Scalars', ObjectsOK', JobsOK', DownOK'
  PROVE  IInv'
<1>1. UNCHANGED <<leaseLister, known, up, chan, client>>
  BY Zenon DEF ServeFrame, sent, edge
<1> QED BY Zenon, <1>1, LeasesSame, QueuesSame DEF IInv

\* A good job has a good message.
LEMMA JobTypes ==
  ASSUME IInv, NEW j \in jobs
  PROVE  /\ GoodJob(j) /\ j \in JobRec /\ j.msg \in MsgRec /\ j.msg \in GoodMsgs
         /\ j.msg.kind \in Kinds /\ j.msg.body \in BodyRec
  BY Zenon DEF IInv, JobsOK, GoodJob, JobRec, MsgRec

\* Answers that carry no lease.
LEMMA PlainAnswer ==
  ASSUME IInv, Moves, NEW j \in jobs, NEW err \in BOOLEAN, NEW object,
         j.msg.kind \notin LeaseKinds \/ err,
         down' = Respond(j.msg, err, object)
  PROVE  DownOK'
<1> DEFINE a == Answer(j.msg, err, object)
<1>1. a.kind = j.msg.kind /\ a.err = err
  BY Zenon DEF Answer
<1>2. j.msg.kind \in Kinds /\ "leaseUpdate" \in LeaseKinds
  BY Zenon, JobTypes DEF LeaseKinds
<1>3. GoodAnswer(a)'
  BY Zenon, <1>1, <1>2 DEF GoodAnswer
<1>4. \A b \in down' : b \in down \/ b = a
  BY Zenon DEF Respond
<1> HIDE DEF a
<1> QED BY Zenon, <1>3, <1>4, DownFrame

\* A call of the API server fails.
LEMMA FailsKeeps == ASSUME IInv, NEW j \in jobs, Fails(j), ServeFrame PROVE IInv'
<1>1. UNCHANGED <<api, uids, ran, foreign, local, ackedLease, requests>> /\ jobs' \subseteq jobs
  BY Zenon DEF Fails, Done, ServeFrame, edge, sent
<1>2. Moves
  BY Zenon, <1>1, StillMoves
<1>3. requests' \in Nat
  BY Zenon, <1>1 DEF IInv, Scalars
<1>4. DownOK'
  BY Zenon, <1>2, PlainAnswer DEF Fails
<1> QED BY Zenon, <1>1, <1>2, <1>3, <1>4, ObjectsSame, JobsSame, ServeKeeps

\* The pod is written with a status of its own.
LEMMA PodRecord ==
  ASSUME NEW p \in PodRec, NEW s \in Nat, NEW v \in Nat
  PROVE  [p EXCEPT !.st = s, !.rv = v]
           = [uid |-> p.uid, rv |-> v, st |-> s, terminating |-> p.terminating]
<1>1. [p EXCEPT !.st = s] = [uid |-> p.uid, rv |-> p.rv, st |-> s, terminating |-> p.terminating]
  BY DEF PodRec
<1>2. [[uid |-> p.uid, rv |-> p.rv, st |-> s, terminating |-> p.terminating] EXCEPT !.rv = v]
        = [uid |-> p.uid, rv |-> v, st |-> s, terminating |-> p.terminating]
  OBVIOUS
<1>3. [p EXCEPT !.st = s, !.rv = v] = [[p EXCEPT !.st = s] EXCEPT !.rv = v]
  BY Zenon
<1> QED BY Zenon, <1>1, <1>2, <1>3

LEMMA MarkedRecord ==
  ASSUME NEW p \in PodRec, NEW v \in Nat
  PROVE  [p EXCEPT !.terminating = TRUE, !.rv = v]
           = [uid |-> p.uid, rv |-> v, st |-> p.st, terminating |-> TRUE]
<1> SUFFICES ASSUME NEW b \in BOOLEAN
             PROVE  [p EXCEPT !.terminating = b, !.rv = v]
                      = [uid |-> p.uid, rv |-> v, st |-> p.st, terminating |-> b]
  BY Zenon
<1>1. [p EXCEPT !.terminating = b] = [uid |-> p.uid, rv |-> p.rv, st |-> p.st, terminating |-> b]
  BY DEF PodRec
<1>2. [[uid |-> p.uid, rv |-> p.rv, st |-> p.st, terminating |-> b] EXCEPT !.rv = v]
        = [uid |-> p.uid, rv |-> v, st |-> p.st, terminating |-> b]
  OBVIOUS
<1>3. [p EXCEPT !.terminating = b, !.rv = v] = [[p EXCEPT !.terminating = b] EXCEPT !.rv = v]
  BY Zenon
<1> QED BY Zenon, <1>1, <1>2, <1>3

\* A new version of the pod.
LEMMA PodWritten ==
  ASSUME IInv, NEW u \in Uids, NEW s \in Nat, NEW t \in BOOLEAN, s <= ran[u],
         pod' = [uid |-> u, rv |-> rv + 1, st |-> s, terminating |-> t], rv' = rv + 1,
         uids' \in 0..MaxUids,
         UNCHANGED <<lease, node, foreign, requests, ran, local, ackedLease>>
  PROVE  Moves /\ Scalars' /\ ObjectsOK'
<1>1. pod' \in PodRec /\ pod'.rv = rv + 1 /\ pod'.uid = u /\ pod'.st = s
  BY DEF PodRec, IInv, Scalars
<1>2. Moves
  BY <1>1 DEF Moves, IInv, Scalars
<1>3. Scalars'
  BY DEF IInv, Scalars
<1>4. ObjectsOK'
  BY <1>1 DEF IInv, Scalars, ObjectsOK, AckedLeaseStays, LeaseRec, NodeRec
<1> QED BY Zenon, <1>2, <1>3, <1>4

\* The pod is deleted, or not.
LEMMA PodGone ==
  ASSUME IInv, pod' \in {None, pod},
         UNCHANGED <<lease, node, rv, uids, foreign, requests, ran, local, ackedLease>>
  PROVE  Moves /\ Scalars' /\ ObjectsOK'
<1>1. Moves
  BY DEF Moves, IInv, Scalars
<1>2. Scalars' /\ ObjectsOK'
  BY Zenon DEF IInv, Scalars, ObjectsOK, AckedLeaseStays
<1> QED BY Zenon, <1>1, <1>2

\* A new version of the node.
LEMMA NodeWritten ==
  ASSUME IInv, NEW f \in Nat, node' = [rv |-> rv + 1, foreign |-> f], rv' = rv + 1,
         foreign' \in Nat, f <= foreign',
         UNCHANGED <<pod, lease, uids, requests, ran, local, ackedLease>>
  PROVE  Moves /\ Scalars' /\ ObjectsOK'
<1>1. node' \in NodeRec /\ node'.rv = rv + 1 /\ node'.foreign = f
  BY DEF NodeRec, IInv, Scalars
<1>2. Moves
  BY <1>1 DEF Moves, IInv, Scalars
<1>3. Scalars'
  BY DEF IInv, Scalars
<1>4. ObjectsOK'
  BY <1>1 DEF IInv, Scalars, ObjectsOK, AckedLeaseStays, LeaseRec, PodRec
<1> QED BY Zenon, <1>2, <1>3, <1>4

\* The next step of a job.
LEMMA NextJob ==
  ASSUME NEW j \in JobRec, NEW at \in {"second", "delete"}, NEW got \in PodRec \cup NodeRec \cup {None}
  PROVE  [j EXCEPT !.at = at, !.got = got] = [at |-> at, msg |-> j.msg, got |-> got]
<1>1. [j EXCEPT !.at = at] = [at |-> at, msg |-> j.msg, got |-> j.got]
  BY DEF JobRec
<1>2. [[at |-> at, msg |-> j.msg, got |-> j.got] EXCEPT !.got = got]
        = [at |-> at, msg |-> j.msg, got |-> got]
  OBVIOUS
<1>3. [j EXCEPT !.at = at, !.got = got] = [[j EXCEPT !.at = at] EXCEPT !.got = got]
  BY Zenon
<1> QED BY Zenon, <1>1, <1>2, <1>3

-----------------------------------------------------------------------------
(* The workers.                                                            *)

\* The shapes of a worker's last step: one about a pod or a node that has
\* written an object or none, and the answer it may send.
LEMMA WorkerEnds ==
  ASSUME IInv, NEW j \in jobs, NEW object, ServeFrame, Moves, Scalars', ObjectsOK',
         jobs' \subseteq jobs, j.msg.kind \notin LeaseKinds,
         down' = down \/ down' = Respond(j.msg, FALSE, object)
  PROVE  IInv'
<1>1. JobsOK'
  BY Zenon, JobsSame
<1>2. CASE down' = down
  <2>1. \A a \in down' : a \in down \/ GoodAnswer(a)'
    BY Zenon, <1>2
  <2> QED BY Zenon, <1>1, <2>1, DownFrame, ServeKeeps
<1>3. CASE down' = Respond(j.msg, FALSE, object)
  <2>1. DownOK'
    BY Zenon, <1>3, PlainAnswer
  <2> QED BY Zenon, <1>1, <2>1, ServeKeeps
<1> QED BY Zenon, <1>2, <1>3

\* A worker that has read an object goes on.
LEMMA WorkerGoesOn ==
  ASSUME IInv, NEW j \in jobs, NEW k, ServeFrame, Moves, Scalars', ObjectsOK', DownOK',
         jobs' = (jobs \ {j}) \cup {k}, GoodJob(k)
  PROVE  IInv'
<1>1. \A i \in jobs' : GoodJob(i)
  BY Zenon DEF IInv, JobsOK
<1> QED BY Zenon, <1>1, JobsFrame, ServeKeeps

LEMMA StatusWritten ==
  ASSUME IInv, NEW m \in GoodMsgs, m.kind \in {"podStatus", "podPatch"}, ServeFrame,
         pod # None, pod.uid = m.body.uid,
         pod' = [pod EXCEPT !.st = m.body.st, !.rv = rv + 1], rv' = rv + 1,
         UNCHANGED <<lease, node, uids>>
  PROVE  Moves /\ Scalars' /\ ObjectsOK'
<1>1. m.body.st \in Nat /\ m.body.st <= ran[pod.uid]
  BY Zenon DEF GoodMsgs, MsgRec, BodyRec
<1>2. pod \in PodRec /\ pod.uid \in Uids /\ pod.terminating \in BOOLEAN
  BY Zenon DEF IInv, ObjectsOK, PodRec
<1>3. rv + 1 \in Nat /\ uids' \in 0..MaxUids
  BY DEF IInv, Scalars
<1>4. pod' = [uid |-> pod.uid, rv |-> rv + 1, st |-> m.body.st, terminating |-> pod.terminating]
  BY Zenon, <1>1, <1>2, <1>3, PodRecord
<1>5. UNCHANGED <<foreign, requests, ran, local, ackedLease>>
  BY Zenon DEF ServeFrame, sent, edge
<1> QED BY Zenon, <1>1, <1>2, <1>3, <1>4, <1>5, PodWritten

LEMMA StatusKeeps == ASSUME IInv, NEW j \in jobs, updatePodStatus(j), ServeFrame PROVE IInv'
<1>1. /\ GoodJob(j) /\ j \in JobRec /\ j.msg \in MsgRec /\ j.msg \in GoodMsgs
      /\ j.msg.kind = "podStatus" /\ j.msg.kind \notin LeaseKinds
  BY Zenon, JobTypes DEF updatePodStatus, LeaseKinds
<1>2. UNCHANGED <<foreign, requests, ran, local, ackedLease>> /\ requests' \in Nat
  BY Zenon DEF ServeFrame, sent, edge, IInv, Scalars
<1>3. CASE /\ j.at = "first" /\ Done(j)
           /\ down' = Respond(j.msg, FALSE, None) \cup {[kind |-> "delete", id |-> j.msg.id]}
           /\ UNCHANGED <<api, uids>>
  <2>1. Moves
    BY Zenon, <1>2, <1>3, StillMoves
  <2>2. Scalars' /\ ObjectsOK' /\ jobs' \subseteq jobs
    BY Zenon, <1>2, <1>3, ObjectsSame DEF Done
  <2>3. \A a \in down' : a \in down \/ a.kind = "delete"
    BY <1>1, <1>3 DEF Respond
  <2>4. \A a \in down' : a \in down \/ GoodAnswer(a)'
    BY Zenon, <2>3 DEF GoodAnswer
  <2> QED BY Zenon, <2>1, <2>2, <2>4, DownFrame, JobsSame, ServeKeeps
<1>4. CASE /\ j.at = "first" /\ ~OtherPod(j.msg.body.uid)
           /\ Next2(j, "second", pod) /\ UNCHANGED <<api, uids, down>>
  <2>1. Moves
    BY Zenon, <1>2, <1>4, StillMoves
  <2>2. Scalars' /\ ObjectsOK'
    BY Zenon, <1>2, <1>4, ObjectsSame
  <2>3. pod \in PodRec /\ pod.rv <= rv /\ pod.uid = j.msg.body.uid
    BY Zenon, <1>4 DEF OtherPod, IInv, ObjectsOK
  <2>4. PICK k : k = [at |-> "second", msg |-> j.msg, got |-> pod]
    BY Zenon
  <2>5. jobs' = (jobs \ {j}) \cup {k}
    BY Zenon, <1>1, <1>4, <2>3, <2>4, NextJob DEF Next2
  <2>6. k \in JobRec /\ k.msg = j.msg /\ k.got = pod /\ k.at = "second"
    BY Zenon, <1>1, <2>3, <2>4 DEF JobRec
  <2>7. GoodJob(k)
    BY Zenon, <1>1, <2>3, <2>6 DEF GoodJob
  <2>8. DownOK'
    BY Zenon, <1>4, <2>1, DownFrame
  <2> QED BY Zenon, <2>1, <2>2, <2>5, <2>7, <2>8, WorkerGoesOn
<1>5. CASE /\ j.at = "second" /\ pod # None /\ pod.rv = j.got.rv
           /\ pod' = [pod EXCEPT !.st = j.msg.body.st, !.rv = rv + 1]
           /\ rv' = rv + 1
           /\ down' = Respond(j.msg, FALSE, None)
           /\ Next2(j, "delete", None) \/ Done(j)
           /\ UNCHANGED <<lease, node, uids>>
  <2>1. pod.uid = j.msg.body.uid
    BY Zenon, <1>1, <1>5 DEF GoodJob
  <2>2. Moves /\ Scalars' /\ ObjectsOK'
    BY Zenon, <1>1, <1>5, <2>1, StatusWritten
  <2>3. CASE Done(j)
    <3>1. jobs' \subseteq jobs
      BY Zenon, <2>3 DEF Done
    <3> QED BY Zenon, <1>1, <1>5, <2>2, <3>1, WorkerEnds
  <2>4. CASE Next2(j, "delete", None)
    <3>1. PICK k : k = [at |-> "delete", msg |-> j.msg, got |-> None]
      BY Zenon
    <3>2. jobs' = (jobs \ {j}) \cup {k}
      BY Zenon, <1>1, <2>4, <3>1, NextJob DEF Next2
    <3>3. k \in JobRec /\ k.msg = j.msg /\ k.at = "delete"
      BY Zenon, <1>1, <3>1 DEF JobRec
    <3>4. GoodJob(k)
      BY Zenon, <1>1, <3>3 DEF GoodJob
    <3>5. DownOK'
      BY Zenon, <1>1, <1>5, <2>2, PlainAnswer
    <3> QED BY Zenon, <2>2, <3>2, <3>4, <3>5, WorkerGoesOn
  <2> QED BY Zenon, <1>5, <2>3, <2>4
<1>6. CASE Fails(j)
  BY Zenon, <1>6, FailsKeeps
<1>7. CASE /\ j.at = "delete" /\ Done(j) /\ pod' \in {None, pod}
           /\ UNCHANGED <<lease, node, rv, uids, down>>
  <2>1. Moves /\ Scalars' /\ ObjectsOK'
    BY Zenon, <1>2, <1>7, PodGone
  <2>2. jobs' \subseteq jobs
    BY Zenon, <1>7 DEF Done
  <2> QED BY Zenon, <1>1, <1>7, <2>1, <2>2, WorkerEnds
<1> QED BY Zenon, <1>3, <1>4, <1>5, <1>6, <1>7 DEF updatePodStatus

LEMMA PatchPodKeeps == ASSUME IInv, NEW j \in jobs, patchPod(j), ServeFrame PROVE IInv'
<1>1. j.msg \in GoodMsgs /\ j.msg.kind = "podPatch" /\ j.msg.kind \notin LeaseKinds
  BY Zenon, JobTypes DEF patchPod, LeaseKinds
<1>2. CASE Fails(j)
  BY Zenon, <1>2, FailsKeeps
<1>3. CASE ~Fails(j)
  <2>1. /\ pod # None /\ pod.uid = j.msg.body.uid
        /\ pod' = [pod EXCEPT !.st = j.msg.body.st, !.rv = rv + 1] /\ rv' = rv + 1
        /\ UNCHANGED <<lease, node, uids>>
        /\ down' = Respond(j.msg, FALSE, pod') /\ jobs' \subseteq jobs
    BY Zenon, <1>3 DEF patchPod, Done
  <2>2. Moves /\ Scalars' /\ ObjectsOK'
    BY Zenon, <1>1, <2>1, StatusWritten
  <2>3. PICK object : object = pod'
    BY Zenon
  <2> QED BY Zenon, <1>1, <2>1, <2>2, <2>3, WorkerEnds
<1> QED BY Zenon, <1>2, <1>3

\* A pod is created, by the node or by a user.
LEMMA PodCreated ==
  ASSUME IInv, Constants, uids < MaxUids, pod' = NewPod, rv' = rv + 1, uids' = uids + 1,
         UNCHANGED <<lease, node, foreign, requests, ran, local, ackedLease>>
  PROVE  Moves /\ Scalars' /\ ObjectsOK'
<1>1. uids + 1 \in Uids /\ uids' \in 0..MaxUids
  BY DEF Constants, Uids, IInv, Scalars
<1>2. 0 <= ran[uids + 1]
  BY <1>1 DEF IInv, Scalars
<1>3. pod' = [uid |-> uids + 1, rv |-> rv + 1, st |-> 0, terminating |-> FALSE]
  BY Zenon DEF NewPod
<1>4. PICK u \in Uids, s \in Nat, t \in BOOLEAN : u = uids + 1 /\ s = 0 /\ t = FALSE
  BY Zenon, <1>1
<1>5. s <= ran[u] /\ pod' = [uid |-> u, rv |-> rv + 1, st |-> s, terminating |-> t]
  BY Zenon, <1>2, <1>3, <1>4
<1> QED BY Zenon, <1>1, <1>5, PodWritten

LEMMA CreatePodKeeps ==
  ASSUME IInv, Constants, NEW j \in jobs, createPod(j), ServeFrame
  PROVE  IInv'
<1>1. j.msg.kind = "podCreate" /\ j.msg.kind \notin LeaseKinds
  BY Zenon DEF createPod, LeaseKinds
<1>2. CASE Fails(j)
  BY Zenon, <1>2, FailsKeeps
<1>3. CASE ~Fails(j)
  <2>1. /\ uids < MaxUids /\ pod' = NewPod /\ rv' = rv + 1 /\ uids' = uids + 1
        /\ UNCHANGED <<lease, node>>
        /\ down' = Respond(j.msg, FALSE, pod') /\ jobs' \subseteq jobs
    BY Zenon, <1>3 DEF createPod, Done
  <2>2. UNCHANGED <<foreign, requests, ran, local, ackedLease>>
    BY Zenon DEF ServeFrame, sent, edge
  <2>3. Moves /\ Scalars' /\ ObjectsOK'
    BY Zenon, <2>1, <2>2, PodCreated
  <2>4. PICK object : object = pod'
    BY Zenon
  <2> QED BY Zenon, <1>1, <2>1, <2>3, <2>4, WorkerEnds
<1> QED BY Zenon, <1>2, <1>3

LEMMA DeletePodKeeps == ASSUME IInv, NEW j \in jobs, deletePod(j), ServeFrame PROVE IInv'
<1>1. j.msg.kind = "podDelete" /\ j.msg.kind \notin LeaseKinds
  BY Zenon DEF deletePod, LeaseKinds
<1>2. CASE Fails(j)
  BY Zenon, <1>2, FailsKeeps
<1>3. CASE ~Fails(j)
  <2>1. /\ pod' \in {None, pod} /\ UNCHANGED <<lease, node, rv, uids>>
        /\ down' = Respond(j.msg, FALSE, None) /\ jobs' \subseteq jobs
    BY Zenon, <1>3 DEF deletePod, Done
  <2>2. UNCHANGED <<foreign, requests, ran, local, ackedLease>>
    BY Zenon DEF ServeFrame, sent, edge
  <2>3. Moves /\ Scalars' /\ ObjectsOK'
    BY Zenon, <2>1, <2>2, PodGone
  <2> QED BY Zenon, <1>1, <2>1, <2>3, WorkerEnds
<1> QED BY Zenon, <1>2, <1>3

\* The lease that is written renews the one it replaces.
LEMMA LeaseWritten ==
  ASSUME IInv, Constants, NEW r \in Nat, lease # None => lease.renew <= r,
         lease' = [rv |-> rv + 1, renew |-> r], rv' = rv + 1,
         UNCHANGED <<pod, node, uids, foreign, requests, ran, local, ackedLease>>
  PROVE  /\ Moves /\ Scalars' /\ ObjectsOK'
         /\ lease' # None /\ lease'.renew = r /\ Current(lease)'
<1>1. rv \in Nat /\ rv + 1 \in Nat /\ rv' \in Nat
  BY DEF IInv, Scalars
<1>2. lease' \in LeaseRec /\ lease'.rv = rv + 1 /\ lease'.renew = r
  BY Zenon, <1>1 DEF LeaseRec
<1>3. lease' # None
  BY Zenon, <1>2 DEF Constants
<1>4. Moves
  BY <1>1, <1>2, <1>3 DEF Moves, IInv, Scalars
<1>5. Scalars'
  BY Zenon, <1>1 DEF IInv, Scalars
<1>6. AckedLeaseStays'
  BY <1>2, <1>3 DEF IInv, Scalars, ObjectsOK, AckedLeaseStays, LeaseRec
<1>7. lease'.rv <= rv' /\ lease'.rv > 0
  BY <1>1, <1>2
<1>8. /\ pod' # None => pod' \in PodRec /\ pod'.rv <= rv' /\ pod'.st <= ran'[pod'.uid]
      /\ node' # None => node' \in NodeRec /\ node'.rv <= rv' /\ node'.foreign <= foreign'
  BY <1>1 DEF IInv, ObjectsOK, PodRec, NodeRec
<1>9. local' # None => local' \in [uid : Uids, st : Nat] /\ local'.st <= ran'[local'.uid]
  BY Zenon DEF IInv, ObjectsOK
<1>10. ObjectsOK'
  BY Zenon, <1>2, <1>6, <1>7, <1>8, <1>9 DEF ObjectsOK
<1>11. Current(lease)'
  BY Zenon, <1>2, <1>7 DEF Current
<1> QED BY Zenon, <1>2, <1>3, <1>4, <1>5, <1>10, <1>11

LEMMA LeaseKeeps ==
  ASSUME IInv, Constants, NEW j \in jobs, createOrUpdateLease(j), ServeFrame
  PROVE  IInv'
<1>1. j.msg \in GoodMsgs /\ j.msg.body \in BodyRec /\ j.msg.kind \in Kinds
  BY Zenon, JobTypes
<1>2. CASE Fails(j)
  BY Zenon, <1>2, FailsKeeps
<1>3. CASE ~Fails(j)
  <2>1. /\ lease' = [rv |-> rv + 1, renew |-> j.msg.body.renew] /\ rv' = rv + 1
        /\ UNCHANGED <<pod, node, uids>>
        /\ down' = Respond(j.msg, FALSE, lease') /\ jobs' \subseteq jobs
    BY Zenon, <1>3 DEF createOrUpdateLease, Done
  <2>2. UNCHANGED <<foreign, requests, ran, local, ackedLease>>
    BY Zenon DEF ServeFrame, sent, edge
  <2>3. lease # None => lease.renew <= j.msg.body.renew
    BY Zenon, <1>1, <1>3 DEF createOrUpdateLease, SameVersion, GoodMsgs
  <2>4. PICK r \in Nat : r = j.msg.body.renew
    BY Zenon, <1>1 DEF BodyRec
  <2>5. lease' = [rv |-> rv + 1, renew |-> r] /\ (lease # None => lease.renew <= r)
    BY Zenon, <2>1, <2>3, <2>4
  <2>6. /\ Moves /\ Scalars' /\ ObjectsOK'
        /\ lease' # None /\ lease'.renew = r /\ Current(lease)'
    BY Zenon, <2>1, <2>2, <2>5, LeaseWritten
  <2>7. PICK l : l = lease'
    BY Zenon
  <2>8. PICK a : a = Answer(j.msg, FALSE, l)
    BY Zenon
  <2>9. a.kind = j.msg.kind /\ a.object = lease'
    BY Zenon, <2>7, <2>8 DEF Answer
  <2>10. Current(a.object)' /\ a.object.renew <= lease'.renew
    BY <2>6, <2>9 DEF Current
  <2>11. GoodAnswer(a)'
    BY Zenon, <1>1, <2>6, <2>9, <2>10 DEF GoodAnswer
  <2>12. \A b \in down' : b \in down \/ b = a
    BY Zenon, <2>1, <2>7, <2>8 DEF Respond
  <2> QED BY Zenon, <2>1, <2>6, <2>11, <2>12, DownFrame, JobsSame, ServeKeeps
<1> QED BY Zenon, <1>2, <1>3

LEMMA QueryLeaseKeeps == ASSUME IInv, NEW j \in jobs, queryLease(j), ServeFrame PROVE IInv'
<1>1. /\ UNCHANGED <<api, uids, foreign, ran, local, ackedLease>> /\ requests' \in Nat
      /\ jobs' \subseteq jobs
  BY Zenon DEF queryLease, Done, ServeFrame, sent, edge, IInv, Scalars
<1>2. Moves
  BY Zenon, <1>1, StillMoves
<1>3. Scalars' /\ ObjectsOK'
  BY Zenon, <1>1, ObjectsSame
<1>4. PICK l : l = IF leaseLister = None THEN NoLease ELSE leaseLister
  BY Zenon
<1>5. Current(l)
  BY <1>4 DEF IInv, LeasesOK, Current, NoLease, LeaseRec, ObjectsOK, Scalars
<1>6. Current(l)'
  BY Zenon, <1>2, <1>5, CurrentStays
<1>7. PICK a : a = Answer(j.msg, FALSE, l)
  BY Zenon
<1>8. a.kind = "leaseQuery" /\ a.object = l
  BY Zenon, <1>7 DEF Answer, queryLease
<1>9. GoodAnswer(a)'
  BY Zenon, <1>6, <1>8 DEF GoodAnswer, Kinds, LeaseKinds
<1>10. \A b \in down' : b \in down \/ b = a
  BY Zenon, <1>4, <1>7 DEF Respond, queryLease
<1> QED BY Zenon, <1>1, <1>2, <1>3, <1>9, <1>10, DownFrame, JobsSame, ServeKeeps

LEMMA NodeRecord ==
  ASSUME NEW n \in NodeRec, NEW v \in Nat
  PROVE  [n EXCEPT !.rv = v] = [rv |-> v, foreign |-> n.foreign]
  BY DEF NodeRec

\* A worker that writes the node keeps what others wrote.
NodeStep == rv' = rv + 1 /\ UNCHANGED <<pod, lease, uids>>

LEMMA NodeStepKeeps ==
  ASSUME IInv, NEW j \in jobs, NEW f \in Nat, f <= foreign, NodeStep, ServeFrame,
         node' = [rv |-> rv + 1, foreign |-> f], jobs' \subseteq jobs,
         j.msg.kind \notin LeaseKinds, down' = down \/ down' = Respond(j.msg, FALSE, None)
  PROVE  IInv'
<1>1. UNCHANGED <<foreign, requests, ran, local, ackedLease>> /\ foreign' \in Nat
  BY Zenon DEF ServeFrame, sent, edge, IInv, Scalars
<1>2. Moves /\ Scalars' /\ ObjectsOK'
  BY Zenon, <1>1, NodeWritten DEF NodeStep
<1> QED BY Zenon, <1>2, WorkerEnds

LEMMA RegisterNodeKeeps == ASSUME IInv, NEW j \in jobs, registerNode(j), ServeFrame PROVE IInv'
<1>1. CASE Fails(j)
  BY Zenon, <1>1, FailsKeeps
<1>2. CASE ~Fails(j)
  <2>1. /\ node' = [rv |-> rv + 1, foreign |-> foreign] /\ NodeStep /\ jobs' \subseteq jobs
        /\ j.msg.kind \notin LeaseKinds /\ down' = Respond(j.msg, FALSE, None)
    BY Zenon, <1>2 DEF registerNode, NodeStep, Done, LeaseKinds
  <2>2. PICK f \in Nat : f = foreign /\ f <= foreign
    BY DEF IInv, Scalars
  <2>3. node' = [rv |-> rv + 1, foreign |-> f]
    BY Zenon, <2>1, <2>2
  <2> QED BY Zenon, <2>1, <2>2, <2>3, NodeStepKeeps
<1> QED BY Zenon, <1>1, <1>2

LEMMA PatchNodeKeeps == ASSUME IInv, NEW j \in jobs, patchNode(j), ServeFrame PROVE IInv'
<1>1. CASE Fails(j)
  BY Zenon, <1>1, FailsKeeps
<1>2. CASE ~Fails(j)
  <2>1. /\ node # None /\ node' = [node EXCEPT !.rv = rv + 1] /\ NodeStep /\ jobs' \subseteq jobs
        /\ j.msg.kind \notin LeaseKinds /\ down' = Respond(j.msg, FALSE, None)
    BY Zenon, <1>2 DEF patchNode, NodeStep, Done, LeaseKinds
  <2>2. node \in NodeRec /\ node.foreign \in Nat /\ node.foreign <= foreign /\ rv + 1 \in Nat
    BY <2>1 DEF IInv, ObjectsOK, Scalars, NodeRec
  <2>3. node' = [rv |-> rv + 1, foreign |-> node.foreign]
    BY Zenon, <2>1, <2>2, NodeRecord
  <2> QED BY Zenon, <2>1, <2>2, <2>3, NodeStepKeeps
<1> QED BY Zenon, <1>1, <1>2

\* updateNode and updateNodeStatus.
LEMMA UpdateNodeKeeps ==
  ASSUME IInv, NEW j \in jobs, updateNode(j) \/ updateNodeStatus(j), ServeFrame
  PROVE  IInv'
<1>1. /\ GoodJob(j) /\ j \in JobRec /\ j.msg.kind \in {"nodeUpdate", "nodeStatus"}
      /\ j.msg.kind \notin LeaseKinds
  BY Zenon, JobTypes DEF updateNode, updateNodeStatus, LeaseKinds
<1>2. CASE GetNode(j)
  <2>1. UNCHANGED <<api, uids, down, foreign, ran, local, ackedLease>> /\ requests' \in Nat
    BY Zenon, <1>2 DEF GetNode, ServeFrame, sent, edge, IInv, Scalars
  <2>2. Moves
    BY Zenon, <2>1, StillMoves
  <2>3. Scalars' /\ ObjectsOK'
    BY Zenon, <2>1, ObjectsSame
  <2>4. node \in NodeRec /\ node.rv <= rv
    BY Zenon, <1>2 DEF GetNode, IInv, ObjectsOK
  <2>5. PICK k : k = [at |-> "second", msg |-> j.msg, got |-> node]
    BY Zenon
  <2>6. jobs' = (jobs \ {j}) \cup {k}
    BY Zenon, <1>1, <1>2, <2>4, <2>5, NextJob DEF GetNode, Next2
  <2>7. k \in JobRec /\ k.msg = j.msg /\ k.got = node
    BY Zenon, <1>1, <2>4, <2>5 DEF JobRec
  <2>8. GoodJob(k)
    BY Zenon, <1>1, <2>4, <2>7 DEF GoodJob
  <2>9. DownOK'
    BY Zenon, <2>1, <2>2, DownFrame
  <2> QED BY Zenon, <2>2, <2>3, <2>6, <2>8, <2>9, WorkerGoesOn
<1>3. CASE PutNode(j)
  <2>1. /\ node # None /\ node.rv = j.got.rv /\ node' = [j.got EXCEPT !.rv = rv + 1]
        /\ NodeStep /\ jobs' \subseteq jobs /\ down' = down /\ j.at = "second"
    BY Zenon, <1>3 DEF PutNode, Unchanged, NodeStep, Done
  <2>2. j.got \in NodeRec /\ j.got.foreign = node.foreign
    BY Zenon, <1>1, <2>1 DEF GoodJob
  <2>3. node.foreign \in Nat /\ node.foreign <= foreign /\ rv + 1 \in Nat
    BY <2>1 DEF IInv, ObjectsOK, Scalars, NodeRec
  <2>4. node' = [rv |-> rv + 1, foreign |-> node.foreign]
    BY Zenon, <2>1, <2>2, <2>3, NodeRecord
  <2> QED BY Zenon, <1>1, <2>1, <2>3, <2>4, NodeStepKeeps
<1>4. CASE Fails(j)
  BY Zenon, <1>4, FailsKeeps
<1> QED BY Zenon, <1>2, <1>3, <1>4 DEF updateNode, updateNodeStatus

LEMMA ServesKeeps == ASSUME IInv, Constants, NEW j \in jobs, Serve(j) PROVE IInv'
<1>1. ServeFrame
  BY Zenon DEF Serve, ServeFrame
<1> QED
  BY Zenon, <1>1, StatusKeeps, PatchPodKeeps, CreatePodKeeps, DeletePodKeeps, LeaseKeeps,
     QueryLeaseKeeps,
     RegisterNodeKeeps, PatchNodeKeeps, UpdateNodeKeeps DEF Serve

-----------------------------------------------------------------------------
(* The API server, and the steps together.                                 *)

\* A step of others that touches neither the messages nor the caches.
OthersFrame == UNCHANGED <<leaseLister, sent, chan, jobs, down, edge>>

LEMMA OthersKeeps == ASSUME IInv, Moves, OthersFrame, Scalars', ObjectsOK' PROVE IInv'
<1>1. UNCHANGED <<leaseLister, known, up, chan, client, jobs, down>>
  BY Zenon DEF OthersFrame, sent, edge
<1> QED BY Zenon, <1>1, LeasesSame, QueuesSame, JobsSame, DownSame DEF IInv

LEMMA UserCreatesKeeps == ASSUME IInv, Constants, UserCreates PROVE IInv'
<1>1. /\ OthersFrame /\ uids < MaxUids /\ pod' = NewPod /\ rv' = rv + 1 /\ uids' = uids + 1
      /\ UNCHANGED <<lease, node, foreign, requests, ran, local, ackedLease>>
  BY Zenon DEF UserCreates, OthersFrame, sent, edge
<1>2. Moves /\ Scalars' /\ ObjectsOK'
  BY Zenon, <1>1, PodCreated
<1> QED BY Zenon, <1>1, <1>2, OthersKeeps

LEMMA UserDeletesKeeps == ASSUME IInv, UserDeletes PROVE IInv'
<1>1. /\ OthersFrame /\ pod # None
      /\ UNCHANGED <<lease, node, uids, foreign, requests, ran, local, ackedLease>>
  BY Zenon DEF UserDeletes, OthersFrame, sent, edge
<1>2. CASE pod' = [pod EXCEPT !.terminating = TRUE, !.rv = rv + 1] /\ rv' = rv + 1
  <2>1. /\ pod \in PodRec /\ pod.uid \in Uids /\ pod.st \in Nat /\ pod.st <= ran[pod.uid]
        /\ rv + 1 \in Nat /\ uids' \in 0..MaxUids
    BY <1>1 DEF IInv, ObjectsOK, Scalars, PodRec
  <2>2. PICK t \in BOOLEAN : t = TRUE
    BY Zenon
  <2>3. pod' = [uid |-> pod.uid, rv |-> rv + 1, st |-> pod.st, terminating |-> t]
    BY Zenon, <1>2, <2>1, <2>2, MarkedRecord
  <2>4. Moves /\ Scalars' /\ ObjectsOK'
    BY Zenon, <1>1, <1>2, <2>1, <2>3, PodWritten
  <2> QED BY Zenon, <1>1, <2>4, OthersKeeps
<1>3. CASE pod' = None /\ rv' = rv
  <2>1. Moves /\ Scalars' /\ ObjectsOK'
    BY Zenon, <1>1, <1>3, PodGone
  <2> QED BY Zenon, <1>1, <2>1, OthersKeeps
<1> QED BY Zenon, <1>2, <1>3 DEF UserDeletes

LEMMA OtherWritesKeeps == ASSUME IInv, OtherWrites PROVE IInv'
<1>1. /\ OthersFrame /\ node' = [rv |-> rv + 1, foreign |-> foreign + 1] /\ rv' = rv + 1
      /\ foreign + 1 \in Nat /\ foreign' = foreign + 1 /\ foreign + 1 <= foreign'
      /\ UNCHANGED <<pod, lease, uids, requests, ran, local, ackedLease>>
  BY DEF OtherWrites, OthersFrame, sent, edge, IInv, Scalars
<1>2. Moves /\ Scalars' /\ ObjectsOK'
  BY Zenon, <1>1, NodeWritten
<1> QED BY Zenon, <1>1, <1>2, OthersKeeps

LEMMA CacheFollowsKeeps == ASSUME IInv, CacheFollows PROVE IInv'
<1>1. /\ UNCHANGED <<api, uids, foreign, ran, local, ackedLease, known, up, chan, client, jobs, down>>
      /\ requests' \in Nat /\ leaseLister' = lease
  BY Zenon DEF CacheFollows, sent, edge, IInv, Scalars
<1>2. Moves
  BY Zenon, <1>1, StillMoves
<1>3. lease # None => Current(lease)
  BY Zenon DEF IInv, ObjectsOK, Current
<1>4. LeasesOK'
  BY Zenon, <1>1, <1>2, <1>3, CurrentStays DEF IInv, LeasesOK
<1> QED BY Zenon, <1>1, <1>2, <1>4, ObjectsSame, QueuesSame, JobsSame, DownSame DEF IInv

LEMMA InitIInv == ASSUME Constants, Init PROVE IInv
<1>1. Scalars
  BY DEF Init, Scalars, Constants, Uids
<1>2. ObjectsOK /\ LeasesOK /\ JobsOK /\ DownOK
  BY DEF Init, ObjectsOK, AckedLeaseStays, LeasesOK, JobsOK, DownOK
<1>3. <<>> \in Seq(GoodMsgs)
  OBVIOUS
<1>4. QueuesOK
  BY Zenon, <1>3 DEF Init, QueuesOK
<1> QED BY Zenon, <1>1, <1>2, <1>4 DEF IInv

LEMMA StutterIInv == ASSUME IInv, UNCHANGED vars PROVE IInv'
<1>1. /\ UNCHANGED <<api, uids, foreign, ran, local, ackedLease, known, leaseLister, up, chan, client,
                     jobs, down>>
      /\ requests' \in Nat
  BY Zenon DEF vars, api, IInv, Scalars
<1>2. Moves
  BY Zenon, <1>1, StillMoves
<1> QED BY Zenon, <1>1, <1>2, ObjectsSame, LeasesSame, QueuesSame, JobsSame, DownSame DEF IInv

LEMMA NextIInv == ASSUME Constants, IInv, [Next]_vars PROVE IInv'
  BY Zenon, LateKeeps, PodCallKeeps, LeaseCallKeeps, NodeCallKeeps, AnsweredKeeps,
     PodOnNodeKeeps,
     DispatchKeeps, TakeKeeps, ServesKeeps, UserCreatesKeeps, UserDeletesKeeps, OtherWritesKeeps,
     CacheFollowsKeeps, StutterIInv DEF Next

LEMMA AlwaysIInv == ASSUME Constants PROVE Spec => []IInv
<1>1. Init => IInv
  BY Zenon, InitIInv
<1>2. IInv /\ [Next]_vars => IInv'
  BY Zenon, NextIInv
<1> QED BY <1>1, <1>2, PTL DEF Spec

\* A pod never has a status it did not have on the node: whatever requests are sent twice,
\* given up or overtaken, updatePodStatus and patchPod write no status to another pod that has
\* since taken the name.
THEOREM StatusesAreOwn == ASSUME Constants PROVE Spec => []StatusOfOwnRun
<1>1. IInv => StatusOfOwnRun
  BY Zenon DEF IInv, ObjectsOK, StatusOfOwnRun
<1> QED BY <1>1, AlwaysIInv, PTL

\* A renewal of the lease that createOrUpdateLease has answered with success is never undone,
\* neither by a request that was sent again nor by one whose answer came too late.
THEOREM RenewalsStay == ASSUME Constants PROVE Spec => []AckedLeaseStays
<1>1. IInv => AckedLeaseStays
  BY Zenon DEF IInv, ObjectsOK
<1> QED BY <1>1, AlwaysIInv, PTL

\* What a step does to what others have written to the node.
LEMMA NodeKept ==
  ASSUME IInv, Next, node # None, node' # None
  PROVE  node'.foreign >= node.foreign
<1>1. node \in NodeRec /\ node.foreign \in Nat /\ node.foreign <= foreign /\ foreign \in Nat /\ rv + 1 \in Nat
  BY DEF IInv, ObjectsOK, Scalars, NodeRec
<1>2. CASE node' = node
  BY <1>1, <1>2
<1>3. CASE node' = [node EXCEPT !.rv = rv + 1]
  BY <1>1, <1>3, NodeRecord
<1>4. CASE node' = [rv |-> rv + 1, foreign |-> foreign + 1]
  BY <1>1, <1>4
<1>5. ASSUME NEW j \in jobs, PutNode(j), j.msg.kind \in {"nodeUpdate", "nodeStatus"}
      PROVE  node'.foreign >= node.foreign
  <2>1. /\ j.at = "second" /\ node.rv = j.got.rv /\ node' = [j.got EXCEPT !.rv = rv + 1]
        /\ GoodJob(j)
    BY Zenon, <1>5 DEF PutNode, Unchanged, IInv, JobsOK
  <2>2. j.got \in NodeRec /\ j.got.foreign = node.foreign
    BY Zenon, <1>5, <2>1 DEF GoodJob
  <2> QED BY <1>1, <2>1, <2>2, NodeRecord
<1>6. ASSUME NEW j \in jobs, Serve(j) PROVE node'.foreign >= node.foreign
  <2>1. CASE updateNode(j) \/ updateNodeStatus(j)
    BY Zenon, <1>2, <1>5, <2>1 DEF updateNode, updateNodeStatus, GetNode, Fails, api
  <2>2. CASE registerNode(j) \/ patchNode(j)
    BY Zenon, <1>2, <1>3, <2>2 DEF registerNode, patchNode, Fails, api
  <2>3. CASE updatePodStatus(j) \/ patchPod(j) \/ createPod(j) \/ deletePod(j)
    BY Zenon, <1>2, <2>3 DEF updatePodStatus, patchPod, createPod, deletePod, Fails, api
  <2>4. CASE createOrUpdateLease(j) \/ queryLease(j)
    BY Zenon, <1>2, <2>4 DEF createOrUpdateLease, queryLease, Fails, api
  <2> QED BY Zenon, <1>6, <2>1, <2>2, <2>3, <2>4 DEF Serve
<1>7. CASE OtherWrites
  BY Zenon, <1>4, <1>7 DEF OtherWrites
<1>8. CASE UserCreates \/ UserDeletes \/ CacheFollows \/ dispatchMessage \/ \E k \in Chans : Take(k)
  BY Zenon, <1>2, <1>8 DEF UserCreates, UserDeletes, CacheFollows, dispatchMessage, Take, api
<1>9. CASE \/ \E c \in Clients : Late(c)
           \/ \E answer \in down : Answered(answer)
           \/ Deleted \/ Pushed \/ Runs
  BY Zenon, <1>2, <1>9 DEF Late, Answered, Deleted, Pushed, Runs, api
<1>10. CASE pods_Patch \/ podStatus_Update \/ pods_Delete \/ pods_Create \/ leases_Call \/ nodes_Call
  BY Zenon, <1>2, <1>10
     DEF pods_Patch, podStatus_Update, pods_Delete, pods_Create, leases_Call, nodes_Call, api
<1> QED BY Zenon, <1>6, <1>7, <1>8, <1>9, <1>10 DEF Next

\* No worker takes back what it does not know of: deletePod removes no pod but the one the edge
\* named, and what others wrote to the node survives updateNode and updateNodeStatus, which
\* write back a copy they read before.
THEOREM OthersAreKept == ASSUME Constants PROVE Spec => OthersKept
<1> DEFINE Kept ==
      /\ \A j \in jobs : deletePod(j) /\ pod # None /\ pod' = None => pod.uid = j.msg.body.uid
      /\ node # None /\ node' # None => node'.foreign >= node.foreign
<1>1. ASSUME NEW j \in jobs, deletePod(j), pod # None, pod' = None
      PROVE  pod.uid = j.msg.body.uid
  BY Zenon, <1>1 DEF deletePod, Precondition, Fails, api
<1>2. IInv /\ [Next]_vars => [Kept]_vars
  BY Zenon, <1>1, NodeKept
<1>3. Spec => [][Kept]_vars
  BY <1>2, AlwaysIInv, PTL DEF Spec
<1> QED BY Zenon, <1>3 DEF OthersKept
=============================================================================
