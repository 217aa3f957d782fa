--------------------------- MODULE NodeUpgradeProofs ---------------------------
(***************************************************************************)
(* A node whose status says Completed was answered for, with any number of *)
(* nodes, workers, messages, failing calls and restarts.                   *)
(*                                                                         *)
(* A status patch replaces the list of all nodes by one made from a copy   *)
(* of the job, which may be old: a patch can bring back the status of other*)
(* nodes as they were earlier.  The argument is therefore about every copy *)
(* of the job there is: in the API server, on its way to the informer, in  *)
(* UpgradeMap and with the upstream workers (Fits, Good).  What is answered*)
(* stays answered, as history IDs are not used again (Steady).             *)
(*                                                                         *)
(* The second part is about Concurrency, by another invariant (CInv): a    *)
(* node that is asked is among the first Concurrency names of the list the *)
(* job was given, and the list is made again only after a restart.         *)
(***************************************************************************)
EXTENDS NodeUpgrade, TLAPS, FiniteSetTheorems

\* Request h was sent to n, and the edge answered it or its timeout fired.
Answered(h, n) == h \in 1 .. Len(sent) /\ sent[h] = n /\ ~(h \in timers /\ h \in pending)

\* A copy of the job says Completed of nodes that were answered for.
Fits(j) ==
  /\ DOMAIN j.status = Nodes
  /\ \A n \in Nodes : j.status[n].state = "completed" => Answered(j.status[n].hid, n)

Good(j) == j # NoJob => Fits(j)

\* The messages sent, and those that are open.
SentOK ==
  /\ \E S : sent \in Seq(S)
  /\ timers \subseteq 1 .. Len(sent) /\ pending \subseteq 1 .. Len(sent)

\* The copies of the job, and the answers on their way to it.
CopiesOK == Good(job) /\ Good(upgrades)
EventsOK == \E S : events \in Seq(S) /\ \A j \in S : Good(j)
ChanOK == \A m \in chan : Answered(m.hid, sent[m.hid])
WorkersOK ==
  /\ DOMAIN ups = Workers
  /\ \A w \in Workers : ups[w].pc = "patch" =>
       Fits(ups[w].old) /\ Answered(ups[w].hid, ups[w].node)

\* The inductive invariant.
IInv == SentOK /\ CopiesOK /\ EventsOK /\ ChanOK /\ WorkersOK

-----------------------------------------------------------------------------
(* What is answered stays answered.                                        *)

Steady == \A h, n : Answered(h, n) => Answered(h, n)'

\* The steps that send nothing.
LEMMA SteadyStep ==
  ASSUME IInv, sent' = sent, timers' \subseteq timers, pending' \subseteq pending
  PROVE  Steady /\ SentOK'
  BY Zenon DEF Steady, Answered, IInv, SentOK

LEMMA FitsStays == ASSUME Steady, NEW j, Fits(j) PROVE Fits(j)'
  BY Zenon DEF Steady, Fits

LEMMA GoodStays == ASSUME Steady, NEW j, Good(j) PROVE Good(j)'
  BY Zenon, FitsStays DEF Good

\* Copies of the job that are not touched.
LEMMA CopiesStay == ASSUME IInv, Steady, UNCHANGED <<job, upgrades>> PROVE CopiesOK'
  BY Zenon, GoodStays DEF IInv, CopiesOK

LEMMA EventsStay == ASSUME IInv, Steady, events' = events PROVE EventsOK'
<1>1. PICK S : events \in Seq(S) /\ \A j \in S : Good(j)
  BY Zenon DEF IInv, EventsOK
<1>2. \A j \in S : Good(j)'
  BY Zenon, <1>1, GoodStays
<1> QED BY Zenon, <1>1, <1>2 DEF EventsOK

LEMMA ChanStays ==
  ASSUME IInv, Steady, sent' = sent, chan' \subseteq chan
  PROVE  ChanOK'
  BY Zenon DEF IInv, ChanOK, Steady

LEMMA WorkersStay == ASSUME IInv, Steady, ups' = ups PROVE WorkersOK'
<1>1. \A w \in Workers : ups[w].pc = "patch" => Fits(ups[w].old)'
  BY Zenon, FitsStays DEF IInv, WorkersOK
<1> QED BY Zenon, <1>1 DEF IInv, WorkersOK, Steady

\* A worker goes on to u.
LEMMA WorkerMoves ==
  ASSUME IInv, Steady, NEW w \in Workers, NEW u, ups' = [ups EXCEPT ![w] = u],
         u.pc = "patch" => Fits(u.old)' /\ Answered(u.hid, u.node)'
  PROVE  WorkersOK'
<1>1. DOMAIN ups' = Workers
  BY Zenon DEF IInv, WorkersOK
<1>2. \A v \in Workers : ups'[v] = IF v = w THEN u ELSE ups[v]
  BY Zenon DEF IInv, WorkersOK
<1>3. ASSUME NEW v \in Workers, ups'[v].pc = "patch"
      PROVE  (Fits(ups[v].old) /\ Answered(ups[v].hid, ups[v].node))'
  <2>1. CASE v = w
    BY Zenon, <1>2, <1>3, <2>1
  <2>2. CASE v # w
    <3>1. ups'[v] = ups[v] /\ Fits(ups[v].old) /\ Answered(ups[v].hid, ups[v].node)
      BY Zenon, <1>2, <1>3, <2>2 DEF IInv, WorkersOK
    <3> QED BY Zenon, <3>1, FitsStays DEF Steady
  <2> QED BY Zenon, <2>1, <2>2
<1> QED BY Zenon, <1>1, <1>3 DEF WorkersOK

\* A step that leaves everything but the selection and the nodes alone.
LEMMA RestKeeps ==
  ASSUME IInv, UNCHANGED <<job, events, upgrades, sent, timers, pending, chan, ups>>
  PROVE  IInv'
<1>1. Steady /\ SentOK'
  BY Zenon, SteadyStep
<1> QED BY Zenon, <1>1, CopiesStay, EventsStay, ChanStays, WorkersStay DEF IInv

-----------------------------------------------------------------------------
(* The steps.                                                              *)

\* A patch made from a copy that fits, however old, leaves a job that fits.
LEMMA PatchedGood ==
  ASSUME Good(job), NEW old, Fits(old), NEW n, NEW s, s.state = "completed" => Answered(s.hid, n)
  PROVE  Good(Patched(old, n, s))
<1> DEFINE status == [old.status EXCEPT ![n] = s]
           p == Patched(old, n, s)
<1>1. DOMAIN status = Nodes /\ \A m \in Nodes : status[m] = IF m = n THEN s ELSE old.status[m]
  BY Zenon DEF Fits
<1>2. \A m \in Nodes : status[m].state = "completed" => Answered(status[m].hid, m)
  BY Zenon, <1>1 DEF Fits
<1>3. NewValue(old, n, s).status = status
  BY Zenon DEF NewValue
<1>4. job # NoJob => p.status = job.status \/ p.status = status
  BY Zenon, <1>3 DEF Patched
<1>5. job = NoJob => p = NoJob
  BY Zenon DEF Patched
<1> HIDE DEF status, p
<1>6. job # NoJob => Fits(p)
  BY Zenon, <1>1, <1>2, <1>4 DEF Good, Fits
<1> QED BY Zenon, <1>5, <1>6 DEF Good, p

\* The API server stores a good job.
LEMMA JobSet ==
  ASSUME IInv, Steady, NEW j, Good(j), SetJob(j), upgrades' = upgrades
  PROVE  CopiesOK' /\ EventsOK'
<1>1. CopiesOK'
  BY Zenon, GoodStays DEF SetJob, IInv, CopiesOK
<1>2. CASE events' = events
  BY Zenon, <1>1, <1>2, EventsStay
<1>3. CASE events' = Append(events, j)
  <2>1. PICK S : events \in Seq(S) /\ \A i \in S : Good(i)
    BY Zenon DEF IInv, EventsOK
  <2>2. events' \in Seq(S \cup {j})
    BY <1>3, <2>1
  <2>3. \A i \in S \cup {j} : Good(i)'
    BY Zenon, <2>1, GoodStays
  <2> QED BY Zenon, <1>1, <2>2, <2>3 DEF EventsOK
<1> QED BY Zenon, <1>2, <1>3 DEF SetJob

LEMMA SyncKeeps == ASSUME IInv, syncNodeUpgradeJob PROVE IInv'
<1>1. UNCHANGED <<job, sent, timers, pending, chan, ups>> /\ events # << >> /\ events' = Tail(events)
  BY Zenon DEF syncNodeUpgradeJob
<1>2. Steady /\ SentOK'
  BY Zenon, <1>1, SteadyStep
<1>3. PICK S : events \in Seq(S) /\ \A j \in S : Good(j)
  BY Zenon DEF IInv, EventsOK
<1>4. Head(events) \in S /\ Tail(events) \in Seq(S)
  BY <1>1, <1>3
<1>5. upgrades' = NoJob \/ upgrades' = Head(events)
  BY Zenon DEF syncNodeUpgradeJob, nodeUpgradeJobDeleted, nodeUpgradeJobAdded,
     nodeUpgradeJobUpdated
<1>6. Good(upgrades')
  BY Zenon, <1>3, <1>4, <1>5 DEF Good
<1>7. CopiesOK'
  <2>1. PICK u : u = upgrades' /\ Good(u)
    BY Zenon, <1>6
  <2>2. Good(u)' /\ Good(job)'
    BY Zenon, <1>1, <1>2, <2>1, GoodStays DEF IInv, CopiesOK
  <2> QED BY Zenon, <2>1, <2>2 DEF CopiesOK
<1>8. EventsOK'
  BY Zenon, <1>1, <1>2, <1>3, <1>4, GoodStays DEF EventsOK
<1> QED BY Zenon, <1>1, <1>2, <1>7, <1>8, ChanStays, WorkersStay DEF IInv

LEMMA SelectKeeps == ASSUME IInv, SelectStep \/ Take \/ Cordon PROVE IInv'
<1>1. UNCHANGED <<job, events, upgrades, sent, timers, pending, chan, ups>>
  BY Zenon DEF SelectStep, Poll, Put, PutDone, PollTimeout, Take, Cordon, jobVars
<1> QED BY Zenon, <1>1, RestKeeps

\* A new message has a history ID of its own.
LEMMA SendKeeps == ASSUME IInv, Send PROVE IInv'
<1>1. UNCHANGED <<job, events, upgrades, chan, ups>>
  BY Zenon DEF Send, jobVars
<1>2. CASE UNCHANGED <<sent, timers, pending>>
  BY Zenon, <1>1, <1>2, RestKeeps
<1>3. CASE /\ sent' = Append(sent, work.node)
           /\ timers' = timers \cup {Len(sent) + 1} /\ pending' = pending \cup {Len(sent) + 1}
  <2>1. PICK S : sent \in Seq(S)
    BY Zenon DEF IInv, SentOK
  <2>2. /\ sent' \in Seq(S \cup {work.node}) /\ Len(sent') = Len(sent) + 1 /\ Len(sent) \in Nat
        /\ \A h \in 1 .. Len(sent) : sent'[h] = sent[h]
    BY <1>3, <2>1
  <2>3. Steady
    BY <1>3, <2>2 DEF Steady, Answered
  <2>4. timers' \subseteq 1 .. Len(sent') /\ pending' \subseteq 1 .. Len(sent')
    <3>1. timers \subseteq 1 .. Len(sent) /\ pending \subseteq 1 .. Len(sent)
      BY Zenon DEF IInv, SentOK
    <3>2. 1 .. Len(sent) \subseteq 1 .. Len(sent') /\ Len(sent) + 1 \in 1 .. Len(sent')
      BY <2>2
    <3> QED BY Zenon, <1>3, <3>1, <3>2
  <2>5. SentOK'
    BY Zenon, <2>2, <2>4 DEF SentOK
  <2>6. ChanOK'
    BY Zenon, <1>1, <2>2, <2>3 DEF IInv, ChanOK, Answered, Steady
  <2> QED BY Zenon, <1>1, <2>3, <2>5, <2>6, CopiesStay, EventsStay, WorkersStay DEF IInv
<1> QED BY Zenon, <1>2, <1>3 DEF Send

LEMMA NewJobFits == Fits(NewJob)
  BY Zenon DEF Fits, NewJob, NoStatus

LEMMA MarkKeeps == ASSUME IInv, Mark PROVE IInv'
<1>1. UNCHANGED <<upgrades, sent, timers, pending, chan, ups>>
  BY Zenon DEF Mark
<1>2. Steady /\ SentOK'
  BY Zenon, <1>1, SteadyStep
<1>3. CASE UNCHANGED <<job, events>>
  BY Zenon, <1>1, <1>3, RestKeeps
<1>4. CASE SetJob(Patched(NewJob, work.node, [state |-> "upgrading", hid |-> work.hid]))
  <2>1. PICK s : s = [state |-> "upgrading", hid |-> work.hid]
    BY Zenon
  <2>2. PICK n : n = work.node
    BY Zenon
  <2>3. s.state # "completed"
    BY Zenon, <2>1
  <2>4. PICK j : j = Patched(NewJob, n, s)
    BY Zenon
  <2>5. Good(j)
    BY Zenon, <2>3, <2>4, NewJobFits, PatchedGood DEF IInv, CopiesOK
  <2>6. SetJob(j)
    BY Zenon, <1>4, <2>1, <2>2, <2>4
  <2> QED BY Zenon, <1>1, <1>2, <2>5, <2>6, JobSet, ChanStays, WorkersStay DEF IInv
<1> QED BY Zenon, <1>3, <1>4 DEF Mark

LEMMA TimerKeeps == ASSUME IInv, NEW h, Timer(h) \/ EdgeAnswers(h) PROVE IInv'
<1>1. /\ UNCHANGED <<job, events, upgrades, sent, ups>>
      /\ timers' \subseteq timers /\ pending' \subseteq pending
  BY Zenon DEF Timer, TimerStops, TimerFires, EdgeAnswers, jobVars
<1>2. Steady /\ SentOK'
  BY Zenon, <1>1, SteadyStep
<1>3. CASE chan' = chan
  BY Zenon, <1>1, <1>2, <1>3, CopiesStay, EventsStay, ChanStays, WorkersStay DEF IInv
<1>4. ASSUME NEW m, chan' = chan \cup {m}, m.hid = h, h \in timers \cup pending,
             ~(h \in timers' /\ h \in pending')
      PROVE  IInv'
  <2>1. h \in 1 .. Len(sent)
    BY Zenon, <1>4 DEF IInv, SentOK
  <2>2. \A x \in chan : Answered(x.hid, sent[x.hid])'
    BY Zenon, <1>1, <1>2 DEF IInv, ChanOK, Steady, Answered
  <2>3. Answered(m.hid, sent[m.hid])'
    BY Zenon, <1>1, <1>4, <2>1 DEF Answered
  <2>4. ChanOK'
    BY Zenon, <1>4, <2>2, <2>3 DEF ChanOK
  <2> QED BY Zenon, <1>1, <1>2, <2>4, CopiesStay, EventsStay, WorkersStay DEF IInv
<1>5. CASE TimerFires(h)
  <2>1. PICK m : m = [hid |-> h, from |-> "timer"]
    BY Zenon
  <2> QED BY <1>4, <1>5, <2>1 DEF TimerFires
<1>6. CASE EdgeAnswers(h)
  <2>1. PICK m : m = [hid |-> h, from |-> "edge"]
    BY Zenon
  <2> QED BY <1>4, <1>6, <2>1 DEF EdgeAnswers
<1>7. CASE TimerStops(h)
  BY Zenon, <1>3, <1>7 DEF TimerStops
<1> QED BY Zenon, <1>5, <1>6, <1>7 DEF Timer

LEMMA LoadKeeps == ASSUME IInv, NEW w \in Workers, UpLoad(w) PROVE IInv'
<1>1. UNCHANGED <<job, events, upgrades, sent, timers, pending>>
  BY Zenon DEF UpLoad, jobVars, downVars
<1>2. Steady /\ SentOK'
  BY Zenon, <1>1, SteadyStep
<1>3. PICK m \in chan :
        /\ chan' = chan \ {m}
        /\ ups' = [ups EXCEPT ![w] =
             IF upgrades = NoJob THEN Idle
             ELSE [pc |-> "patch", node |-> sent[m.hid], hid |-> m.hid, old |-> upgrades]]
  BY Zenon DEF UpLoad
<1>4. ChanOK'
  BY Zenon, <1>1, <1>2, <1>3, ChanStays
<1>5. PICK u : u = IF upgrades = NoJob THEN Idle
                   ELSE [pc |-> "patch", node |-> sent[m.hid], hid |-> m.hid, old |-> upgrades]
  BY Zenon
<1>6. ups' = [ups EXCEPT ![w] = u]
  BY Zenon, <1>3, <1>5
<1>7. u.pc = "patch" => u.old = upgrades /\ upgrades # NoJob /\ u.hid = m.hid /\ u.node = sent[m.hid]
  BY Zenon, <1>5 DEF Idle
<1>8. u.pc = "patch" => Fits(u.old) /\ Answered(u.hid, u.node)
  BY Zenon, <1>7 DEF IInv, CopiesOK, Good, ChanOK
<1>9. u.pc = "patch" => Fits(u.old)' /\ Answered(u.hid, u.node)'
  BY Zenon, <1>2, <1>8, FitsStays DEF Steady
<1>10. WorkersOK'
  BY Zenon, <1>2, <1>6, <1>9, WorkerMoves
<1> QED BY Zenon, <1>1, <1>2, <1>4, <1>10, CopiesStay, EventsStay DEF IInv

LEMMA UpPatchKeeps == ASSUME IInv, NEW w \in Workers, UpPatch(w) PROVE IInv'
<1>1. UNCHANGED <<upgrades, sent, timers, pending, chan>> /\ ups[w].pc = "patch"
  BY Zenon DEF UpPatch, downVars
<1>2. Steady /\ SentOK'
  BY Zenon, <1>1, SteadyStep
<1>3. WorkersOK'
  <2>1. PICK u : u = [pc |-> "node", node |-> ups[w].node]
    BY Zenon
  <2>2. u.pc # "patch" /\ ups' = [ups EXCEPT ![w] = u]
    BY Zenon, <2>1 DEF UpPatch
  <2> QED BY Zenon, <1>2, <2>2, WorkerMoves
<1>4. ChanOK'
  BY Zenon, <1>1, <1>2, ChanStays
<1>5. CASE UNCHANGED <<job, events>>
  BY Zenon, <1>1, <1>2, <1>3, <1>4, <1>5, CopiesStay, EventsStay DEF IInv
<1>6. CASE SetJob(Patched(ups[w].old, ups[w].node, [state |-> "completed", hid |-> ups[w].hid]))
  <2>1. PICK old, n, s : /\ old = ups[w].old /\ n = ups[w].node
                         /\ s = [state |-> "completed", hid |-> ups[w].hid]
    BY Zenon
  <2>2. Fits(old) /\ Answered(s.hid, n)
    BY Zenon, <1>1, <2>1 DEF IInv, WorkersOK
  <2>3. PICK j : j = Patched(old, n, s)
    BY Zenon
  <2>4. Good(j)
    BY Zenon, <2>2, <2>3, PatchedGood DEF IInv, CopiesOK
  <2>5. SetJob(j)
    BY Zenon, <1>6, <2>1, <2>3
  <2> QED BY Zenon, <1>1, <1>2, <1>3, <1>4, <2>4, <2>5, JobSet DEF IInv
<1> QED BY Zenon, <1>5, <1>6 DEF UpPatch

LEMMA UpNodeKeeps == ASSUME IInv, NEW w \in Workers, UpNode(w) PROVE IInv'
<1>1. UNCHANGED <<job, events, upgrades, sent, timers, pending, chan>>
  BY Zenon DEF UpNode, jobVars, downVars
<1>2. Steady /\ SentOK'
  BY Zenon, <1>1, SteadyStep
<1>3. Idle.pc # "patch" /\ ups' = [ups EXCEPT ![w] = Idle]
  BY Zenon DEF UpNode, Idle
<1>4. WorkersOK'
  BY Zenon, <1>2, <1>3, WorkerMoves
<1> QED BY Zenon, <1>1, <1>2, <1>4, CopiesStay, EventsStay, ChanStays DEF IInv

LEMMA DeleteKeeps == ASSUME IInv, DeleteJob PROVE IInv'
<1>1. UNCHANGED <<upgrades, sent, timers, pending, chan, ups>> /\ SetJob(NoJob) /\ Good(NoJob)
  BY Zenon DEF DeleteJob, downVars, Good
<1>2. Steady /\ SentOK'
  BY Zenon, <1>1, SteadyStep
<1> QED BY Zenon, <1>1, <1>2, JobSet, ChanStays, WorkersStay DEF IInv

\* A restart forgets the copies, the timers and the answers; what was answered is not undone.
LEMMA RestartKeeps == ASSUME IInv, Restart PROVE IInv'
<1>1. /\ UNCHANGED <<job, sent, pending>> /\ timers' = {} /\ chan' = {} /\ upgrades' = NoJob
      /\ ups' = [w \in Workers |-> Idle] /\ events' = IF job = NoJob THEN << >> ELSE <<job>>
  BY Zenon DEF Restart
<1>2. Steady /\ SentOK'
  BY Zenon, <1>1, SteadyStep
<1>3. Good(job)'
  BY Zenon, <1>1, <1>2, GoodStays DEF IInv, CopiesOK
<1>4. CopiesOK'
  BY Zenon, <1>1, <1>3 DEF CopiesOK, Good
<1>5. EventsOK'
  <2>1. events' \in Seq({job})
    <3>1. PICK j : j = job
      BY Zenon
    <3>2. << >> \in Seq({j}) /\ <<j>> \in Seq({j})
      OBVIOUS
    <3> QED BY <1>1, <3>1, <3>2, Zenon
  <2>2. \A j \in {job} : Good(j)'
    BY Zenon, <1>1, <1>2, GoodStays DEF IInv, CopiesOK
  <2> QED BY <2>1, <2>2 DEF EventsOK
<1>6. ChanOK' /\ WorkersOK'
  BY Zenon, <1>1 DEF ChanOK, WorkersOK, Idle
<1> QED BY Zenon, <1>2, <1>4, <1>5, <1>6 DEF IInv

LEMMA InitIInv == ASSUME Init PROVE IInv
<1>1. SentOK
  BY DEF Init, SentOK
<1>2. CopiesOK
  BY Zenon, NewJobFits DEF Init, CopiesOK, Good
<1>3. EventsOK
  <2>1. events \in Seq({NewJob})
    BY DEF Init
  <2>2. \A j \in {NewJob} : Good(j)
    BY Zenon, NewJobFits DEF Good
  <2> QED BY <2>1, <2>2 DEF EventsOK
<1>4. ChanOK /\ WorkersOK
  BY Zenon DEF Init, ChanOK, WorkersOK, Idle
<1> QED BY Zenon, <1>1, <1>2, <1>3, <1>4 DEF IInv

LEMMA NextIInv == ASSUME IInv, [Next]_vars PROVE IInv'
<1>1. CASE UNCHANGED vars
  BY Zenon, <1>1, RestKeeps DEF vars
<1>2. CASE Next
  BY Zenon, <1>2, SyncKeeps, SelectKeeps, SendKeeps, MarkKeeps, TimerKeeps, LoadKeeps,
     UpPatchKeeps,
     UpNodeKeeps, DeleteKeeps, RestartKeeps DEF Next, WorkStep, UpStep
<1> QED BY Zenon, <1>1, <1>2

\* The status of a node says Completed only after the edge answered that very request or its
\* timeout fired: no interleaving of the workers of updateNodeUpgradeJobStatus, processUpgrade and
\* the timeouts, whose patches replace the whole list of statuses, makes up a Completed, across
\* failing calls, deletion of the job and restarts of cloudcore.
THEOREM CompletedIsAnswered == Spec => []CompletedWasAnswered
<1>1. IInv => CompletedWasAnswered
  BY Zenon DEF IInv, CopiesOK, Good, Fits, Answered, CompletedWasAnswered
<1>2. Init => IInv
  BY Zenon, InitIInv
<1>3. IInv /\ [Next]_vars => IInv'
  BY Zenon, NextIInv
<1> QED BY <1>1, <1>2, <1>3, PTL DEF Spec

-----------------------------------------------------------------------------
(* How many nodes are upgraded at a time.                                  *)
(*                                                                         *)
(* selectConcurrentNodes cuts its list down to what the first poll found   *)
(* room for, and polls the same list again: whatever it sends comes from   *)
(* the first Concurrency names.  The list is made again only when the job  *)
(* is added again, that is after a restart, and then only if the job is    *)
(* not marked; a node is cordoned after the job is marked, so the new list *)
(* is the old one, unless the patch that marks the job was lost.           *)

Constants == Concurrency \in Nat /\ \E S : NodeNames \in Seq(S)

\* No restart, or no lost call, so far.
Calm == restarts = 0 \/ failures = 0

\* The list made while no node is cordoned, and the names that are taken from it.
Chosen == RemoveDuplicateElement({i \in 1 .. Len(NodeNames) : NodeNames[i] \in Eligible})
Taken == {Chosen[i] : i \in (1 .. concurrency) \cap (1 .. Len(Chosen))}

CountsOK == restarts \in Nat /\ failures \in Nat

\* The nodes, and the records of the two goroutines.
RecordsOK ==
  /\ DOMAIN node = Nodes
  /\ \E p, i, k, a : select = [pc |-> p, i |-> i, k |-> k, allNodes |-> a]
  /\ work.pc = "mark" => \E n, h : work = [pc |-> "mark", node |-> n, hid |-> h]

\* The deletion of the job is the last thing the informer reports of it.
DeletedLast ==
  /\ \E S : events \in Seq(S)
  /\ \A i \in 1 .. Len(events) : events[i] = NoJob => i = Len(events) /\ job = NoJob
  /\ (events = << >> /\ upgrades = NoJob) => job = NoJob

\* The job is about to be added: then nothing runs yet, and no node is cordoned unless
\* the job is marked.
Fresh == upgrades = NoJob /\ events # << >> /\ Head(events) # NoJob
FreshOK ==
  Fresh => /\ select = Off /\ nodesChan = << >> /\ work = Idle
           /\ \A w \in Workers : ups[w].pc = "idle"
           /\ (Calm /\ ~isCompleted(Head(events))) => \A n \in Nodes : ~node[n]

\* A node is cordoned after the job is marked.
MarkedOK ==
  (failures = 0 /\ (work.pc = "cordon" \/ \E n \in Nodes : node[n])) =>
    job = NoJob \/ job.state # "none"

\* The selection works on a prefix of the list.
SelectOK ==
  (Calm /\ select.pc \in {"wait", "put"}) =>
    /\ \E S : select.allNodes \in Seq(S)
    /\ Len(select.allNodes) <= Len(Chosen)
    /\ \A i \in 1 .. Len(select.allNodes) : select.allNodes[i] = Chosen[i]
    /\ select.pc = "put" => /\ select.i \in 1 .. Len(select.allNodes) + 1
                            /\ select.k \in 1 .. concurrency

\* Whatever is on its way to a node, or was sent to one, is one of the names taken.
TakenOK ==
  Calm => /\ nodesChan \in Seq(Taken) /\ sent \in Seq(Taken)
          /\ work.pc \in {"send", "mark", "cordon"} => work.node \in Taken

\* The inductive invariant.
CInv == CountsOK /\ RecordsOK /\ DeletedLast /\ FreshOK /\ MarkedOK /\ SelectOK /\ TakenOK

-----------------------------------------------------------------------------
(* The lists of names.                                                     *)

LEMMA ValuesOf ==
  ASSUME NEW D, IsFiniteSet(D), NEW f
  PROVE  IsFiniteSet({f[x] : x \in D}) /\ Cardinality({f[x] : x \in D}) <= Cardinality(D)
<1> DEFINE g == [x \in D |-> f[x]]
           T == {f[x] : x \in D}
<1>1. g \in Surjection(D, T)
  BY Zenon DEF Surjection
<1> QED BY Zenon, <1>1, FS_Surjection

LEMMA FunctionIsSeq == ASSUME NEW n \in Nat, NEW S, NEW g \in [1 .. n -> S] PROVE g \in Seq(S)
  OBVIOUS

LEMMA Sizes == ASSUME Constants PROVE concurrency \in Nat \ {0} /\ Len(NodeNames) \in Nat
  BY DEF Constants, concurrency

LEMMA NodesFinite == ASSUME Constants PROVE IsFiniteSet(Nodes)
<1>1. IsFiniteSet(1 .. Len(NodeNames))
  BY Sizes, FS_Interval
<1> QED BY Zenon, <1>1, ValuesOf DEF Nodes

LEMMA ListIsSeq ==
  ASSUME Constants, NEW I, I \subseteq 1 .. Len(NodeNames)
  PROVE  \E S : RemoveDuplicateElement(I) \in Seq(S)
<1> DEFINE first == {i \in I : \A j \in I : j < i => NodeNames[j] # NodeNames[i]}
           n == Cardinality(first)
           at(k) == NodeNames[CHOOSE i \in first : Cardinality({j \in first : j <= i}) = k]
           S == {at(k) : k \in 1 .. n}
           g == [k \in 1 .. n |-> at(k)]
<1>1. n \in Nat
  <2>1. IsFiniteSet(1 .. Len(NodeNames))
    BY Sizes, FS_Interval
  <2>2. first \in SUBSET (1 .. Len(NodeNames))
    BY Zenon
  <2> HIDE DEF first
  <2> QED BY Zenon, <2>1, <2>2, FS_Subset, FS_CardinalityType
<1>2. RemoveDuplicateElement(I) = g
  BY Zenon DEF RemoveDuplicateElement
<1> HIDE DEF at, n
<1>3. g \in [1 .. n -> S]
  BY Zenon
<1> HIDE DEF g, S
<1>4. g \in Seq(S)
  BY Zenon, <1>1, <1>3, FunctionIsSeq
<1> QED BY Zenon, <1>2, <1>4

LEMMA ChosenIsSeq == ASSUME Constants PROVE (\E S : Chosen \in Seq(S)) /\ Len(Chosen) \in Nat
<1>1. \E S : Chosen \in Seq(S)
  BY Zenon, ListIsSeq DEF Chosen
<1> QED BY <1>1

\* While no node is cordoned, the list is the same.
LEMMA SameList ==
  ASSUME \A n \in Nodes : ~node[n]
  PROVE  RemoveDuplicateElement({i \in 1 .. Len(NodeNames) : needUpgrade(NodeNames[i])}) = Chosen
<1>1. \A i \in 1 .. Len(NodeNames) : NodeNames[i] \in Nodes
  BY Zenon DEF Nodes
<1>2. {i \in 1 .. Len(NodeNames) : needUpgrade(NodeNames[i])}
        = {i \in 1 .. Len(NodeNames) : NodeNames[i] \in Eligible}
  BY Zenon, <1>1 DEF needUpgrade
<1> QED BY Zenon, <1>2 DEF Chosen

\* No more names are taken than may be upgraded at a time.
LEMMA TakenBound ==
  ASSUME Constants
  PROVE  IsFiniteSet(Taken) /\ Cardinality(Taken) <= concurrency
<1> DEFINE D == (1 .. concurrency) \cap (1 .. Len(Chosen))
<1>1. IsFiniteSet(1 .. concurrency) /\ Cardinality(1 .. concurrency) = concurrency
  BY Sizes, FS_Interval
<1>2. IsFiniteSet(D) /\ Cardinality(D) <= concurrency
  BY Zenon, <1>1, FS_Subset
<1>3. IsFiniteSet(Taken) /\ Cardinality(Taken) <= Cardinality(D)
  BY Zenon, <1>2, ValuesOf DEF Taken
<1>4. Cardinality(Taken) \in Nat /\ Cardinality(D) \in Nat
  BY Zenon, <1>2, <1>3, FS_CardinalityType
<1> QED BY <1>2, <1>3, <1>4, Sizes


-----------------------------------------------------------------------------
(* What the steps other than a restart have in common.                     *)

Grows == restarts' = restarts /\ (failures' = failures \/ failures' = failures + 1)

LEMMA CalmBefore == ASSUME CountsOK, Grows, Calm' PROVE Calm
  BY DEF CountsOK, Grows, Calm

\* Something runs.
Busy ==
  \/ select.pc # "off" \/ nodesChan # << >> \/ work.pc # "idle"
  \/ \E w \in Workers : ups[w].pc # "idle"

LEMMA BusyNotFresh == ASSUME FreshOK, Busy PROVE ~Fresh
  BY DEF FreshOK, Busy, Off, Idle

\* The API server stores the job, or the call fails.
MaySet == UNCHANGED <<job, events>> \/ \E j : SetJob(j) /\ (job = NoJob => j = NoJob)

LEMMA EventsGrow ==
  ASSUME DeletedLast, MaySet, upgrades' = upgrades
  PROVE  DeletedLast' /\ (Fresh' => Fresh /\ Head(events') = Head(events))
<1>1. CASE UNCHANGED <<job, events>>
  BY Zenon, <1>1 DEF DeletedLast, Fresh
<1>2. ASSUME NEW j, SetJob(j), job = NoJob => j = NoJob, j = job
      PROVE  UNCHANGED <<job, events>>
  BY Zenon, <1>2 DEF SetJob
<1>3. ASSUME NEW j, SetJob(j), job = NoJob => j = NoJob, j # job
      PROVE  DeletedLast' /\ (Fresh' => Fresh /\ Head(events') = Head(events))
  <2>1. job' = j /\ events' = Append(events, j) /\ job # NoJob
    BY Zenon, <1>3 DEF SetJob
  <2>2. PICK S : events \in Seq(S)
    BY Zenon DEF DeletedLast
  <2>3. /\ events' \in Seq(S \cup {j}) /\ Len(events') = Len(events) + 1 /\ Len(events) \in Nat
        /\ \A i \in 1 .. Len(events) : events'[i] = events[i]
        /\ events'[Len(events) + 1] = j
    BY <2>1, <2>2
  <2>4. \A i \in 1 .. Len(events) : events[i] # NoJob
    BY Zenon, <2>1 DEF DeletedLast
  <2>5. \A i \in 1 .. Len(events') : events'[i] = NoJob => i = Len(events') /\ job' = NoJob
    BY <2>1, <2>3, <2>4
  <2>6. events' # << >>
    BY <2>3
  <2>7. events # << >> => Head(events') = Head(events)
    BY <2>1, <2>2
  <2>8. Fresh' => events # << >>
    BY Zenon, <2>1 DEF DeletedLast, Fresh
  <2> QED BY Zenon, <2>3, <2>5, <2>6, <2>7, <2>8 DEF DeletedLast, Fresh
<1> QED BY Zenon, <1>1, <1>2, <1>3 DEF MaySet

\* A step of something that runs does not bring back the moment at which the job is added.
LEMMA BusyKeeps ==
  ASSUME CInv, Busy, MaySet, upgrades' = upgrades
  PROVE  DeletedLast' /\ FreshOK'
<1>1. DeletedLast' /\ ~Fresh'
  BY Zenon, EventsGrow, BusyNotFresh DEF CInv
<1> QED BY Zenon, <1>1 DEF FreshOK

\* A patch never takes the mark off the job.
LEMMA PatchedMarked ==
  ASSUME NEW old, NEW n, NEW s
  PROVE  /\ job = NoJob => Patched(old, n, s) = NoJob
         /\ (job # NoJob /\ job.state # "none") => Patched(old, n, s).state # "none"
         /\ (job # NoJob /\ old.state = "none") => Patched(old, n, s).state # "none"
<1>1. NewValue(old, n, s).state \in {"completed", "upgrading"}
  BY Zenon DEF NewValue
<1>2. job # NoJob => Patched(old, n, s).state = IF NewValue(old, n, s).state = old.state
                                                THEN job.state ELSE NewValue(old, n, s).state
  BY Zenon DEF Patched
<1>3. job = NoJob => Patched(old, n, s) = NoJob
  BY Zenon DEF Patched
<1> QED BY Zenon, <1>1, <1>2, <1>3

\* Steps that leave the nodes and the calls alone.
LEMMA MarkedStays ==
  ASSUME MarkedOK, UNCHANGED <<job, node, failures>>, work'.pc = "cordon" => work.pc = "cordon"
  PROVE  MarkedOK'
  BY Zenon DEF MarkedOK

LEMMA SelectStays == ASSUME CInv, Grows, select' = select PROVE SelectOK'
  BY Zenon, CalmBefore DEF CInv, SelectOK


-----------------------------------------------------------------------------
(* The steps.                                                              *)

\* A step of the timers, of the edge or of an upstream worker that leaves the job alone.
LEMMA AsideKeeps ==
  ASSUME CInv, UNCHANGED <<job, events, upgrades, select, nodesChan, work, sent, node, failures,
                           restarts>>,
         Fresh => \A w \in Workers : ups'[w].pc = "idle"
  PROVE  CInv'
<1>1. Grows
  BY Zenon DEF Grows
<1>2. CountsOK' /\ RecordsOK' /\ DeletedLast'
  BY Zenon DEF CInv, CountsOK, RecordsOK, DeletedLast
<1>3. FreshOK'
  BY Zenon DEF CInv, FreshOK, Fresh, Calm, isCompleted
<1>4. MarkedOK'
  BY Zenon, MarkedStays DEF CInv
<1>5. TakenOK'
  BY Zenon, <1>1, CalmBefore DEF CInv, TakenOK
<1> QED BY Zenon, <1>1, <1>2, <1>3, <1>4, <1>5, SelectStays DEF CInv

LEMMA TailFacts ==
  ASSUME NEW S, NEW s \in Seq(S), s # << >>
  PROVE  /\ Tail(s) \in Seq(S) /\ Len(Tail(s)) = Len(s) - 1 /\ Len(s) \in Nat \ {0}
         /\ Head(s) = s[1] /\ \A i \in 1 .. Len(s) - 1 : Tail(s)[i] = s[i + 1]
         /\ Len(s) = 1 => Tail(s) = << >>
<1>1. /\ Tail(s) \in Seq(S) /\ Len(Tail(s)) = Len(s) - 1 /\ Len(s) \in Nat \ {0} /\ Head(s) = s[1]
  OBVIOUS
<1>2. \A i \in 1 .. Len(s) - 1 : Tail(s)[i] = s[i + 1]
  OBVIOUS
<1>3. \A t \in Seq(S) : Len(t) = 0 => t = << >>
  OBVIOUS
<1> QED BY <1>1, <1>2, <1>3

LEMMA AddedKeeps ==
  ASSUME Constants, CInv, syncNodeUpgradeJob, upgrades = NoJob, Head(events) # NoJob
  PROVE  SelectOK'
<1>1. Fresh /\ UNCHANGED <<failures, restarts>>
  BY Zenon DEF syncNodeUpgradeJob, Fresh
<1>2. select = Off
  BY Zenon, <1>1 DEF CInv, FreshOK
<1>3. CASE isCompleted(Head(events))
  <2>1. select'.pc = "off"
    BY <1>2, <1>3 DEF syncNodeUpgradeJob, nodeUpgradeJobAdded, Off
  <2> QED BY Zenon, <2>1 DEF SelectOK
<1>4. CASE ~isCompleted(Head(events)) /\ Calm
  <2>1. \A n \in Nodes : ~node[n]
    BY Zenon, <1>1, <1>4 DEF CInv, FreshOK
  <2>2. select'.pc = "wait" /\ select'.allNodes = Chosen
    BY <1>4, <2>1, SameList DEF syncNodeUpgradeJob, nodeUpgradeJobAdded
  <2> QED BY <2>2, ChosenIsSeq DEF SelectOK
<1>5. CASE ~Calm
  BY Zenon, <1>1, <1>5 DEF SelectOK, Calm
<1> QED BY Zenon, <1>3, <1>4, <1>5

LEMMA SyncCalm == ASSUME Constants, CInv, syncNodeUpgradeJob PROVE CInv'
<1>1. /\ UNCHANGED <<job, nodesChan, work, sent, node, failures, restarts, ups>>
      /\ events # << >> /\ events' = Tail(events) /\ Grows
  BY Zenon DEF syncNodeUpgradeJob, Grows
<1>2. PICK S : events \in Seq(S)
  BY Zenon DEF CInv, DeletedLast
<1>3. PICK t, n : /\ events' = t /\ t \in Seq(S) /\ Len(t) = n - 1 /\ Len(events) = n
                  /\ n \in Nat \ {0} /\ Head(events) = events[1]
                  /\ \A i \in 1 .. n - 1 : t[i] = events[i + 1]
                  /\ n = 1 => t = << >>
  BY Zenon, <1>1, <1>2, TailFacts
<1>4. CountsOK' /\ RecordsOK' /\ MarkedOK' /\ TakenOK'
  <2>1. RecordsOK'
    <3>1. CASE select' = select
      BY Zenon, <1>1, <3>1 DEF CInv, RecordsOK
    <3>2. CASE \E a : select' = [pc |-> "wait", i |-> 0, k |-> 0, allNodes |-> a]
      BY Zenon, <1>1, <3>2 DEF CInv, RecordsOK
    <3> QED BY Zenon, <3>1, <3>2
     DEF syncNodeUpgradeJob, nodeUpgradeJobDeleted, nodeUpgradeJobAdded,
                              nodeUpgradeJobUpdated
  <2> QED BY Zenon, <1>1, <2>1, CalmBefore, MarkedStays DEF CInv, CountsOK, TakenOK
<1>0. \A i \in 1 .. Len(events) : events[i] = NoJob => i = Len(events) /\ job = NoJob
  BY Zenon DEF CInv, DeletedLast
<1>5. \A i \in 1 .. Len(t) : t[i] = NoJob => i = Len(t) /\ job = NoJob
  <2>1. ASSUME NEW i \in 1 .. n - 1, t[i] = NoJob
        PROVE  i = n - 1 /\ job = NoJob
    <3>1. i + 1 \in 1 .. n /\ events[i + 1] = NoJob
      BY <1>3, <2>1
    <3>2. i + 1 = n /\ job = NoJob
      BY Zenon, <1>0, <1>3, <3>1
    <3> QED BY <1>3, <3>2
  <2> QED BY Zenon, <1>3, <2>1
<1>6. upgrades' = Head(events)
  BY Zenon DEF syncNodeUpgradeJob, nodeUpgradeJobDeleted, nodeUpgradeJobAdded,
     nodeUpgradeJobUpdated
<1>7. upgrades' = NoJob => t = << >> /\ job = NoJob
  <2>1. 1 \in 1 .. n
    BY <1>3
  <2>2. upgrades' = NoJob => n = 1 /\ job = NoJob
    BY Zenon, <1>0, <1>3, <1>6, <2>1
  <2> QED BY Zenon, <1>3, <2>2
<1>8. DeletedLast' /\ ~Fresh'
  BY Zenon, <1>1, <1>3, <1>5, <1>7 DEF DeletedLast, Fresh
<1>9. SelectOK'
  <2>1. CASE select' = select
    BY Zenon, <1>1, <2>1, SelectStays
  <2>2. CASE upgrades = NoJob /\ Head(events) # NoJob
    BY Zenon, <2>2, AddedKeeps
  <2> QED BY Zenon, <2>1, <2>2
     DEF syncNodeUpgradeJob, nodeUpgradeJobDeleted, nodeUpgradeJobUpdated
<1> QED BY Zenon, <1>4, <1>8, <1>9 DEF CInv, FreshOK

\* A step of selectConcurrentNodes that leaves its channel alone.
LEMMA SelectMoves ==
  ASSUME CInv, Busy, UNCHANGED <<job, events, upgrades, nodesChan, work, sent, node, failures,
                                 restarts, ups>>,
         SelectOK', \E p, i, k, a : select' = [pc |-> p, i |-> i, k |-> k, allNodes |-> a]
  PROVE  CInv'
<1>1. Grows /\ MaySet
  BY Zenon DEF Grows, MaySet
<1>2. DeletedLast' /\ FreshOK'
  BY Zenon, <1>1, BusyKeeps
<1>3. CountsOK' /\ RecordsOK' /\ MarkedOK' /\ TakenOK'
  BY Zenon, <1>1, CalmBefore, MarkedStays DEF CInv, CountsOK, RecordsOK, TakenOK
<1> QED BY Zenon, <1>2, <1>3 DEF CInv

LEMMA UpgradingNumType == ASSUME Constants PROVE upgradingNum \in Nat
<1> DEFINE U == {n \in Nodes : job.status[n].state = "upgrading"}
<1>1. IsFiniteSet(U)
  <2>1. U \in SUBSET Nodes
    BY Zenon
  <2> HIDE DEF U
  <2> QED BY Zenon, <2>1, NodesFinite, FS_Subset
<1> QED BY Zenon, <1>1, FS_CardinalityType DEF upgradingNum


LEMMA PollCalm == ASSUME Constants, CInv, Poll PROVE CInv'
<1>1. /\ UNCHANGED <<job, events, upgrades, nodesChan, work, sent, node, failures, restarts, ups>>
      /\ select.pc = "wait" /\ Grows
  BY Zenon DEF Poll, jobVars, Grows
<1>2. PICK i, k, a : select = [pc |-> "wait", i |-> i, k |-> k, allNodes |-> a]
  BY Zenon, <1>1 DEF CInv, RecordsOK
<1>3. PICK u, c : u = upgradingNum /\ u \in Nat /\ c = concurrency /\ c \in Nat \ {0}
  BY Zenon, UpgradingNumType, Sizes
<1>4. CASE \E p : select' = [pc |-> p, i |-> i, k |-> k, allNodes |-> a] /\ p \in {"wait", "closed"}
  <2>1. SelectOK'
    BY <1>1, <1>2, <1>4, CalmBefore DEF CInv, SelectOK
  <2> QED BY Zenon, <1>1, <1>4, <2>1, SelectMoves DEF Busy
<1>5. CASE u < c /\ select' = [pc |-> "put", i |-> 1, k |-> c - u, allNodes |-> a]
  <2>1. c - u \in 1 .. c
    BY <1>3, <1>5
  <2>2. \A S : a \in Seq(S) => 1 \in 1 .. Len(a) + 1
    OBVIOUS
  <2>3. SelectOK'
    BY Zenon, <1>1, <1>2, <1>3, <1>5, <2>1, <2>2, CalmBefore DEF CInv, SelectOK
  <2> QED BY Zenon, <1>1, <1>5, <2>3, SelectMoves DEF Busy
<1> QED
  <2>1. CASE job.state = "completed" \/ ~(u < c)
    <3>1. PICK p \in {"wait", "closed"} : select' = [select EXCEPT !.pc = p]
      BY Zenon, <1>3, <2>1 DEF Poll
    <3>2. select' = [pc |-> p, i |-> i, k |-> k, allNodes |-> a]
      BY Zenon, <1>2, <3>1
    <3> QED BY Zenon, <1>4, <3>2
  <2>2. CASE job.state # "completed" /\ u < c
    <3>1. select' = [select EXCEPT !.pc = "put", !.i = 1, !.k = c - u]
      BY Zenon, <1>3, <2>2 DEF Poll
    <3>2. select' = [pc |-> "put", i |-> 1, k |-> c - u, allNodes |-> a]
      BY Zenon, <1>2, <3>1
    <3> QED BY Zenon, <1>5, <2>2, <3>2
  <2> QED BY Zenon, <2>1, <2>2

LEMMA PollTimeoutCalm == ASSUME CInv, PollTimeout PROVE CInv'
<1>1. /\ UNCHANGED <<job, events, upgrades, nodesChan, work, sent, node, failures, restarts, ups>>
      /\ select.pc = "wait"
  BY Zenon DEF PollTimeout, jobVars
<1>2. PICK i, k, a : select = [pc |-> "wait", i |-> i, k |-> k, allNodes |-> a]
  BY Zenon, <1>1 DEF CInv, RecordsOK
<1>3. select' = [pc |-> "closed", i |-> i, k |-> k, allNodes |-> a]
  BY Zenon, <1>2 DEF PollTimeout
<1>4. SelectOK'
  BY Zenon, <1>3 DEF SelectOK
<1> QED BY Zenon, <1>1, <1>3, <1>4, SelectMoves DEF Busy

\* The list is cut down to a prefix.
LEMMA PutDoneCalm == ASSUME Constants, CInv, PutDone PROVE CInv'
<1>1. /\ UNCHANGED <<job, events, upgrades, nodesChan, work, sent, node, failures, restarts, ups>>
      /\ select.pc = "put" /\ select.i > select.k /\ Grows
  BY Zenon DEF PutDone, jobVars, Grows
<1>2. PICK i, k, a : select = [pc |-> "put", i |-> i, k |-> k, allNodes |-> a]
  BY Zenon, <1>1 DEF CInv, RecordsOK
<1>3. PICK b : b = SubSeq(a, 1, k)
  BY Zenon
<1>4. select' = [pc |-> "wait", i |-> i, k |-> k, allNodes |-> b]
  <2>1. select' = [select EXCEPT !.pc = "wait", !.allNodes = b]
    BY Zenon, <1>2, <1>3 DEF PutDone
  <2> QED BY Zenon, <1>2, <2>1
<1>5. SelectOK'
  <2>1. CASE ~Calm
    BY Zenon, <1>1, <2>1, CalmBefore DEF CInv, SelectOK
  <2>2. CASE Calm
    <3>1. PICK S : a \in Seq(S)
      BY Zenon, <1>2, <2>2 DEF CInv, SelectOK
    <3>2. /\ Len(a) <= Len(Chosen) /\ \A j \in 1 .. Len(a) : a[j] = Chosen[j]
          /\ i \in 1 .. Len(a) + 1 /\ k \in 1 .. concurrency
      BY Zenon, <1>2, <2>2 DEF CInv, SelectOK
    <3>3. k \in Nat /\ k <= Len(a) /\ i > k /\ Len(a) \in Nat /\ Len(Chosen) \in Nat
      BY <1>1, <1>2, <3>1, <3>2, Sizes, ChosenIsSeq
    <3>4. b \in Seq(S) /\ Len(b) = k /\ \A j \in 1 .. k : b[j] = a[j]
      BY <1>3, <3>1, <3>3
    <3> QED BY <1>4, <3>2, <3>3, <3>4 DEF SelectOK
  <2> QED BY Zenon, <2>1, <2>2
<1> QED BY Zenon, <1>1, <1>4, <1>5, SelectMoves DEF Busy


LEMMA PutCalm == ASSUME Constants, CInv, Put PROVE CInv'
<1>1. /\ UNCHANGED <<job, events, upgrades, work, sent, node, failures, restarts, ups>>
      /\ select.pc = "put" /\ select.i <= select.k /\ Grows /\ MaySet /\ Busy
  BY Zenon DEF Put, jobVars, Grows, MaySet, Busy
<1>2. PICK i, k, a : select = [pc |-> "put", i |-> i, k |-> k, allNodes |-> a]
  BY Zenon, <1>1 DEF CInv, RecordsOK
<1>3. CASE i > Len(a)
  <2>1. select' = [select EXCEPT !.pc = "panic"] /\ nodesChan' = nodesChan
    BY Zenon, <1>2, <1>3 DEF Put
  <2>2. select' = [pc |-> "panic", i |-> i, k |-> k, allNodes |-> a]
    BY Zenon, <1>2, <2>1
  <2>3. SelectOK'
    BY Zenon, <2>2 DEF SelectOK
  <2> QED BY Zenon, <1>1, <2>1, <2>2, <2>3, SelectMoves
<1>4. CASE ~(i > Len(a))
  <2>1. select' = [select EXCEPT !.i = i + 1] /\ nodesChan' = Append(nodesChan, a[i])
    BY Zenon, <1>2, <1>4 DEF Put
  <2>2. select' = [pc |-> "put", i |-> i + 1, k |-> k, allNodes |-> a]
    BY Zenon, <1>2, <2>1
  <2>3. DeletedLast' /\ FreshOK'
    BY Zenon, <1>1, BusyKeeps
  <2>4. CountsOK' /\ RecordsOK' /\ MarkedOK'
    BY Zenon, <1>1, <2>2, MarkedStays DEF CInv, CountsOK, RecordsOK
  <2>5. ASSUME Calm'
        PROVE  /\ nodesChan' \in Seq(Taken)
               /\ (\E S : a \in Seq(S)) /\ Len(a) <= Len(Chosen)
               /\ \A j \in 1 .. Len(a) : a[j] = Chosen[j]
               /\ i + 1 \in 1 .. Len(a) + 1 /\ k \in 1 .. concurrency
    <3>1. Calm
      BY Zenon, <1>1, <2>5, CalmBefore DEF CInv
    <3>2. PICK S : a \in Seq(S)
      BY Zenon, <1>2, <3>1 DEF CInv, SelectOK
    <3>3. /\ Len(a) <= Len(Chosen) /\ \A j \in 1 .. Len(a) : a[j] = Chosen[j]
          /\ i \in 1 .. Len(a) + 1 /\ k \in 1 .. concurrency
      BY Zenon, <1>2, <3>1 DEF CInv, SelectOK
    <3>4. i \in 1 .. Len(a) /\ i \in 1 .. concurrency /\ i \in 1 .. Len(Chosen)
      BY <1>1, <1>2, <1>4, <3>2, <3>3, Sizes, ChosenIsSeq
    <3>5. a[i] \in Taken
      BY Zenon, <3>3, <3>4 DEF Taken
    <3>6. nodesChan' \in Seq(Taken)
      BY <2>1, <3>1, <3>5 DEF CInv, TakenOK
    <3>7. i + 1 \in 1 .. Len(a) + 1
      BY <3>2, <3>4
    <3> QED BY Zenon, <3>2, <3>3, <3>6, <3>7
  <2>6. SelectOK'
    BY Zenon, <2>2, <2>5 DEF SelectOK
  <2>7. TakenOK'
    BY Zenon, <1>1, <2>5, CalmBefore DEF CInv, TakenOK
  <2> QED BY Zenon, <2>3, <2>4, <2>6, <2>7 DEF CInv
<1> QED BY Zenon, <1>3, <1>4

LEMMA TakeCalm == ASSUME CInv, Take PROVE CInv'
<1>1. /\ UNCHANGED <<job, events, upgrades, select, sent, node, failures, restarts, ups>>
      /\ nodesChan # << >> /\ nodesChan' = Tail(nodesChan)
      /\ work' = [pc |-> "send", node |-> Head(nodesChan)]
      /\ Grows /\ MaySet /\ Busy
  BY Zenon DEF Take, jobVars, Grows, MaySet, Busy
<1>2. work'.pc = "send" /\ work'.node = Head(nodesChan)
  BY Zenon, <1>1
<1>3. DeletedLast' /\ FreshOK'
  BY Zenon, <1>1, BusyKeeps
<1>4. CountsOK' /\ RecordsOK' /\ MarkedOK'
  BY Zenon, <1>1, <1>2, MarkedStays DEF CInv, CountsOK, RecordsOK
<1>5. Calm => Tail(nodesChan) \in Seq(Taken) /\ Head(nodesChan) \in Taken
  BY <1>1 DEF CInv, TakenOK
<1>6. TakenOK'
  BY Zenon, <1>1, <1>2, <1>5, CalmBefore DEF CInv, TakenOK
<1> QED BY Zenon, <1>1, <1>3, <1>4, <1>6, SelectStays DEF CInv

LEMMA SendCalm == ASSUME CInv, Send PROVE CInv'
<1>1. /\ UNCHANGED <<job, events, upgrades, select, nodesChan, node, restarts, ups>>
      /\ work.pc = "send" /\ MaySet /\ Busy
  BY Zenon DEF Send, jobVars, MaySet, Busy
<1>2. Grows /\ CountsOK'
  BY <1>1 DEF Send, MayFail, Grows, CInv, CountsOK
<1>3. DeletedLast' /\ FreshOK'
  BY Zenon, <1>1, BusyKeeps
<1>4. CASE /\ work' = [pc |-> "mark", node |-> work.node, hid |-> Len(sent) + 1]
           /\ sent' = Append(sent, work.node) /\ failures' = failures
  <2>1. RecordsOK' /\ MarkedOK'
    BY Zenon, <1>1, <1>4, MarkedStays DEF CInv, RecordsOK
  <2>2. Calm => sent' \in Seq(Taken) /\ work.node \in Taken
    BY <1>1, <1>4 DEF CInv, TakenOK
  <2>3. TakenOK'
    BY <1>1, <1>2, <1>4, <2>2, CalmBefore DEF CInv, TakenOK
  <2> QED BY Zenon, <1>1, <1>2, <1>3, <2>1, <2>3, SelectStays DEF CInv
<1>5. CASE work' = Idle /\ sent' = sent
  <2>1. work'.pc = "idle"
    BY Zenon, <1>5 DEF Idle
  <2>2. RecordsOK' /\ MarkedOK'
    <3>1. failures' = 0 => failures = 0
      BY <1>2 DEF CInv, Grows, CountsOK
    <3>2. MarkedOK'
      BY Zenon, <1>1, <2>1, <3>1 DEF CInv, MarkedOK
    <3> QED BY Zenon, <1>1, <2>1, <3>2 DEF CInv, RecordsOK
  <2>3. TakenOK'
    BY Zenon, <1>1, <1>2, <1>5, <2>1, CalmBefore DEF CInv, TakenOK
  <2> QED BY Zenon, <1>1, <1>2, <1>3, <2>2, <2>3, SelectStays DEF CInv
<1> QED BY Zenon, <1>4, <1>5 DEF Send


LEMMA MarkCalm == ASSUME CInv, Mark PROVE CInv'
<1>1. /\ UNCHANGED <<upgrades, select, nodesChan, sent, node, restarts, ups>> /\ work.pc = "mark"
      /\ Busy
  BY Zenon DEF Mark, Busy
<1>2. Grows /\ CountsOK'
  BY <1>1 DEF Mark, MayFail, Grows, CInv, CountsOK
<1>3. PICK n, h : work = [pc |-> "mark", node |-> n, hid |-> h]
  BY Zenon, <1>1 DEF CInv, RecordsOK
<1>4. work' = [pc |-> "cordon", node |-> n, hid |-> h]
  BY Zenon, <1>3 DEF Mark
<1>5. RecordsOK'
  BY Zenon, <1>1, <1>4 DEF CInv, RecordsOK
<1>6. TakenOK'
  BY Zenon, <1>1, <1>2, <1>3, <1>4, CalmBefore DEF CInv, TakenOK
<1>7. MaySet /\ (failures' = failures => job' = NoJob \/ job'.state # "none")
  <2>1. CASE MayFail /\ UNCHANGED <<job, events>>
    BY <2>1 DEF MayFail, MaySet, CInv, CountsOK
  <2>2. CASE SetJob(Patched(NewJob, work.node, [state |-> "upgrading", hid |-> work.hid]))
    <3>1. PICK m, s : m = work.node /\ s = [state |-> "upgrading", hid |-> work.hid]
      BY Zenon
    <3>2. PICK j : j = Patched(NewJob, m, s)
      BY Zenon
    <3>3. SetJob(j)
      BY Zenon, <2>2, <3>1, <3>2
    <3>4. NewJob.state = "none"
      BY Zenon DEF NewJob
    <3>5. (job = NoJob => j = NoJob) /\ (job # NoJob => j.state # "none")
      BY Zenon, <3>2, <3>4, PatchedMarked
    <3>6. job' = j
      BY Zenon, <3>3 DEF SetJob
    <3> QED BY Zenon, <3>3, <3>5, <3>6 DEF MaySet
  <2> QED BY Zenon, <2>1, <2>2 DEF Mark
<1>8. MarkedOK'
  <2>1. failures' = 0 => failures' = failures
    BY <1>2 DEF CInv, Grows, CountsOK
  <2> QED BY Zenon, <1>7, <2>1 DEF MarkedOK
<1>9. DeletedLast' /\ FreshOK'
  BY Zenon, <1>1, <1>7, BusyKeeps
<1> QED BY Zenon, <1>1, <1>2, <1>5, <1>6, <1>8, <1>9, SelectStays DEF CInv

LEMMA CordonCalm == ASSUME CInv, Cordon PROVE CInv'
<1>1. /\ UNCHANGED <<job, events, upgrades, select, nodesChan, sent, restarts, ups>>
      /\ work.pc = "cordon" /\ work' = Idle /\ Busy /\ MaySet
  BY Zenon DEF Cordon, jobVars, Busy, MaySet
<1>2. Grows /\ CountsOK' /\ (failures' = 0 => failures = 0)
  BY <1>1 DEF Cordon, MayFail, Grows, CInv, CountsOK
<1>3. work'.pc = "idle"
  BY Zenon, <1>1 DEF Idle
<1>4. RecordsOK'
  <2>1. DOMAIN node' = Nodes
    BY Zenon DEF Cordon, CInv, RecordsOK
  <2> QED BY Zenon, <1>1, <1>3, <2>1 DEF CInv, RecordsOK
<1>5. MarkedOK'
  BY Zenon, <1>1, <1>2 DEF CInv, MarkedOK
<1>6. TakenOK'
  BY Zenon, <1>1, <1>2, <1>3, CalmBefore DEF CInv, TakenOK
<1>7. DeletedLast' /\ FreshOK'
  BY Zenon, <1>1, BusyKeeps
<1> QED BY Zenon, <1>1, <1>2, <1>4, <1>5, <1>6, <1>7, SelectStays DEF CInv

LEMMA TimerCalm == ASSUME CInv, NEW h, Timer(h) \/ EdgeAnswers(h) PROVE CInv'
<1>1. UNCHANGED <<job, events, upgrades, select, nodesChan, work, sent, node, failures, restarts, ups>>
  BY Zenon DEF Timer, TimerStops, TimerFires, EdgeAnswers, jobVars
<1>2. Fresh => \A w \in Workers : ups'[w].pc = "idle"
  BY Zenon, <1>1 DEF CInv, FreshOK
<1> QED BY Zenon, <1>1, <1>2, AsideKeeps

LEMMA UpLoadCalm == ASSUME IInv, CInv, NEW w \in Workers, UpLoad(w) PROVE CInv'
<1>1. UNCHANGED <<job, events, upgrades, select, nodesChan, work, sent, node, failures, restarts>>
  BY Zenon DEF UpLoad, jobVars, downVars
<1>2. ASSUME Fresh
      PROVE  \A v \in Workers : ups'[v].pc = "idle"
  <2>1. ups' = [ups EXCEPT ![w] = Idle]
    BY Zenon, <1>2 DEF UpLoad, Fresh
  <2>2. \A v \in Workers : ups'[v] = IF v = w THEN Idle ELSE ups[v]
    BY Zenon, <2>1 DEF IInv, WorkersOK
  <2> QED BY <1>2, <2>2 DEF CInv, FreshOK, Idle
<1> QED BY Zenon, <1>1, <1>2, AsideKeeps

LEMMA UpPatchCalm == ASSUME CInv, NEW w \in Workers, UpPatch(w) PROVE CInv'
<1>1. /\ UNCHANGED <<upgrades, select, nodesChan, work, sent, node, restarts>> /\ Busy
  BY Zenon DEF UpPatch, downVars, Busy
<1>2. Grows /\ CountsOK' /\ (failures' = 0 => failures = 0)
  BY <1>1 DEF UpPatch, MayFail, Grows, CInv, CountsOK
<1>3. RecordsOK' /\ TakenOK'
  BY Zenon, <1>1, <1>2, CalmBefore DEF CInv, RecordsOK, TakenOK
<1>4. MaySet /\ ((job = NoJob \/ job.state # "none") => (job' = NoJob \/ job'.state # "none"))
  <2>1. CASE UNCHANGED <<job, events>>
    BY Zenon, <2>1 DEF MaySet
  <2>2. CASE SetJob(Patched(ups[w].old, ups[w].node, [state |-> "completed", hid |-> ups[w].hid]))
    <3>1. PICK old, n, s : /\ old = ups[w].old /\ n = ups[w].node
                           /\ s = [state |-> "completed", hid |-> ups[w].hid]
      BY Zenon
    <3>2. PICK j : j = Patched(old, n, s)
      BY Zenon
    <3>3. SetJob(j)
      BY Zenon, <2>2, <3>1, <3>2
    <3>4. /\ job = NoJob => j = NoJob
          /\ (job # NoJob /\ job.state # "none") => j.state # "none"
      BY Zenon, <3>2, PatchedMarked
    <3>5. job' = j
      BY Zenon, <3>3 DEF SetJob
    <3> QED BY <3>3, <3>4, <3>5 DEF MaySet
  <2> QED BY Zenon, <2>1, <2>2 DEF UpPatch
<1>5. MarkedOK'
  BY Zenon, <1>1, <1>2, <1>4 DEF CInv, MarkedOK
<1>6. DeletedLast' /\ FreshOK'
  BY Zenon, <1>1, <1>4, BusyKeeps
<1> QED BY Zenon, <1>1, <1>2, <1>3, <1>5, <1>6, SelectStays DEF CInv


LEMMA UpNodeCalm == ASSUME CInv, NEW w \in Workers, UpNode(w) PROVE CInv'
<1>1. /\ UNCHANGED <<job, events, upgrades, select, nodesChan, work, sent, failures, restarts>>
      /\ Busy /\ Grows /\ MaySet
  BY Zenon DEF UpNode, jobVars, downVars, Busy, Grows, MaySet
<1>2. DOMAIN node' = Nodes /\ \A n \in Nodes : node'[n] => node[n]
  BY Zenon DEF UpNode, CInv, RecordsOK
<1>3. CountsOK' /\ RecordsOK' /\ TakenOK'
  BY Zenon, <1>1, <1>2, CalmBefore DEF CInv, CountsOK, RecordsOK, TakenOK
<1>4. MarkedOK'
  BY Zenon, <1>1, <1>2 DEF CInv, MarkedOK
<1>5. DeletedLast' /\ FreshOK'
  BY Zenon, <1>1, BusyKeeps
<1> QED BY Zenon, <1>1, <1>3, <1>4, <1>5, SelectStays DEF CInv

LEMMA DeleteCalm == ASSUME CInv, DeleteJob PROVE CInv'
<1>1. /\ UNCHANGED <<upgrades, select, nodesChan, work, sent, node, failures, restarts, ups>>
      /\ SetJob(NoJob) /\ Grows
  BY Zenon DEF DeleteJob, downVars, Grows
<1>2. MaySet /\ job' = NoJob
  BY Zenon, <1>1 DEF MaySet, SetJob
<1>3. DeletedLast' /\ (Fresh' => Fresh /\ Head(events') = Head(events))
  BY Zenon, <1>1, <1>2, EventsGrow DEF CInv
<1>4. FreshOK'
  BY Zenon, <1>1, <1>3, CalmBefore DEF CInv, FreshOK, isCompleted
<1>5. CountsOK' /\ RecordsOK' /\ TakenOK' /\ MarkedOK'
  BY Zenon, <1>1, <1>2, CalmBefore DEF CInv, CountsOK, RecordsOK, TakenOK, MarkedOK
<1> QED BY Zenon, <1>1, <1>3, <1>4, <1>5, SelectStays DEF CInv

\* After a restart the job is added again: what was sent came from the same list.
LEMMA RestartCalm == ASSUME CInv, Restart PROVE CInv'
<1>1. /\ UNCHANGED <<job, sent, node, failures>> /\ restarts' = restarts + 1
      /\ upgrades' = NoJob /\ select' = Off /\ nodesChan' = << >> /\ work' = Idle
      /\ ups' = [w \in Workers |-> Idle] /\ events' = IF job = NoJob THEN << >> ELSE <<job>>
  BY Zenon DEF Restart
<1>2. CountsOK' /\ RecordsOK'
  <2>1. CountsOK' /\ DOMAIN node' = Nodes
    BY <1>1 DEF CInv, CountsOK, RecordsOK
  <2>2. \E p, i, k, a : select' = [pc |-> p, i |-> i, k |-> k, allNodes |-> a]
    BY Zenon, <1>1 DEF Off
  <2>3. work'.pc = "idle"
    BY Zenon, <1>1 DEF Idle
  <2> QED BY Zenon, <2>1, <2>2, <2>3 DEF RecordsOK
<1>3. Calm' => Calm /\ failures = 0
  BY <1>1 DEF CInv, CountsOK, Calm
<1>4. PICK j : j = job
  BY Zenon
<1>5. \/ j = NoJob /\ events' = << >>
      \/ j # NoJob /\ events' = <<j>>
  BY Zenon, <1>1, <1>4
<1>6. DeletedLast'
  <2>1. events' \in Seq({j})
    <3>1. << >> \in Seq({j}) /\ <<j>> \in Seq({j})
      OBVIOUS
    <3> QED BY <1>5, <3>1, Zenon
  <2>2. \A i \in 1 .. Len(events') : events'[i] # NoJob
    BY <1>5
  <2>3. events' = << >> => job' = NoJob
    BY Zenon, <1>1, <1>4, <1>5
  <2> QED BY Zenon, <2>1, <2>2, <2>3 DEF DeletedLast
<1>7. FreshOK'
  <2>1. Fresh' => j # NoJob /\ Head(events') = j
    BY <1>5 DEF Fresh
  <2>2. ASSUME Fresh', Calm', ~isCompleted(j)
        PROVE  \A n \in Nodes : ~node'[n]
    BY Zenon, <1>1, <1>3, <1>4, <2>1, <2>2 DEF CInv, MarkedOK, isCompleted
  <2>3. \A w \in Workers : ups'[w].pc = "idle"
    BY Zenon, <1>1 DEF Idle
  <2>4. Fresh' /\ ~isCompleted(Head(events))' => ~isCompleted(j)
    BY Zenon, <2>1 DEF isCompleted
  <2> QED BY Zenon, <1>1, <2>2, <2>3, <2>4 DEF FreshOK
<1>8. MarkedOK'
  BY Zenon, <1>1 DEF CInv, MarkedOK, Idle
<1>9. SelectOK'
  BY Zenon, <1>1 DEF SelectOK, Off
<1>10. TakenOK'
  BY <1>1, <1>3 DEF CInv, TakenOK, Idle
<1> QED BY Zenon, <1>2, <1>6, <1>7, <1>8, <1>9, <1>10 DEF CInv

LEMMA InitCInv == ASSUME Init PROVE CInv
<1>1. CountsOK /\ RecordsOK
  BY Zenon DEF Init, CountsOK, RecordsOK, Off, Idle
<1>2. DeletedLast /\ events # << >>
  <2>1. PICK j : j = NewJob
    BY Zenon
  <2>2. events = <<j>> /\ job = j /\ upgrades = NoJob
    BY Zenon, <2>1 DEF Init
  <2>3. \A i \in 1 .. Len(events) : i = Len(events) /\ events[i] = job
    BY <2>2
  <2>4. events \in Seq({j}) /\ events # << >>
    BY <2>2
  <2> QED BY Zenon, <2>3, <2>4 DEF DeletedLast
<1>3. FreshOK
  BY Zenon DEF Init, FreshOK, Off, Idle
<1>4. MarkedOK
  BY Zenon DEF Init, MarkedOK, Idle
<1>5. SelectOK
  BY Zenon DEF Init, SelectOK, Off
<1>6. TakenOK
  BY DEF Init, TakenOK, Idle
<1> QED BY Zenon, <1>1, <1>2, <1>3, <1>4, <1>5, <1>6 DEF CInv

LEMMA NextCInv == ASSUME Constants, IInv, CInv, [Next]_vars PROVE CInv'
<1>1. CASE UNCHANGED vars
  <2>1. UNCHANGED <<job, events, upgrades, select, nodesChan, work, sent, node, failures, restarts, ups>>
    BY Zenon, <1>1 DEF vars
  <2>2. Fresh => \A w \in Workers : ups'[w].pc = "idle"
    BY Zenon, <2>1 DEF CInv, FreshOK
  <2> QED BY Zenon, <2>1, <2>2, AsideKeeps
<1>2. CASE Next
  BY <1>2, SyncCalm, PollCalm, PutCalm, PutDoneCalm, PollTimeoutCalm, TakeCalm, SendCalm, MarkCalm,
     CordonCalm, TimerCalm, UpLoadCalm, UpPatchCalm, UpNodeCalm, DeleteCalm, RestartCalm
     DEF Next, SelectStep, WorkStep, UpStep
<1> QED BY Zenon, <1>1, <1>2

\* Elements of a sequence over a set are in the set.
LEMMA SomeElements ==
  ASSUME NEW S, NEW q \in Seq(S), NEW I, I \subseteq 1..Len(q)
  PROVE  {q[i] : i \in I} \in SUBSET S
<1>1. ASSUME NEW i \in I PROVE q[i] \in S
  <2>1. i \in 1..Len(q)
    BY Zenon
  <2> QED BY <2>1
<1> QED BY Zenon, <1>1

\* The nodes that were sent an upgrade and have not answered are never more than the concurrency
\* of the job ("ensure the max number of upgrading nodes is Concurrency", selectConcurrentNodes),
\* for any list of names and any concurrency, as long as cloudcore was not restarted or no API
\* call was lost.
THEOREM ConcurrencyIsKept == ASSUME Constants PROVE Spec => []AtMostConcurrency
<1>1. ASSUME IInv, CInv PROVE AtMostConcurrency
  <2>1. ASSUME Calm
        PROVE  Cardinality({sent[h] : h \in pending}) <= concurrency
    <3>1. {sent[h] : h \in pending} \in SUBSET Taken
      <4>1. sent \in Seq(Taken) /\ pending \subseteq 1..Len(sent)
        BY Zenon, <1>1, <2>1 DEF IInv, SentOK, CInv, TakenOK
      <4> QED BY Zenon, <4>1, SomeElements
    <3>2. PICK P : P = {sent[h] : h \in pending}
      BY Zenon
    <3>3. /\ IsFiniteSet(P) /\ Cardinality(P) <= Cardinality(Taken) /\ Cardinality(Taken) <= concurrency
          /\ Cardinality(P) \in Nat /\ Cardinality(Taken) \in Nat
      BY Zenon, <3>1, <3>2, TakenBound, FS_Subset, FS_CardinalityType
    <3> QED BY <3>2, <3>3, Sizes
  <2> QED BY Zenon, <2>1 DEF AtMostConcurrency, Calm
<1>2. Init => IInv /\ CInv
  BY Zenon, InitIInv, InitCInv
<1>3. IInv /\ CInv /\ [Next]_vars => IInv' /\ CInv'
  BY Zenon, NextIInv, NextCInv
<1> QED BY <1>1, <1>2, <1>3, PTL DEF Spec
=============================================================================
