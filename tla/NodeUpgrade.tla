---------------------------- MODULE NodeUpgrade ----------------------------
(***************************************************************************)
(* The upgrade of edge nodes by one NodeUpgradeJob: the controller's       *)
(* downstream (selectConcurrentNodes, processUpgrade, the timeouts), its   *)
(* upstream workers, and the edge nodes.                                   *)
(*                                                                         *)
(* Status patches are JSON merge patches made from a copy of the job: they *)
(* replace the list of node statuses as a whole.                           *)
(***************************************************************************)
EXTENDS Naturals, Sequences, FiniteSets

CONSTANTS
  NodeNames,    \* spec.nodeNames, a sequence
  Eligible,     \* the edge nodes that are ready and have another version
  Concurrency,  \* spec.concurrency, 0 if it is not given
  Workers,      \* the upstream workers
  MaxRequests,  \* bound on the upgrade messages sent
  MaxFailures,  \* bound on failing API calls
  MaxRestarts,  \* bound on restarts of cloudcore
  NoJob         \* the job is not in the map

Nodes == {NodeNames[i] : i \in 1 .. Len(NodeNames)}
Requests == 1 .. MaxRequests

VARIABLES
  job,       \* API server: state of the job and status of its nodes
  events,    \* versions of the job the informer has not delivered, NoJob if deleted
  upgrades,  \* UpgradeMap: the copy of the job it delivered last
  select,    \* the selectConcurrentNodes goroutine
  nodesChan, \* its channel
  work,      \* the goroutine that calls processUpgrade
  sent,      \* the node of each upgrade message sent; its index is the history ID
  timers,    \* history IDs whose timeout goroutine runs
  pending,   \* history IDs the edge has not answered
  chan,      \* nodeUpgradeJobStatusChan, in no order: several workers read it
  ups,       \* the upstream workers
  node,      \* API server: TRUE if the node is cordoned
  failures,
  restarts

vars == <<job, events, upgrades, select, nodesChan, work, sent, timers, pending, chan, ups,
          node, failures, restarts>>

jobVars  == <<job, events, upgrades>>
downVars == <<select, nodesChan, work, sent, timers, pending>>

-----------------------------------------------------------------------------
\* The names at positions I of the list, each once, in the order of their first
\* occurrences.
RemoveDuplicateElement(I) ==
  LET first == {i \in I : \A j \in I : j < i => NodeNames[j] # NodeNames[i]}
  IN  [k \in 1 .. Cardinality(first) |->
         NodeNames[CHOOSE i \in first : Cardinality({j \in first : j <= i}) = k]]

NoStatus == [state |-> "none", hid |-> 0]
NewJob == [state |-> "none", status |-> [n \in Nodes |-> NoStatus]]

Idle == [pc |-> "idle"]
concurrency == IF Concurrency # 0 THEN Concurrency ELSE 1

Off == [pc |-> "off", i |-> 0, k |-> 0, allNodes |-> << >>]

Init ==
  /\ job = NewJob
  /\ events = <<NewJob>>
  /\ upgrades = NoJob
  /\ select = Off
  /\ nodesChan = << >>
  /\ work = Idle
  /\ sent = << >>
  /\ timers = {}
  /\ pending = {}
  /\ chan = {}
  /\ ups = [w \in Workers |-> Idle]
  /\ node = [n \in Nodes |-> FALSE]
  /\ failures = 0
  /\ restarts = 0

\* UpdateNodeUpgradeJobStatus and the total state, on a copy of the job.
NewValue(old, n, s) ==
  LET status == [old.status EXCEPT ![n] = s]
  IN  [state  |-> IF \A m \in Nodes : status[m].state \in {"none", "completed"}
                  THEN "completed" ELSE "upgrading",
       status |-> status]

\* patchNodeUpgradeJobStatus: the merge patch holds the fields that differ.
Patched(old, n, s) ==
  LET new == NewValue(old, n, s)
  IN  IF job = NoJob THEN NoJob ELSE
      [state  |-> IF new.state = old.state THEN job.state ELSE new.state,
       status |-> IF new.status = old.status THEN job.status ELSE new.status]

\* The API server stores j as the job, and the watch reports a change.
SetJob(j) ==
  /\ job' = j
  /\ events' = IF j = job THEN events ELSE Append(events, j)

MayFail == failures < MaxFailures /\ failures' = failures + 1

-----------------------------------------------------------------------------
(* syncNodeUpgradeJob                                                       *)

needUpgrade(n) == n \in Eligible /\ ~node[n]

isCompleted(j) == j.state # "none" \/ \E n \in Nodes : j.status[n].state # "none"

\* A job that was started before, by an earlier run of cloudcore too, is only
\* remembered.
nodeUpgradeJobAdded(upgrade) ==
  /\ upgrades' = upgrade
  /\ select' = IF isCompleted(upgrade) THEN select
               ELSE [pc |-> "wait", i |-> 0, k |-> 0,
                     allNodes |-> RemoveDuplicateElement({i \in 1 .. Len(NodeNames) :
                                                            needUpgrade(NodeNames[i])})]

\* isUpgradeUpdated is always false.
nodeUpgradeJobUpdated(upgrade) == upgrades' = upgrade /\ UNCHANGED select

nodeUpgradeJobDeleted == upgrades' = NoJob /\ UNCHANGED select

syncNodeUpgradeJob ==
  /\ events # << >>
  /\ events' = Tail(events)
  /\ IF Head(events) = NoJob THEN nodeUpgradeJobDeleted
     ELSE IF upgrades = NoJob THEN nodeUpgradeJobAdded(Head(events))
     ELSE nodeUpgradeJobUpdated(Head(events))
  /\ UNCHANGED <<job, nodesChan, work, sent, timers, pending, chan, ups, node, failures,
                 restarts>>

-----------------------------------------------------------------------------
(* selectConcurrentNodes                                                    *)

upgradingNum == Cardinality({n \in Nodes : job.status[n].state = "upgrading"})

\* Mutant: one node too many.
PollOneMore ==
  /\ select.pc = "wait"
  /\ job # NoJob
  /\ IF job.state = "completed" THEN select' = [select EXCEPT !.pc = "closed"]
     ELSE select' = [select EXCEPT !.pc = "put", !.i = 1,
                                   !.k = concurrency - upgradingNum + 1]
  /\ UNCHANGED <<jobVars, nodesChan, work, sent, timers, pending, chan, ups, node,
                 failures, restarts>>

\* The poll reads the job and counts the nodes that are upgrading.
Poll ==
  /\ select.pc = "wait"
  /\ job # NoJob
  /\ IF job.state = "completed" THEN select' = [select EXCEPT !.pc = "closed"]
     ELSE IF upgradingNum < concurrency
     THEN select' = [select EXCEPT !.pc = "put", !.i = 1,
                                   !.k = concurrency - upgradingNum]
     ELSE select' = [select EXCEPT !.pc = IF Len(select.allNodes) = 0
                                          THEN "closed" ELSE "wait"]
  /\ UNCHANGED <<jobVars, nodesChan, work, sent, timers, pending, chan, ups, node,
                 failures, restarts>>

\* nodesChan <- allNodes[i]: an index past the end is a panic.
Put ==
  /\ select.pc = "put" /\ select.i <= select.k
  /\ IF select.i > Len(select.allNodes)
     THEN select' = [select EXCEPT !.pc = "panic"] /\ UNCHANGED nodesChan
     ELSE /\ \/ Len(nodesChan) < Concurrency
             \/ Concurrency = 0 /\ nodesChan = << >> /\ work.pc = "idle"
          /\ nodesChan' = Append(nodesChan, select.allNodes[select.i])
          /\ select' = [select EXCEPT !.i = select.i + 1]
  /\ UNCHANGED <<jobVars, work, sent, timers, pending, chan, ups, node, failures,
                 restarts>>

\* allNodes = allNodes[:concurrency-upgradingNum].
PutDone ==
  /\ select.pc = "put" /\ select.i > select.k
  /\ select' = [select EXCEPT !.pc = "wait",
                              !.allNodes = SubSeq(select.allNodes, 1, select.k)]
  /\ UNCHANGED <<jobVars, nodesChan, work, sent, timers, pending, chan, ups, node,
                 failures, restarts>>

\* wait.Poll gives up.
PollTimeout ==
  /\ select.pc = "wait"
  /\ select' = [select EXCEPT !.pc = "closed"]
  /\ UNCHANGED <<jobVars, nodesChan, work, sent, timers, pending, chan, ups, node,
                 failures, restarts>>

-----------------------------------------------------------------------------
(* processUpgrade                                                           *)

Take ==
  /\ work.pc = "idle"
  /\ nodesChan # << >>
  /\ work' = [pc |-> "send", node |-> Head(nodesChan)]
  /\ nodesChan' = Tail(nodesChan)
  /\ UNCHANGED <<jobVars, select, sent, timers, pending, chan, ups, node, failures,
                 restarts>>

\* Mutant: the goroutine ends when a message cannot be sent.
SendExits ==
  /\ work.pc = "send"
  /\ \/ /\ Len(sent) < MaxRequests
        /\ sent' = Append(sent, work.node)
        /\ timers' = timers \cup {Len(sent) + 1}
        /\ pending' = pending \cup {Len(sent) + 1}
        /\ work' = [pc |-> "mark", node |-> work.node, hid |-> Len(sent) + 1]
        /\ UNCHANGED failures
     \/ /\ MayFail
        /\ work' = [pc |-> "exit"]
        /\ UNCHANGED <<sent, timers, pending>>
  /\ UNCHANGED <<jobVars, select, nodesChan, chan, ups, node, restarts>>

\* The upgrade message, and the goroutine that waits for the answer.
Send ==
  /\ work.pc = "send"
  /\ \/ /\ Len(sent) < MaxRequests
        /\ sent' = Append(sent, work.node)
        /\ timers' = timers \cup {Len(sent) + 1}
        /\ pending' = pending \cup {Len(sent) + 1}
        /\ work' = [pc |-> "mark", node |-> work.node, hid |-> Len(sent) + 1]
        /\ UNCHANGED failures
     \/ /\ IF Len(sent) = MaxRequests THEN UNCHANGED failures ELSE MayFail
        /\ work' = Idle
        /\ UNCHANGED <<sent, timers, pending>>
  /\ UNCHANGED <<jobVars, select, nodesChan, chan, ups, node, restarts>>

\* Mutant: the node is marked completed.
MarkCompleted ==
  /\ work.pc = "mark"
  /\ work' = [work EXCEPT !.pc = "cordon"]
  /\ SetJob(Patched(NewJob, work.node, [state |-> "completed", hid |-> work.hid]))
  /\ UNCHANGED <<upgrades, select, nodesChan, sent, timers, pending, chan, ups, node,
                 failures, restarts>>

\* The patch is made from the job as it was when it was added.
Mark ==
  /\ work.pc = "mark"
  /\ work' = [work EXCEPT !.pc = "cordon"]
  /\ \/ /\ SetJob(Patched(NewJob, work.node, [state |-> "upgrading", hid |-> work.hid]))
        /\ UNCHANGED failures
     \/ MayFail /\ UNCHANGED <<job, events>>
  /\ UNCHANGED <<upgrades, select, nodesChan, sent, timers, pending, chan, ups, node,
                 restarts>>

Cordon ==
  /\ work.pc = "cordon"
  /\ work' = Idle
  /\ \/ node' = [node EXCEPT ![work.node] = TRUE] /\ UNCHANGED failures
     \/ MayFail /\ UNCHANGED node
  /\ UNCHANGED <<jobVars, select, nodesChan, sent, timers, pending, chan, ups, restarts>>

\* handleNodeUpgradeJobTimeout sees the answer in its copy of the job, or that
\* the job is gone, ...
TimerStops(h) ==
  /\ h \in timers
  /\ upgrades # NoJob => upgrades.status[sent[h]] = [state |-> "completed", hid |-> h]
  /\ timers' = timers \ {h}
  /\ UNCHANGED <<jobVars, select, nodesChan, work, sent, pending, chan, ups, node,
                 failures, restarts>>

\* ... or makes up an answer.
TimerFires(h) ==
  /\ h \in timers
  /\ upgrades # NoJob
  /\ upgrades.status[sent[h]] # [state |-> "completed", hid |-> h]
  /\ timers' = timers \ {h}
  /\ chan' = chan \cup {[hid |-> h, from |-> "timer"]}
  /\ UNCHANGED <<jobVars, select, nodesChan, work, sent, pending, ups, node, failures,
                 restarts>>

-----------------------------------------------------------------------------
(* The edge, and the upstream workers                                       *)

\* The node upgrades, or fails to and rolls back, and says so; it may also never
\* give an answer, or the answer is lost.
EdgeAnswers(h) ==
  /\ h \in pending
  /\ pending' = pending \ {h}
  /\ chan' = chan \cup {[hid |-> h, from |-> "edge"]}
  /\ UNCHANGED <<jobVars, select, nodesChan, work, sent, timers, ups, node, failures,
                 restarts>>

\* updateNodeUpgradeJobStatus: load the job, ...
UpLoad(w) ==
  /\ ups[w].pc = "idle"
  /\ \E m \in chan :
       /\ chan' = chan \ {m}
       /\ ups' = [ups EXCEPT ![w] =
            IF upgrades = NoJob THEN Idle
            ELSE [pc |-> "patch", node |-> sent[m.hid], hid |-> m.hid, old |-> upgrades]]
  /\ UNCHANGED <<jobVars, downVars, node, failures, restarts>>

\* ... patch the status made from it, ...
UpPatch(w) ==
  /\ ups[w].pc = "patch"
  /\ ups' = [ups EXCEPT ![w] = [pc |-> "node", node |-> ups[w].node]]
  /\ \/ /\ SetJob(Patched(ups[w].old, ups[w].node,
                          [state |-> "completed", hid |-> ups[w].hid]))
        /\ UNCHANGED failures
     \/ MayFail /\ UNCHANGED <<job, events>>
  /\ UNCHANGED <<upgrades, downVars, chan, node, restarts>>

\* ... and update the lister's copy of the node, without label and cordon.  The
\* update fails if the copy is old: the node's status changes all the time.
UpNode(w) ==
  /\ ups[w].pc = "node"
  /\ ups' = [ups EXCEPT ![w] = Idle]
  /\ \/ node' = [node EXCEPT ![ups[w].node] = FALSE]
     \/ UNCHANGED node
  /\ UNCHANGED <<jobVars, downVars, chan, failures, restarts>>

-----------------------------------------------------------------------------
(* The user, and the process                                                *)

DeleteJob ==
  /\ job # NoJob
  /\ SetJob(NoJob)
  /\ UNCHANGED <<upgrades, downVars, chan, ups, node, failures, restarts>>

\* cloudcore starts again: what it held in memory is lost.
Restart ==
  /\ restarts < MaxRestarts
  /\ restarts' = restarts + 1
  /\ events' = IF job = NoJob THEN << >> ELSE <<job>>
  /\ upgrades' = NoJob
  /\ select' = Off
  /\ nodesChan' = << >>
  /\ work' = Idle
  /\ timers' = {}
  /\ chan' = {}
  /\ ups' = [w \in Workers |-> Idle]
  /\ UNCHANGED <<job, sent, pending, node, failures>>

UpStep(w) == UpLoad(w) \/ UpPatch(w) \/ UpNode(w)
WorkStep == Take \/ Send \/ Mark \/ Cordon

SelectStep == Poll \/ Put \/ PutDone \/ PollTimeout
Timer(h) == TimerStops(h) \/ TimerFires(h)

\* A panic ends cloudcore.
Next ==
  \/ /\ select.pc # "panic"
     /\ \/ syncNodeUpgradeJob
        \/ SelectStep
        \/ WorkStep
        \/ \E h \in Requests : Timer(h) \/ EdgeAnswers(h)
        \/ \E w \in Workers : UpStep(w)
        \/ DeleteJob
  \/ Restart

Spec == Init /\ [][Next]_vars

\* The goroutines of the controller run; wait.Poll looks at its deadline each time
\* the condition returns.
Fairness == /\ WF_vars(syncNodeUpgradeJob)
            /\ WF_vars(SelectStep)
            /\ SF_vars(PollTimeout)
            /\ WF_vars(WorkStep)

-----------------------------------------------------------------------------
(* Properties                                                               *)

Status == [state : {"none", "upgrading", "completed"}, hid : 0 .. MaxRequests]
Job == [state : {"none", "upgrading", "completed"}, status : [Nodes -> Status]]

\* Every variable has its type: the channel never holds more than its capacity,
\* and a timeout goroutine or an open answer always belongs to a message sent.
TypeOK ==
  /\ job \in Job \cup {NoJob}
  /\ upgrades \in Job \cup {NoJob}
  /\ select.pc \in {"off", "wait", "put", "closed", "panic"}
  /\ Len(nodesChan) <= concurrency
  /\ work.pc \in {"idle", "send", "mark", "cordon"}
  /\ Len(sent) <= MaxRequests
  /\ timers \subseteq 1 .. Len(sent)
  /\ pending \subseteq 1 .. Len(sent)
  /\ chan \subseteq [hid : 1 .. Len(sent), from : {"edge", "timer"}]
  /\ \A w \in Workers : ups[w].pc \in {"idle", "patch", "node"}
  /\ node \in [Nodes -> BOOLEAN]

\* selectConcurrentNodes, "ensure the max number of upgrading nodes is
\* Concurrency": the nodes that were sent an upgrade and have not answered are
\* never more.  A restart keeps this if no status patch was lost before it (a
\* node that is cordoned but not marked is not counted), and a lost patch if
\* cloudcore does not restart.
AtMostConcurrency ==
  (restarts = 0 \/ failures = 0) => Cardinality({sent[h] : h \in pending}) <= concurrency

\* A node's status says Completed only after the edge answered that very
\* request or its timeout fired.
CompletedWasAnswered ==
  job # NoJob =>
    \A n \in Nodes : job.status[n].state = "completed" =>
      LET h == job.status[n].hid
      IN  h \in 1 .. Len(sent) /\ sent[h] = n /\ ~(h \in timers /\ h \in pending)

\* selectConcurrentNodes always closes its channel, or ends with cloudcore: it
\* is never left waiting for room in the channel.
SelectionEnds == select.pc \in {"wait", "put"} ~> select.pc \notin {"wait", "put"}

\* patchNodeUpgradeJobStatus, "if all edge node is in completed state, we
\* should set the total state to completed": a job that says Completed has
\* upgraded every node it was to upgrade.
JobCompletedMeansAll ==
  (job # NoJob /\ job.state = "completed") =>
    \A n \in Nodes \cap Eligible : job.status[n].state = "completed"
=============================================================================
