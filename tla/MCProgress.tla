------------------------------ MODULE MCProgress ------------------------------
(***************************************************************************)
(* What must eventually happen in three parts that share no state: the     *)
(* sessions of the cloud hub, the upgrade of nodes, and the reports of     *)
(* devices.  A behaviour is a fair behaviour of one of them, named by      *)
(* part, while the other two rest in their initial states.                 *)
(***************************************************************************)
EXTENDS Naturals, Sequences

CONSTANTS Conns, n1, n2, None, Orphan, NoJob, Workers

VARIABLES
  part,
  \* HubSessions
  pc, link, stopped, found, reader, pools, sessions, number, creating, overlapped,
  \* NodeUpgrade
  job, events, upgrades, select, nodesChan, work, sent, timers, pending, chan, ups, node,
  failures, restarts,
  \* DeviceReports
  reports, comm, state, confirm, online, up, down, asked, patched, api, drops, rejected

hubVars     == <<pc, link, stopped, found, reader, pools, sessions, number, creating, overlapped>>
upgradeVars == <<job, events, upgrades, select, nodesChan, work, sent, timers, pending, chan, ups,
                 node, failures, restarts>>
reportVars  == <<reports, comm, state, confirm, online, up, down, asked, patched, api, drops,
                 rejected>>
vars == <<part, hubVars, upgradeVars, reportVars>>

\* Two connections of one node.
Hub == INSTANCE HubSessions WITH NodeOf <- [c \in Conns |-> n1], NodeLimit <- 2

\* A job for two nodes, one of them named twice, upgraded one at a time.
Upgrade == INSTANCE NodeUpgrade
             WITH NodeNames <- <<n1, n1, n2>>, Eligible <- {n1, n2}, Concurrency <- 1,
                  MaxRequests <- 1, MaxFailures <- 1, MaxRestarts <- 0

\* Two reports, one lost connection, one failed patch.
Reports == INSTANCE DeviceReports
             WITH link <- online, sent <- asked, failures <- rejected,
                  MaxReports <- 2, MaxCopies <- 2, MaxDrops <- 1, MaxFailures <- 1

Init ==
  /\ part \in {"hub", "upgrade", "reports"}
  /\ Hub!Init /\ Upgrade!Init /\ Reports!Init

\* Only one part moves.
InHub     == part = "hub" /\ UNCHANGED <<part, upgradeVars, reportVars>>
InUpgrade == part = "upgrade" /\ UNCHANGED <<part, hubVars, reportVars>>
InReports == part = "reports" /\ UNCHANGED <<part, hubVars, upgradeVars>>

Next == (InHub /\ Hub!Next) \/ (InUpgrade /\ Upgrade!Next) \/ (InReports /\ Reports!Next)

\* The fairness each part states for itself, of the part that moves: its steps
\* leave the variables of the others alone.
HubFairness ==
  \A c \in Conns :
    /\ WF_hubVars(part = "hub" /\ Hub!Handle(c))
    /\ WF_hubVars(part = "hub" /\ Hub!ReadFails(c))
    /\ WF_hubVars(part = "hub" /\ Hub!OnReadTransportErr(c))
    /\ WF_hubVars(part = "hub" /\ ~Hub!Fed(c) /\ Hub!KeepAliveTimeout(c))

UpgradeFairness ==
  /\ WF_upgradeVars(part = "upgrade" /\ Upgrade!syncNodeUpgradeJob)
  /\ WF_upgradeVars(part = "upgrade" /\ Upgrade!SelectStep)
  /\ SF_upgradeVars(part = "upgrade" /\ Upgrade!PollTimeout)
  /\ WF_upgradeVars(part = "upgrade" /\ Upgrade!WorkStep)

ReportsFairness ==
  /\ WF_reportVars(part = "reports" /\ Reports!dealSendToCloud)
  /\ WF_reportVars(part = "reports" /\ Reports!dealLifeCycle)
  /\ WF_reportVars(part = "reports" /\ Reports!dealConfirm)
  /\ WF_reportVars(part = "reports" /\ Reports!checkConfirm)
  /\ WF_reportVars(part = "reports" /\ Reports!updateDeviceStatus)
  /\ WF_reportVars(part = "reports" /\ Reports!dispatchDetail)
  /\ WF_reportVars(part = "reports" /\ Reports!distributeMsg)
  /\ WF_reportVars(part = "reports" /\ Reports!Connect)

FairSpec == Init /\ [][Next]_vars /\ HubFairness /\ UpgradeFairness /\ ReportsFairness

-----------------------------------------------------------------------------
\* The variables of the part that moves have their types.
TypeOK ==
  /\ part = "hub" => Hub!TypeOK
  /\ part = "upgrade" => Upgrade!TypeOK
  /\ part = "reports" => Reports!TypeOK

\* The session of a connection that broke, or that AddSession replaced, comes
\* to its end (HubSessions).
AbandonedEnds == Hub!AbandonedEnds

\* selectConcurrentNodes hands out its nodes and ends (NodeUpgrade).
SelectionEnds == Upgrade!SelectionEnds

\* A report that was sent is patched in the end, and the edge does not forget
\* it before (DeviceReports).
SentIsPatched == Reports!SentIsPatched /\ []Reports!ForgottenIsPatched
=============================================================================
