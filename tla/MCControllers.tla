---------------------------- MODULE MCControllers ----------------------------
(***************************************************************************)
(* Three controllers of the cloud that share no state: edge applications,  *)
(* node groups, and the access of service accounts.  A behaviour is a      *)
(* behaviour of one of them, named by part, while the other two rest in    *)
(* their initial states.                                                   *)
(***************************************************************************)
EXTENDS NodeGroups, TLC

CONSTANTS d, c, dep, cm, g1, g2, n1, n2, p1, b1, b2, r1, r2

VARIABLES
    part,
    \* EdgeApplications
    spec, last, appStatus, objs, appQueue, appWork, watching, watchCh, cancelCh, gc, statusQueue,
    missed, appChanges, appFailures,
    \* PolicyAccess
    pod, account, subjects, role, access, sent, accessQueue, podEvents, accessWork, torn, narrowed,
    accessChanges, accessFailures

appVars == <<spec, last, appStatus, objs, appQueue, appWork, watching, watchCh, cancelCh, gc,
             statusQueue, missed, appChanges, appFailures>>
accessVars == <<pod, account, subjects, role, access, sent, accessQueue, podEvents, accessWork, torn,
                narrowed, accessChanges, accessFailures>>
allVars == <<part, appVars, vars, accessVars>>

\* Two groups, the first without labels, and one node.
MCListed == <<g1, g2>>

\* A deployment and a config map for one group; the second spec has a config
\* map that cannot be decoded, a new deployment, a second group and an
\* overrider with an error.
Manifest(name, v) == [name |-> name, v |-> v]
MCSpecs == {[manifests |-> <<Manifest(d, 1), Manifest(c, 1)>>, groups |-> {g1}, faulty |-> {}],
            [manifests |-> <<Manifest(c, 0), Manifest(d, 2)>>, groups |-> {g1, g2}, faulty |-> {g2}]}

Applications == INSTANCE EdgeApplications
                  WITH status <- appStatus, queue <- appQueue, work <- appWork,
                       changes <- appChanges, failures <- appFailures,
                       Specs <- MCSpecs, Kinds <- {dep, cm}, KindOf <- (d :> dep @@ c :> cm),
                       Overridable <- {dep}, Foreign <- {[name |-> c, group |-> None]},
                       MaxChanges <- 1, MaxFailures <- 1

\* One pod, two nodes and two bindings with a role each.
Access == INSTANCE PolicyAccess
            WITH queue <- accessQueue, events <- podEvents, work <- accessWork,
                 changes <- accessChanges, failures <- accessFailures,
                 Nodes <- {n1, n2}, Pods <- {p1}, Bindings <- <<b1, b2>>,
                 RoleOf <- (b1 :> r1 @@ b2 :> r2), MaxChanges <- 5, MaxFailures <- 1

MCInit ==
    /\ part \in {"applications", "groups", "access"}
    /\ Applications!Init /\ spec.faulty = {}
    /\ Init /\ Access!Init

\* Only one part moves.
InApplications == part = "applications" /\ UNCHANGED <<part, vars, accessVars>>
InGroups == part = "groups" /\ UNCHANGED <<part, appVars, accessVars>>
InAccess == part = "access" /\ UNCHANGED <<part, appVars, vars>>

MCNext == (InApplications /\ Applications!Next) \/ (InGroups /\ Next) \/ (InAccess /\ Access!Next)

MCSpec == MCInit /\ [][MCNext]_allVars

-----------------------------------------------------------------------------
\* The variables of the part that moves have their types.
AllTypeOK ==
    /\ part = "applications" => Applications!TypeOK
    /\ part = "groups" => TypeOK
    /\ part = "access" => Access!TypeOK

\* When nothing is left to do every template is applied in its last version
\* and has the one entry of the status, however the controllers overwrote
\* each other (EdgeApplications, applyTemplates and the status manager).
ApplicationsSettle == Applications!QuietApplied /\ Applications!QuietStatus

\* When all is reconciled a node has rules only if it has a pod of the
\* account, these are the rules of the access, and the access is that of the
\* bindings and roles (PolicyAccess, syncRules and mapObjectFunc).
AccessSettles == Access!ToldHavePods /\ Access!ToldIsCurrent /\ Access!RulesAreCurrent
=============================================================================
