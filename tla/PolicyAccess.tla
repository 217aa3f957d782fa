----------------------------- MODULE PolicyAccess -----------------------------
(***************************************************************************)
(* The policy controller (cloud/pkg/policycontroller): the rules of a      *)
(* service account are collected in a ServiceAccountAccess, which is sent  *)
(* to the edge nodes that run pods of the account.                         *)
(*                                                                         *)
(* Pods, the account, bindings and roles change; events of them are mapped *)
(* to a reconcile, which reads everything and then writes the access and   *)
(* tells the nodes.  One account is modelled; a node applies what it is    *)
(* told in order, so that only the last message to it counts.              *)
(***************************************************************************)
EXTENDS Naturals, Sequences, FiniteSets

CONSTANTS
    Nodes, Pods,
    Bindings,       \* cluster role bindings and role bindings, in the order listed
    RoleOf,         \* the role of a binding (RoleRef)
    None,
    MaxChanges,     \* bound: changes of pods, account, bindings and roles
    MaxFailures     \* bound: writes to the API server that fail

VARIABLES
    pod,        \* a pod: "absent", "bound" or "deleting", and its node
    account,    \* the UID of the service account; 0 if there is none
    subjects,   \* a binding: "absent", "named" (its subjects apply) or "other"
    role,       \* the version of a role; 0 if there is none
    access,     \* the ServiceAccountAccess: rules, UID and Status.NodeList, or None
    sent,       \* what a node was told last
    queue,      \* the access is to be reconciled
    events,     \* pods with an event that was not mapped yet
    work,       \* what the reconcile under way has read, or None
    torn,       \* history: the access was updated and its status was not
    narrowed,   \* history: a binding was edited to name the account no more
    changes, failures

vars == <<pod, account, subjects, role, access, sent, queue, events, work, torn, narrowed,
          changes, failures>>

cluster == <<pod, account, subjects, role>>

BindingNames == {Bindings[i] : i \in DOMAIN Bindings}
Roles == {RoleOf[b] : b \in BindingNames}
NoPod == [state |-> "absent", node |-> None]

\* appliesTo and GetRoleReferenceRules in VisitRulesFor: the bindings that
\* apply with the rules of their roles; a role that is missing ends the visit.
VisitRulesFor ==
    LET missing == {i \in DOMAIN Bindings : subjects[Bindings[i]] = "named" /\ role[RoleOf[Bindings[i]]] = 0}
    IN  {<<Bindings[i], role[RoleOf[Bindings[i]]]>> :
           i \in {j \in DOMAIN Bindings : subjects[Bindings[j]] = "named"
                                            /\ \A m \in missing : j < m}}

\* getNodeListOfServiceAccountAccess.
NodeList == {pod[p].node : p \in {q \in Pods : pod[q].state # "absent"}}

-----------------------------------------------------------------------------
(* The cluster, with the events of roles, bindings and the account.        *)

MayChange == changes < MaxChanges /\ changes' = changes + 1

ChangePod(p) ==
    /\ MayChange
    /\ \/ /\ pod[p].state = "absent"
          /\ \E n \in Nodes : pod' = [pod EXCEPT ![p] = [state |-> "bound", node |-> n]]
       \/ pod[p].state = "bound" /\ pod' = [pod EXCEPT ![p].state = "deleting"]
       \/ pod[p].state = "deleting" /\ pod' = [pod EXCEPT ![p] = NoPod]
    /\ events' = events \cup {[pod |-> p, deleting |-> pod[p].state # "absent"]}
    /\ UNCHANGED <<account, subjects, role, access, sent, queue, work, torn, narrowed, failures>>

\* filterObject and mapObjectFunc of a service account: deleted, or created anew.
ChangeAccount ==
    /\ MayChange
    /\ account' = IF account = 0 THEN changes + 1 ELSE 0
    /\ queue' = (queue \/ access # None)
    /\ UNCHANGED <<pod, subjects, role, access, sent, events, work, torn, narrowed, failures>>

\* Only cluster roles and roles of the first binding are matched.
matchRoleOfFirst(r) == access # None /\ r = RoleOf[Bindings[1]] /\ subjects[Bindings[1]] = "named"

\* matchTarget for a role: some binding to it applies to the account.
matchRole(r) == access # None /\ \E b \in BindingNames : RoleOf[b] = r /\ subjects[b] = "named"

\* filterResource and mapRolesFunc of a role that is changed, deleted or created.
ChangeRole(r) ==
    /\ MayChange
    /\ \/ role' = [role EXCEPT ![r] = changes + 1]
       \/ role[r] # 0 /\ role' = [role EXCEPT ![r] = 0]
    /\ queue' = (queue \/ matchRole(r))
    /\ UNCHANGED <<pod, account, subjects, access, sent, events, work, torn, narrowed, failures>>

\* The same of a binding.  An update is filtered by its new object, a
\* deletion by the object deleted.
ChangeBinding(b) ==
    /\ MayChange
    /\ \E s \in {"absent", "named", "other"} \ {subjects[b]} :
          /\ subjects' = [subjects EXCEPT ![b] = s]
          /\ queue' = (queue \/ (access # None /\ IF s = "absent" THEN subjects[b] = "named"
                                                  ELSE s = "named"))
          /\ narrowed' = (narrowed \/ (s = "other" /\ subjects[b] = "named"))
    /\ UNCHANGED <<pod, account, role, access, sent, events, work, torn, failures>>

-----------------------------------------------------------------------------
(* The controller.                                                         *)

Failing(F) ==
    /\ F # {} => failures < MaxFailures
    /\ failures' = IF F # {} THEN failures + 1 ELSE failures

\* mapObjectFunc of a pod: an access is created for the first pod; otherwise
\* only pods that are deleted cause a reconcile.
mapObjectFunc(e) ==
    /\ e \in events /\ events' = events \ {e}
    /\ \/ access # None /\ queue' = (queue \/ e.deleting) /\ UNCHANGED <<access, failures>>
       \/ access = None /\ e.deleting /\ UNCHANGED <<access, queue, failures>>
       \/ /\ access = None /\ ~e.deleting
          /\ \E F \in SUBSET {0} :
                /\ Failing(F)
                /\ access' = IF F # {} THEN None ELSE [rules |-> {}, uid |-> 0, nodes |-> {}]
                /\ queue' = (queue \/ F = {})
    /\ UNCHANGED <<cluster, sent, work, torn, narrowed, changes>>

\* Reconcile and syncRules up to the first write.
Reconcile ==
    /\ queue /\ work = None
    /\ queue' = FALSE
    /\ work' = IF access = None THEN None
               ELSE [account |-> account, rules |-> VisitRulesFor, nodes |-> NodeList]
    /\ UNCHANGED <<cluster, access, sent, events, torn, narrowed, changes, failures>>

\* send2Edge.
send2Edge(targets, what) == [n \in Nodes |-> IF n \in targets THEN what ELSE sent[n]]

Requeue == queue' = TRUE /\ UNCHANGED <<access, sent, torn>>

\* The access is deleted and its nodes are told.
DeleteAccess(targets) ==
    \E F \in SUBSET {0} :
       /\ Failing(F)
       /\ IF F # {} THEN Requeue
          ELSE access' = None /\ sent' = send2Edge(targets, None) /\ UNCHANGED <<queue, torn>>

\* The nodes that are told of an update of the rules.
Told(nodes) == nodes

\* The rules changed: the access, then its status; F is the write that fails.
UpdateAccess(gone) ==
    LET new == [rules |-> work.rules, uid |-> work.account, nodes |-> access.nodes]
        left == send2Edge(gone, None)
    IN  \E F \in SUBSET {"spec", "status"} :
           /\ Cardinality(F) <= 1 /\ ("status" \in F => work.nodes # access.nodes)
           /\ Failing(F)
           /\ access' = IF "spec" \in F THEN access
                        ELSE IF "status" \in F THEN new ELSE [new EXCEPT !.nodes = work.nodes]
           /\ sent' = IF F # {} THEN left
                      ELSE [n \in Nodes |-> IF n \in Told(work.nodes) THEN work.rules ELSE left[n]]
           /\ queue' = TRUE
           /\ torn' = (torn \/ "status" \in F)

\* They did not: nodes are added, and only then the status is written.
AddNodes(gone) ==
    LET added == work.nodes \ access.nodes
        left == send2Edge(gone, None)
    IN  IF added = {} THEN sent' = left /\ UNCHANGED <<access, queue, torn, failures>>
        ELSE \E F \in SUBSET {0} :
                /\ Failing(F)
                /\ access' = IF F # {} THEN access ELSE [access EXCEPT !.nodes = work.nodes]
                /\ sent' = IF F # {} THEN left
                           ELSE [n \in Nodes |-> IF n \in added THEN access.rules ELSE left[n]]
                /\ queue' = TRUE
                /\ UNCHANGED torn

\* The writes of syncRules.
syncRules ==
    /\ work # None /\ work' = None
    /\ LET gone == access.nodes \ work.nodes
       IN  \/ work.account = 0 /\ DeleteAccess(access.nodes)
           \/ /\ work.account # 0 /\ work.nodes = {} /\ access.nodes = {}
              /\ UNCHANGED <<access, sent, queue, torn, failures>>
           \/ work.account # 0 /\ work.nodes = {} /\ gone # {} /\ DeleteAccess(gone)
           \/ /\ work.account # 0 /\ work.nodes # {}
              /\ IF work.rules # access.rules \/ work.account # access.uid
                 THEN UpdateAccess(gone) ELSE AddNodes(gone)
    /\ UNCHANGED <<cluster, events, narrowed, changes>>

-----------------------------------------------------------------------------
Init ==
    /\ pod = [p \in Pods |-> NoPod] /\ account = 1
    /\ subjects = [b \in BindingNames |-> "named"] /\ role = [r \in Roles |-> 1]
    /\ access = None /\ sent = [n \in Nodes |-> None]
    /\ queue = FALSE /\ events = {} /\ work = None
    /\ torn = FALSE /\ narrowed = FALSE /\ changes = 1 /\ failures = 0

Next ==
    \/ \E p \in Pods : ChangePod(p)
    \/ ChangeAccount
    \/ \E r \in Roles : ChangeRole(r)
    \/ \E b \in BindingNames : ChangeBinding(b)
    \/ \E e \in events : mapObjectFunc(e)
    \/ Reconcile \/ syncRules

Spec == Init /\ [][Next]_vars

-----------------------------------------------------------------------------
Quiet == ~queue /\ events = {} /\ work = None

\* The variables have their types.
TypeOK ==
    /\ \A p \in Pods : pod[p].state \in {"absent", "bound", "deleting"}
    /\ access # None => access.nodes \subseteq Nodes
    /\ queue \in BOOLEAN /\ torn \in BOOLEAN /\ narrowed \in BOOLEAN

\* When all is reconciled a node that has rules has those of the access,
\* unless a reconcile failed between the access and its status.
ToldIsCurrent ==
    Quiet /\ ~torn => \A n \in Nodes : sent[n] # None => access # None /\ sent[n] = access.rules

\* When all is reconciled the access that nodes have is that of the bindings
\* and roles, unless a binding was edited to name the account no more.
RulesAreCurrent ==
    Quiet /\ ~narrowed /\ access # None /\ access.nodes # {} =>
        access.rules = VisitRulesFor /\ access.uid = account

\* When all is reconciled only nodes with a pod of the account have rules.
ToldHavePods == Quiet => \A n \in Nodes : sent[n] # None => n \in NodeList
=============================================================================
