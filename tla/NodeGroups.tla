------------------------------ MODULE NodeGroups ------------------------------
(***************************************************************************)
(* The node group controller                                               *)
(* (cloud/pkg/controllermanager/nodegroup/nodegroupcontroller.go).         *)
(*                                                                         *)
(* A NodeGroup selects nodes by name or by label.  The controller labels   *)
(* the nodes a group selects (LabelBelongingTo), evicts those it no longer *)
(* selects together with the pods of the group, and empties a group before *)
(* its finalizer is removed.  One worker reconciles one group at a time:   *)
(* it reads the group and the nodes, and then patches them.  Reads are of  *)
(* an informer cache that has caught up when a reconcile starts.           *)
(***************************************************************************)
EXTENDS Naturals, FiniteSets, Sequences

CONSTANTS
    Nodes,
    Listed,         \* the groups in the order in which they are listed
    Labelled,       \* the groups with MatchLabels; the others have none
    None,
    MaxChanges,     \* bound: what users do to nodes and groups
    MaxFailures     \* bound: calls of the API server that fail

VARIABLES
    group,      \* a NodeGroup: "absent", "live" or "deleting", and Spec.Nodes
    finalizer,  \* groups with the finalizer
    status,     \* Status.NodeStatuses: nodes per SelectionStatus
    exists,     \* the nodes that exist
    labels,     \* the groups whose MatchLabels a node matches
    belongs,    \* the label LabelBelongingTo of a node, or None
    pods,       \* pods of a group running on a node
    events,     \* node events that were not yet mapped to requests
    queue,      \* requests: the groups to reconcile
    work,       \* the group being reconciled and the nodes read, or None
    changes, failures, stranded

vars == <<group, finalizer, status, exists, labels, belongs, pods, events, queue, work, changes,
          failures, stranded>>

Groups == {Listed[i] : i \in DOMAIN Listed}

\* What an event says of a node: the old object and the new one are both mapped.
NodeEvents(N, b, l) ==
    UNION {{[node |-> n, belongs |-> belongs[n], labels |-> labels[n]],
            [node |-> n, belongs |-> b[n], labels |-> l[n]]} : n \in N}

\* getNodesSelectedBy, with nodesUnion: getNodesByLabels selects no node for
\* a group without labels, getNodesByNodeName skips names without node.
getNodesSelectedBy(g) ==
    {n \in exists : n \in group[g].nodes \/ (g \in Labelled /\ g \in labels[n])}

\* IfMatchNodeGroup: the selector of a group without labels matches all nodes.
IfMatchNodeGroup(e, g) ==
    e.node \in group[g].nodes \/ g \notin Labelled \/ g \in e.labels

\* It is not looked whether the node has the label.
nodeMapFuncUnchecked(e) == {e.belongs}

\* nodeMapFunc: the group a node belongs to, or the first one listed that matches.
nodeMapFunc(e) ==
    LET match == {i \in DOMAIN Listed :
                    group[Listed[i]].state # "absent" /\ IfMatchNodeGroup(e, Listed[i])}
    IN  IF e.belongs # None THEN {e.belongs}
        ELSE {Listed[i] : i \in {j \in match : \A k \in match : j <= k}}

-----------------------------------------------------------------------------
(* The cluster.                                                            *)

MayChange == changes < MaxChanges /\ changes' = changes + 1

\* A group is created, or its names changed, or it is deleted.
ChangeGroup(g) ==
    /\ MayChange
    /\ \/ /\ group[g].state # "deleting"
          /\ \E N \in SUBSET Nodes :
                /\ group[g].state = "live" => N # group[g].nodes
                /\ group' = [group EXCEPT ![g] = [state |-> "live", nodes |-> N]]
       \/ /\ group[g].state = "live"
          /\ group' = [group EXCEPT ![g].state = IF g \in finalizer THEN "deleting" ELSE "absent"]
    /\ queue' = queue \cup {g}
    /\ UNCHANGED <<finalizer, status, exists, labels, belongs, pods, events, work, failures, stranded>>

\* A node is relabelled, leaves or comes (back).
ChangeNode(n) ==
    /\ MayChange
    /\ \/ /\ n \in exists /\ UNCHANGED <<exists, belongs, pods>>
          /\ \E L \in SUBSET Labelled \ {labels[n]} : labels' = [labels EXCEPT ![n] = L]
       \/ /\ exists' = (exists \ {n}) \cup ({n} \ exists)
          /\ belongs' = [belongs EXCEPT ![n] = None]
          /\ pods' = {p \in pods : p.node # n}
          /\ UNCHANGED labels
    /\ events' = events \cup NodeEvents({n}, belongs', labels')
    /\ UNCHANGED <<group, finalizer, status, queue, work, failures, stranded>>

\* The scheduler places a pod of the group on a node that carries its label.
Schedule(g, n) ==
    /\ belongs[n] = g /\ [group |-> g, node |-> n] \notin pods
    /\ pods' = pods \cup {[group |-> g, node |-> n]}
    /\ UNCHANGED <<group, finalizer, status, exists, labels, belongs, events, queue, work, changes,
                   failures, stranded>>

\* A node event, old or new object, is mapped.
MapNode(e) ==
    /\ e \in events
    /\ events' = events \ {e}
    /\ queue' = queue \cup nodeMapFunc(e)
    /\ UNCHANGED <<group, finalizer, status, exists, labels, belongs, pods, work, changes, failures,
                   stranded>>

-----------------------------------------------------------------------------
(* The controller.                                                         *)

\* Reconcile up to the first patch of a node: the nodes as they were read.
Reconcile(g) ==
    /\ g \in queue /\ work = None
    /\ LET old == {n \in exists : belongs[n] = g}
           new == IF group[g].state = "live" THEN getNodesSelectedBy(g) ELSE {}
       IN  /\ work' = IF group[g].state = "absent" THEN None
                      ELSE [group |-> g, read |-> group[g], evict |-> old \ new, new |-> new,
                            belongs |-> belongs]
           /\ finalizer' = IF group[g].state = "live" THEN finalizer \cup {g} ELSE finalizer
           /\ queue' = (queue \ {g}) \cup (finalizer' \ finalizer)
    /\ UNCHANGED <<group, status, exists, labels, belongs, pods, events, changes, failures, stranded>>

\* evictPodsShouldNotRunOnNode: the pods of the group on the nodes evicted.
evictsPod(p) == p.group = work.group /\ p.node \in work.evict

\* evictNodes takes the label from the nodes but those in kept and deletes
\* the pods but those on the nodes in spared, whose calls fail; a node that
\* left cannot be patched.  added: the nodes that are labelled afterwards.
evictNodes(kept, spared, added) ==
    LET out == (work.evict \cap exists) \ kept
        touched == {n \in out : belongs[n] # None} \cup added
    IN  /\ belongs' = [n \in Nodes |-> IF n \in out THEN None
                                       ELSE IF n \in added THEN work.group ELSE belongs[n]]
        /\ pods' = {p \in pods : evictsPod(p) => p.node \in spared}
        /\ events' = events \cup NodeEvents(touched, belongs', labels)
        /\ stranded' = (stranded \/ \E p \in pods : evictsPod(p) /\ p.node \in spared \cap out)

EvictFails(kept, spared) == kept \cup spared \cup (work.evict \ exists) # {}

Failing(F) ==
    /\ F # {} => failures < MaxFailures
    /\ failures' = IF F # {} THEN failures + 1 ELSE failures

\* The finalizer is removed whatever happened to the nodes.
removeFinalizerAnyway(failed) ==
    /\ finalizer' = finalizer \ {work.group}
    /\ group' = [group EXCEPT ![work.group].state = "absent"]

\* removeFinalizer, unless the eviction failed: the group goes.
removeFinalizer(failed) ==
    IF failed THEN UNCHANGED <<finalizer, group>>
    ELSE /\ finalizer' = finalizer \ {work.group}
         /\ group' = [group EXCEPT ![work.group].state = "absent"]

\* The rest of Reconcile for a group that is deleted; an error requeues it.
ReconcileDeleted ==
    /\ work # None /\ work.read.state = "deleting"
    /\ \E kept \in SUBSET work.evict : \E spared \in SUBSET work.evict :
          /\ Failing(kept \cup spared)
          /\ evictNodes(kept, spared, {})
          /\ removeFinalizer(EvictFails(kept, spared))
          /\ queue' = IF EvictFails(kept, spared) THEN queue \cup {work.group} ELSE queue
    /\ work' = None
    /\ UNCHANGED <<status, exists, labels, changes>>

\* The rest of syncNodeGroup: nodes are evicted, and an error requeues the
\* group; the nodes selected are labelled unless they had the label of a group
\* (addOrUpdateNodeLabel), and the outcome becomes the status, which the API
\* server refuses when the group has changed since.
syncNodeGroup ==
    /\ work # None /\ work.read.state = "live"
    /\ \E kept \in SUBSET work.evict : \E spared \in SUBSET work.evict :
       \E unlabelled \in SUBSET {n \in work.new : work.belongs[n] = None} :
          LET g == work.group
              free == {n \in work.new : work.belongs[n] = None}
              mine == {n \in work.new : work.belongs[n] = g}
              added == (free \cap exists) \ unlabelled
              new == [ok |-> mine \cup added,
                      failed |-> (work.new \cup work.read.nodes) \ (mine \cup added)]
          IN  /\ Failing(kept \cup spared \cup unlabelled)
              /\ IF EvictFails(kept, spared)
                 THEN /\ unlabelled = {}
                      /\ evictNodes(kept, spared, {})
                      /\ queue' = queue \cup {g} /\ UNCHANGED status
                 ELSE /\ evictNodes(kept, spared, added)
                      /\ queue' = IF new # status[g] THEN queue \cup {g} ELSE queue
                      /\ status' = [status EXCEPT ![g] = IF group[g] = work.read THEN new ELSE @]
    /\ work' = None
    /\ UNCHANGED <<group, finalizer, exists, labels, changes>>

-----------------------------------------------------------------------------
Init ==
    /\ group = [g \in Groups |-> [state |-> "absent", nodes |-> {}]]
    /\ finalizer = {} /\ status = [g \in Groups |-> [ok |-> {}, failed |-> {}]]
    /\ exists = Nodes /\ labels = [n \in Nodes |-> {}]
    /\ belongs = [n \in Nodes |-> None]
    /\ pods = {} /\ events = {} /\ queue = {} /\ work = None
    /\ changes = 0 /\ failures = 0 /\ stranded = FALSE

Next ==
    \/ \E g \in Groups : ChangeGroup(g) \/ Reconcile(g) \/ \E n \in Nodes : Schedule(g, n)
    \/ \E n \in Nodes : ChangeNode(n)
    \/ \E e \in events : MapNode(e)
    \/ ReconcileDeleted \/ syncNodeGroup

Spec == Init /\ [][Next]_vars

-----------------------------------------------------------------------------
\* Nothing is left to reconcile.
Quiet == queue = {} /\ events = {} /\ work = None

\* The variables have their types.
TypeOK ==
    /\ \A g \in Groups : group[g].state \in {"absent", "live", "deleting"}
    /\ belongs \in [Nodes -> Groups \cup {None}]
    /\ queue \subseteq Groups /\ finalizer \subseteq Groups

\* A group that is gone left no label on a node: its finalizer outlives
\* failed evictions, and no node is labelled for it afterwards.
GoneLeavesNoLabel == \A n \in Nodes : belongs[n] # None => group[belongs[n]].state # "absent"

\* When all is reconciled a node belongs to a group only if that group still
\* selects it, whichever of the node and the groups changed last.
QuietSelected ==
    Quiet => \A n \in exists : belongs[n] # None =>
                group[belongs[n]].state = "live" /\ n \in getNodesSelectedBy(belongs[n])

\* When all is reconciled the pods of a group run on its nodes, unless the
\* eviction of a pod failed after the label of its node was removed.
QuietEvicted == Quiet /\ ~stranded => \A p \in pods : belongs[p.node] = p.group

\* A group that is gone left no label on a node; when all is reconciled a
\* node belongs only to a group that selects it, and the pods of a group run
\* on its nodes (syncNodeGroup and evictNodes).
GroupsSettle == GoneLeavesNoLabel /\ QuietSelected /\ QuietEvicted
=============================================================================
