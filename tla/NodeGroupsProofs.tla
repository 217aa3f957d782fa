--------------------------- MODULE NodeGroupsProofs ---------------------------
(***************************************************************************)
(* A NodeGroup that is gone left no label on a node, for any number of     *)
(* nodes, groups, changes and failing calls.                               *)
(*                                                                         *)
(* The label of a node is set by the one worker only, for the group it     *)
(* reconciles, and that group has the finalizer from its first reconcile   *)
(* on.  Hence every label names a group with the finalizer, and such a     *)
(* group is not absent.  The finalizer is removed at the end of a reconcile*)
(* that read the group as deleted and evicted every node with its label:   *)
(* no label was added in between.                                          *)
(*                                                                         *)
(* The second part is about quiet states, by the invariant SInv: a label   *)
(* that is wrong is attended to, by a request for its group, an event of a *)
(* node or the reconcile under way, and the pods of a group are on nodes   *)
(* with its label or about to be evicted.                                  *)
(***************************************************************************)
EXTENDS NodeGroups, TLAPS

States == {"absent", "live", "deleting"}

\* The types the argument needs.
Typed ==
    /\ group \in [Groups -> [state : States, nodes : SUBSET Nodes]]
    /\ belongs \in [Nodes -> Groups \cup {None}]
    /\ exists \subseteq Nodes
    /\ finalizer \subseteq Groups

\* A group with the finalizer is there, and only such a group can be "deleting".
Finalized ==
    \A g \in Groups : /\ g \in finalizer => group[g].state # "absent"
                      /\ group[g].state = "deleting" => g \in finalizer

\* Labels name groups with the finalizer, and are on nodes that exist.
LabelsFinalized ==
    \A n \in Nodes : belongs[n] # None => n \in exists /\ belongs[n] \in finalizer

\* The group being reconciled has the finalizer; when it was read as deleted
\* all nodes with its label are about to be evicted.
WorkCovers ==
    work # None =>
      /\ work.group \in finalizer
      /\ work.read.state = "deleting" =>
           \A n \in Nodes : belongs[n] # None /\ belongs[n] = work.group => n \in work.evict

\* The inductive invariant.
IInv == Typed /\ Finalized /\ LabelsFinalized /\ WorkCovers

-----------------------------------------------------------------------------
\* The initial states, without group, satisfy the invariant.
LEMMA InitIInv == Init => IInv
  BY DEF Init, IInv, Typed, Finalized, LabelsFinalized, WorkCovers, States

\* Users change groups: one with the finalizer is only marked for deletion.
LEMMA ChangeGroupKeeps == ASSUME IInv, NEW g \in Groups, ChangeGroup(g) PROVE IInv'
<1> USE DEF ChangeGroup, IInv
<1>1. Typed' /\ Finalized'
  BY DEF Typed, Finalized, States
<1>2. LabelsFinalized' /\ WorkCovers'
  BY DEF LabelsFinalized, WorkCovers
<1> QED BY <1>1, <1>2

\* A node that leaves or comes has no label.
LEMMA ChangeNodeKeeps == ASSUME IInv, NEW n \in Nodes, ChangeNode(n) PROVE IInv'
<1>1. /\ UNCHANGED <<group, finalizer, work>>
      /\ \/ UNCHANGED <<exists, belongs>>
         \/ /\ exists' = (exists \ {n}) \cup ({n} \ exists)
            /\ belongs' = [belongs EXCEPT ![n] = None]
  BY DEF ChangeNode
<1>2. Typed' /\ Finalized'
  BY <1>1 DEF IInv, Typed, Finalized
<1>3. LabelsFinalized' /\ WorkCovers'
  BY <1>1 DEF IInv, Typed, LabelsFinalized, WorkCovers
<1> QED BY <1>2, <1>3 DEF IInv

\* Reconcile adds the finalizer to a live group and reads the nodes with the label.
LEMMA ReconcileKeeps == ASSUME IInv, NEW g \in Groups, Reconcile(g) PROVE IInv'
<1>1. UNCHANGED <<group, exists, belongs>>
  BY DEF Reconcile
<1>2. finalizer' = IF group[g].state = "live" THEN finalizer \cup {g} ELSE finalizer
  BY DEF Reconcile
<1>3. Typed' /\ Finalized'
  BY <1>1, <1>2 DEF IInv, Typed, Finalized
<1>4. LabelsFinalized'
  BY <1>1, <1>2 DEF IInv, LabelsFinalized
<1>5. WorkCovers'
  <2>1. CASE group[g].state = "absent"
    BY <2>1 DEF Reconcile, WorkCovers
  <2>2. CASE group[g].state # "absent"
    <3>1. PICK E, N : work' = [group |-> g, read |-> group[g], evict |-> E, new |-> N,
                               belongs |-> belongs]
                      /\ (group[g].state # "live" => E = {n \in exists : belongs[n] = g})
      BY Zenon, <2>2 DEF Reconcile
    <3>2. g \in finalizer'
      BY <1>2, <2>2 DEF IInv, Typed, Finalized, States
    <3> QED
      BY <1>1, <3>1, <3>2 DEF IInv, Typed, LabelsFinalized, WorkCovers
  <2> QED BY <2>1, <2>2
<1> QED BY <1>3, <1>4, <1>5 DEF IInv

\* The finalizer is removed only when the eviction left no label of the group.
LEMMA ReconcileDeletedKeeps == ASSUME IInv, ReconcileDeleted PROVE IInv'
<1>1. PICK kept \in SUBSET work.evict, spared \in SUBSET work.evict :
        evictNodes(kept, spared, {}) /\ removeFinalizer(EvictFails(kept, spared))
  BY DEF ReconcileDeleted
<1>2. /\ work # None /\ work.read.state = "deleting"
      /\ work' = None /\ exists' = exists
  BY DEF ReconcileDeleted
<1>3. belongs' = [n \in Nodes |-> IF n \in (work.evict \cap exists) \ kept THEN None
                                  ELSE belongs[n]]
  BY <1>1 DEF evictNodes
<1>4. work.group \in Groups
  BY <1>2 DEF IInv, Typed, WorkCovers
<1>5. CASE EvictFails(kept, spared)
  <2>1. UNCHANGED <<finalizer, group>>
    BY <1>1, <1>5 DEF removeFinalizer
  <2> QED
    BY <1>2, <1>3, <2>1 DEF IInv, Typed, Finalized, LabelsFinalized, WorkCovers
<1>6. CASE ~EvictFails(kept, spared)
  <2>1. /\ finalizer' = finalizer \ {work.group}
        /\ group' = [group EXCEPT ![work.group].state = "absent"]
    BY <1>1, <1>6 DEF removeFinalizer
  <2>2. kept = {}
    BY <1>6 DEF EvictFails
  <2>3. Typed' /\ Finalized'
    BY <1>2, <1>3, <1>4, <2>1 DEF IInv, Typed, Finalized, States
  <2>4. LabelsFinalized'
    BY <1>2, <1>3, <2>1, <2>2 DEF IInv, Typed, LabelsFinalized, WorkCovers
  <2> QED BY <1>2, <2>3, <2>4 DEF IInv, WorkCovers
<1> QED BY <1>5, <1>6

\* Nodes are labelled for the group that is reconciled, which has the finalizer.
LEMMA SyncNodeGroupKeeps == ASSUME IInv, syncNodeGroup PROVE IInv'
<1>1. /\ work # None /\ work' = None
      /\ UNCHANGED <<group, finalizer, exists>>
  BY DEF syncNodeGroup
<1>2. PICK out, added : /\ added \subseteq exists
                        /\ belongs' = [n \in Nodes |->
                             IF n \in out THEN None
                             ELSE IF n \in added THEN work.group ELSE belongs[n]]
  <2>1. PICK kept, spared, added :
          added \subseteq exists /\ evictNodes(kept, spared, added)
    BY DEF syncNodeGroup
  <2> QED BY Zenon, <2>1 DEF evictNodes
<1>3. work.group \in finalizer
  BY <1>1 DEF IInv, WorkCovers
<1> QED
  BY <1>1, <1>2, <1>3 DEF IInv, Typed, Finalized, LabelsFinalized, WorkCovers

\* Every step keeps the invariant.
LEMMA NextIInv == IInv /\ [Next]_vars => IInv'
<1> SUFFICES ASSUME IInv, [Next]_vars PROVE IInv'
  OBVIOUS
<1>1. ASSUME UNCHANGED <<group, finalizer, exists, belongs, work>> PROVE IInv'
  BY <1>1 DEF IInv, Typed, Finalized, LabelsFinalized, WorkCovers
<1>2. CASE UNCHANGED vars
  BY <1>1, <1>2 DEF vars
<1>3. ASSUME NEW g \in Groups, ChangeGroup(g) PROVE IInv'
  BY <1>3, ChangeGroupKeeps
<1>4. ASSUME NEW g \in Groups, Reconcile(g) PROVE IInv'
  BY <1>4, ReconcileKeeps
<1>5. ASSUME NEW g \in Groups, NEW n \in Nodes, Schedule(g, n) PROVE IInv'
  BY <1>1, <1>5 DEF Schedule
<1>6. ASSUME NEW n \in Nodes, ChangeNode(n) PROVE IInv'
  BY <1>6, ChangeNodeKeeps
<1>7. ASSUME NEW e \in events, MapNode(e) PROVE IInv'
  BY <1>1, <1>7 DEF MapNode
<1>8. CASE ReconcileDeleted
  BY <1>8, ReconcileDeletedKeeps
<1>9. CASE syncNodeGroup
  BY <1>9, SyncNodeGroupKeeps
<1> QED BY <1>2, <1>3, <1>4, <1>5, <1>6, <1>7, <1>8, <1>9 DEF Next

\* A group that is gone left no label on a node: failed evictions, nodes that
\* leave and groups that are changed while they are reconciled included.
THEOREM GoneGroupsLeaveNoLabel == Spec => []GoneLeavesNoLabel
<1>1. IInv => GoneLeavesNoLabel
  BY DEF IInv, Typed, Finalized, LabelsFinalized, GoneLeavesNoLabel
<1> QED BY <1>1, InitIInv, NextIInv, PTL DEF Spec


-----------------------------------------------------------------------------
(* A node belongs to a group that selects it, once all is reconciled.      *)
(*                                                                         *)
(* Whatever may make a label wrong leaves something behind that leads to   *)
(* another reconcile of its group: the request for a group that changed,   *)
(* the event of a node that had the label when it changed, and the event   *)
(* of the patch that set the label, however old the nodes were that it was *)
(* decided on.                                                             *)

\* None is neither a group nor what a reconcile has read.
Constants ==
    /\ None \notin Groups
    /\ \A g, r, e, n, b :
         None # [group |-> g, read |-> r, evict |-> e, new |-> n, belongs |-> b]

\* The group of a label is to be reconciled again, the node is about to be evicted by the
\* reconcile under way, or the label is right.
Attended(n, g) ==
    \/ g \in queue
    \/ \E e \in events : e.belongs = g
    \/ work # None /\ work.group = g /\ n \in work.evict
    \/ group[g].state = "live" /\ n \in getNodesSelectedBy(g)

AllAttended == \A n \in Nodes : belongs[n] # None => Attended(n, belongs[n])

\* Reconcile(g) reads the nodes of the group: those it does not select are to be evicted.
LEMMA ReconcileAttends ==
  ASSUME Constants, IInv, AllAttended, NEW g \in Groups, Reconcile(g)
  PROVE  AllAttended'
<1>1. /\ UNCHANGED <<group, exists, labels, belongs, events>> /\ work = None
      /\ queue \ {g} \subseteq queue'
  BY DEF Reconcile
<1>2. ASSUME NEW n \in Nodes, belongs[n] # None
      PROVE  Attended(n, belongs[n])'
  <2>1. n \in exists /\ belongs[n] \in finalizer /\ belongs[n] \in Groups
    BY <1>2 DEF IInv, LabelsFinalized, Typed
  <2>2. CASE belongs[n] # g
    BY <1>1, <1>2, <2>2 DEF AllAttended, Attended, getNodesSelectedBy
  <2>3. CASE belongs[n] = g
    <3>1. group[g].state # "absent"
      BY <2>1, <2>3 DEF IInv, Finalized
    <3> DEFINE new == IF group[g].state = "live" THEN getNodesSelectedBy(g) ELSE {}
               old == {m \in exists : belongs[m] = g}
    <3>2. work' = [group |-> g, read |-> group[g], evict |-> old \ new, new |-> new,
                   belongs |-> belongs]
      BY <3>1 DEF Reconcile
    <3>3. n \in old
      BY <2>1, <2>3
    <3>4. CASE n \in new
      BY <1>1, <2>3, <3>4 DEF Attended, getNodesSelectedBy
    <3>5. CASE n \notin new
      <4> HIDE DEF new, old
      <4>1. n \in work'.evict /\ work'.group = g
        BY <3>2, <3>3, <3>5
      <4>2. work' # None
        BY <3>2 DEF Constants
      <4> QED BY <1>1, <2>3, <4>1, <4>2 DEF Attended
    <3> QED BY <3>4, <3>5
  <2> QED BY <2>2, <2>3
<1> QED BY <1>1, <1>2 DEF AllAttended


LabelsTyped == DOMAIN labels = Nodes

\* A group that changed is requeued.
LEMMA ChangeGroupAttends ==
  ASSUME IInv, AllAttended, NEW g \in Groups, ChangeGroup(g)
  PROVE  AllAttended'
<1>1. /\ UNCHANGED <<exists, labels, belongs, events, work>> /\ queue' = queue \cup {g}
      /\ \A h \in Groups : h # g => group'[h] = group[h]
  BY DEF ChangeGroup, IInv, Typed
<1>2. ASSUME NEW n \in Nodes, belongs[n] # None
      PROVE  Attended(n, belongs[n])'
  <2>1. belongs[n] \in Groups /\ Attended(n, belongs[n])
    BY <1>2 DEF IInv, Typed, AllAttended
  <2> QED BY <1>1, <2>1 DEF Attended, getNodesSelectedBy
<1> QED BY <1>1, <1>2 DEF AllAttended

\* The event of a node carries its label.
LEMMA ChangeNodeAttends ==
  ASSUME IInv, LabelsTyped, AllAttended, NEW m \in Nodes, ChangeNode(m)
  PROVE  AllAttended' /\ LabelsTyped'
<1>1. UNCHANGED <<group, queue, work>> /\ events \subseteq events'
  BY DEF ChangeNode
<1>2. PICK e : e \in events' /\ e.belongs = belongs[m]
  <2>1. PICK e : e = [node |-> m, belongs |-> belongs[m], labels |-> labels[m]]
    BY Zenon
  <2>2. e \in NodeEvents({m}, belongs', labels')
    BY <2>1 DEF NodeEvents
  <2> QED BY <2>1, <2>2 DEF ChangeNode
<1>3. LabelsTyped' /\ \A n \in Nodes : n # m => labels'[n] = labels[n]
  BY DEF ChangeNode, LabelsTyped
<1>4. \A n \in Nodes : n # m => (n \in exists <=> n \in exists')
  BY DEF ChangeNode
<1>5. \A n \in Nodes : belongs'[n] = belongs[n] \/ belongs'[n] = None
  BY DEF ChangeNode, IInv, Typed
<1>6. ASSUME NEW n \in Nodes, belongs'[n] # None
      PROVE  Attended(n, belongs[n])'
  <2>1. belongs'[n] = belongs[n] /\ Attended(n, belongs[n])
    BY <1>5, <1>6 DEF AllAttended
  <2>2. CASE n = m
    BY <1>2, <2>1, <2>2 DEF Attended
  <2>3. CASE n # m
    <3>1. PICK g : g = belongs[n] /\ Attended(n, g)
      BY <2>1
    <3>2. Attended(n, g)'
      BY <1>1, <1>3, <1>4, <2>3, <3>1 DEF Attended, getNodesSelectedBy
    <3> QED BY <2>1, <3>1, <3>2
  <2> QED BY <2>2, <2>3
<1> QED BY <1>3, <1>6 DEF AllAttended

\* nodeMapFunc maps the event of a node with a label to the group of the label.
LEMMA MapNodeAttends ==
  ASSUME AllAttended, NEW e \in events, MapNode(e)
  PROVE  AllAttended'
<1>1. /\ UNCHANGED <<group, exists, labels, belongs, work>>
      /\ events' = events \ {e} /\ queue \subseteq queue'
  BY DEF MapNode
<1>2. e.belongs # None => e.belongs \in queue'
  BY DEF MapNode, nodeMapFunc
<1>3. ASSUME NEW n \in Nodes, belongs[n] # None
      PROVE  Attended(n, belongs[n])'
  <2>1. PICK g : g = belongs[n] /\ g # None /\ Attended(n, g)
    BY <1>3 DEF AllAttended
  <2>2. Attended(n, g)'
    BY <1>1, <1>2, <2>1 DEF Attended, getNodesSelectedBy
  <2> QED BY <1>1, <2>1, <2>2
<1> QED BY <1>1, <1>3 DEF AllAttended

\* The end of a reconcile: out are the nodes evicted, added those labelled.
LEMMA PatchesAttend ==
  ASSUME IInv, IInv', AllAttended, NEW out, NEW added, work' = None, UNCHANGED <<exists, labels>>,
         \A g \in Groups : group'[g] = group[g] \/ group'[g].state = "absent",
         events \subseteq events', queue \subseteq queue',
         belongs' = [n \in Nodes |-> IF n \in out THEN None
                                     ELSE IF n \in added THEN work.group ELSE belongs[n]],
         \A n \in added \ out : \E e \in events' : e.belongs = work.group,
         work # None => work.group \in queue' \/ work.evict \cap Nodes \subseteq out
  PROVE  AllAttended'
<1>1. ASSUME NEW n \in Nodes, belongs'[n] # None
      PROVE  Attended(n, belongs[n])'
  <2>1. n \notin out
    BY <1>1
  <2>2. CASE n \in added
    BY <2>1, <2>2 DEF Attended
  <2>3. CASE n \notin added
    <3>1. PICK g : g = belongs[n] /\ g = belongs'[n] /\ Attended(n, g)
      BY <1>1, <2>1, <2>3 DEF AllAttended
    <3>2. g \in Groups /\ group'[g].state # "absent"
      BY <1>1, <3>1 DEF IInv, Typed, LabelsFinalized, Finalized
    <3>3. group'[g] = group[g]
      BY <3>2
    <3>4. Attended(n, g)'
      BY <2>1, <3>1, <3>3 DEF Attended, getNodesSelectedBy
    <3> QED BY <3>1, <3>4
  <2> QED BY <2>2, <2>3
<1> QED BY <1>1 DEF AllAttended


LEMMA ReconcileDeletedAttends ==
  ASSUME IInv, IInv', AllAttended, ReconcileDeleted
  PROVE  AllAttended'
<1>1. PICK kept \in SUBSET work.evict, spared \in SUBSET work.evict :
        /\ evictNodes(kept, spared, {}) /\ removeFinalizer(EvictFails(kept, spared))
        /\ queue' = IF EvictFails(kept, spared) THEN queue \cup {work.group} ELSE queue
  BY DEF ReconcileDeleted
<1>2. work # None /\ work' = None /\ UNCHANGED <<exists, labels>>
  BY DEF ReconcileDeleted
<1> DEFINE out == (work.evict \cap exists) \ kept
<1>3. /\ belongs' = [n \in Nodes |-> IF n \in out THEN None
                                     ELSE IF n \in {} THEN work.group ELSE belongs[n]]
      /\ events \subseteq events'
  BY <1>1 DEF evictNodes
<1>4. work.group \in queue' \/ work.evict \cap Nodes \subseteq out
  BY <1>1 DEF EvictFails
<1>5. \A g \in Groups : group'[g] = group[g] \/ group'[g].state = "absent"
  BY <1>1 DEF removeFinalizer, IInv, Typed
<1>6. queue \subseteq queue'
  BY <1>1
<1> HIDE DEF out
<1>7. \A n \in {} \ out : \E e \in events' : e.belongs = work.group
  OBVIOUS
<1> QED BY Zenon, <1>2, <1>3, <1>4, <1>5, <1>6, <1>7, PatchesAttend

\* The patch that sets a label is itself an event of the node.
LEMMA SyncNodeGroupAttends ==
  ASSUME IInv, IInv', AllAttended, syncNodeGroup
  PROVE  AllAttended'
<1>1. /\ work # None /\ work' = None /\ UNCHANGED <<group, exists, labels>>
  BY DEF syncNodeGroup
<1>2. PICK kept \in SUBSET work.evict, spared \in SUBSET work.evict, added \in SUBSET exists :
        /\ evictNodes(kept, spared, added) /\ queue \subseteq queue'
        /\ EvictFails(kept, spared) => work.group \in queue'
  BY DEF syncNodeGroup
<1> DEFINE out == (work.evict \cap exists) \ kept
<1>3. /\ belongs' = [n \in Nodes |-> IF n \in out THEN None
                                     ELSE IF n \in added THEN work.group ELSE belongs[n]]
      /\ events' = events \cup NodeEvents({n \in out : belongs[n] # None} \cup added, belongs', labels)
  BY <1>2 DEF evictNodes
<1>4. work.group \in queue' \/ work.evict \cap Nodes \subseteq out
  BY <1>2 DEF EvictFails, IInv, Typed
<1> HIDE DEF out
<1>5. ASSUME NEW n \in added \ out
      PROVE  \E e \in events' : e.belongs = work.group
  <2>1. n \in Nodes /\ belongs'[n] = work.group
    BY <1>2, <1>3 DEF IInv, Typed
  <2>2. PICK e : e = [node |-> n, belongs |-> belongs'[n], labels |-> labels[n]]
    BY Zenon
  <2>3. e \in NodeEvents({m \in out : belongs[m] # None} \cup added, belongs', labels)
    BY <2>2 DEF NodeEvents
  <2>4. e \in events'
    BY <1>3, <2>3, Zenon
  <2>5. e.belongs = work.group
    BY <2>1, <2>2
  <2> QED BY <2>4, <2>5
<1> QED BY Zenon, <1>1, <1>2, <1>3, <1>4, <1>5, PatchesAttend

-----------------------------------------------------------------------------
(* The pods of a group run on the nodes with its label.                    *)
(*                                                                         *)
(* Only the one worker sets labels, so that a label it read is still there *)
(* or gone when it patches the node, and never that of another group.      *)

WorkReads ==
    work # None =>
      /\ \A n \in Nodes : work.belongs[n] = None => belongs[n] = None
      /\ \A n \in Nodes : n \in work.evict => belongs[n] = work.group \/ belongs[n] = None

PodsOnNodes ==
    /\ pods \subseteq [group : Groups, node : Nodes]
    /\ ~stranded => \A p \in pods : belongs[p.node] = p.group

LEMMA ReconcileReads == ASSUME NEW g \in Groups, Reconcile(g) PROVE WorkReads'
<1>1. CASE work' = None
  BY <1>1 DEF WorkReads
<1>2. CASE group[g].state # "absent"
  <2>1. PICK N : work' = [group |-> g, read |-> group[g], evict |-> {n \in exists : belongs[n] = g} \ N,
                          new |-> N, belongs |-> belongs]
    BY Zenon, <1>2 DEF Reconcile
  <2>2. belongs' = belongs
    BY DEF Reconcile
  <2> QED BY <2>1, <2>2 DEF WorkReads
<1> QED BY <1>1, <1>2 DEF Reconcile

\* The pods of the nodes that lose the label are deleted with it.
LEMMA EvictNodesPods ==
  ASSUME Constants, IInv, WorkReads, PodsOnNodes, work # None,
         NEW kept \in SUBSET work.evict, NEW spared \in SUBSET work.evict, NEW added,
         \A n \in added : n \in Nodes => belongs[n] = None,
         evictNodes(kept, spared, added)
  PROVE  PodsOnNodes'
<1> DEFINE out == (work.evict \cap exists) \ kept
<1>1. /\ belongs' = [n \in Nodes |-> IF n \in out THEN None
                                     ELSE IF n \in added THEN work.group ELSE belongs[n]]
      /\ pods' = {p \in pods : evictsPod(p) => p.node \in spared}
      /\ stranded' = (stranded \/ \E p \in pods : evictsPod(p) /\ p.node \in spared \cap out)
  BY DEF evictNodes
<1>2. pods' \subseteq [group : Groups, node : Nodes]
  BY <1>1 DEF PodsOnNodes
<1>3. ASSUME ~stranded', NEW p \in pods'
      PROVE  belongs'[p.node] = p.group
  <2>1. /\ ~stranded /\ p \in pods /\ (evictsPod(p) => p.node \in spared)
        /\ ~(evictsPod(p) /\ p.node \in spared \cap out)
    BY Zenon, <1>1, <1>3
  <2>2. belongs[p.node] = p.group /\ p.node \in Nodes /\ p.group \in Groups /\ p.group # None
    <3>1. None \notin Groups
      BY DEF Constants
    <3>2. p \in [group : Groups, node : Nodes] /\ belongs[p.node] = p.group
      BY <2>1, Zenon DEF PodsOnNodes
    <3> QED BY <3>1, <3>2
  <2>3. p.node \notin added
    BY <2>2
  <2>4. p.node \notin out
    <3>1. p.node \in work.evict => p.group = work.group
      BY <2>2 DEF WorkReads
    <3>2. p.node \in work.evict => evictsPod(p)
      BY <3>1 DEF evictsPod
    <3>3. p.node \in out => p.node \in work.evict
      BY Zenon
    <3> QED BY <2>1, <3>2, <3>3, Zenon
  <2> HIDE DEF out
  <2> QED BY <1>1, <2>2, <2>3, <2>4
<1> QED BY <1>2, <1>3 DEF PodsOnNodes


-----------------------------------------------------------------------------
\* The inductive invariant, together with IInv.
SInv == LabelsTyped /\ AllAttended /\ WorkReads /\ PodsOnNodes

\* A node that leaves takes its pods with it.
LEMMA ChangeNodeKeepsPods ==
  ASSUME Constants, IInv, SInv, NEW m \in Nodes, ChangeNode(m)
  PROVE  WorkReads' /\ PodsOnNodes'
<1>1. /\ work' = work /\ stranded' = stranded
      /\ \/ UNCHANGED <<belongs, pods>>
         \/ belongs' = [belongs EXCEPT ![m] = None] /\ pods' = {p \in pods : p.node # m}
  BY DEF ChangeNode
<1>2. CASE UNCHANGED <<belongs, pods>>
  BY <1>1, <1>2 DEF SInv, WorkReads, PodsOnNodes
<1>3. CASE belongs' = [belongs EXCEPT ![m] = None] /\ pods' = {p \in pods : p.node # m}
  <2>1. \A n \in Nodes : belongs'[n] = IF n = m THEN None ELSE belongs[n]
    BY <1>3 DEF IInv, Typed
  <2>2. WorkReads'
    BY <1>1, <2>1 DEF SInv, WorkReads
  <2>3. pods' \subseteq [group : Groups, node : Nodes]
    BY <1>3 DEF SInv, PodsOnNodes
  <2>4. ASSUME ~stranded', NEW p \in pods'
        PROVE  belongs'[p.node] = p.group
    BY <1>1, <1>3, <2>1, <2>4 DEF SInv, PodsOnNodes
  <2> QED BY <2>2, <2>3, <2>4 DEF PodsOnNodes
<1> QED BY <1>1, <1>2, <1>3

\* The steps that leave labels, nodes and the reconcile alone.
LEMMA RestKeepsS ==
  ASSUME SInv, UNCHANGED <<labels, belongs, work, pods, stranded>>
  PROVE  LabelsTyped' /\ WorkReads' /\ PodsOnNodes'
  BY DEF SInv, LabelsTyped, WorkReads, PodsOnNodes

LEMMA ScheduleKeepsS ==
  ASSUME SInv, NEW g \in Groups, NEW n \in Nodes, Schedule(g, n)
  PROVE  SInv'
<1>1. /\ UNCHANGED <<group, exists, labels, belongs, events, queue, work, stranded>>
      /\ belongs[n] = g /\ pods' = pods \cup {[group |-> g, node |-> n]}
  BY DEF Schedule
<1>2. LabelsTyped' /\ WorkReads'
  BY <1>1 DEF SInv, LabelsTyped, WorkReads
<1>3. AllAttended'
  BY <1>1 DEF SInv, AllAttended, Attended, getNodesSelectedBy
<1>4. PICK q : q = [group |-> g, node |-> n]
  BY Zenon
<1>5. q.group = g /\ q.node = n /\ q \in [group : Groups, node : Nodes] /\ pods' = pods \cup {q}
  BY <1>1, <1>4
<1>6. PodsOnNodes'
  BY <1>1, <1>5 DEF SInv, PodsOnNodes
<1> QED BY <1>2, <1>3, <1>6 DEF SInv

LEMMA DeletedKeepsS ==
  ASSUME Constants, IInv, IInv', SInv, ReconcileDeleted
  PROVE  SInv'
<1>1. PICK kept \in SUBSET work.evict, spared \in SUBSET work.evict : evictNodes(kept, spared, {})
  BY DEF ReconcileDeleted
<1>2. work # None /\ work' = None /\ labels' = labels
  BY DEF ReconcileDeleted
<1>3. \A n \in {} : n \in Nodes => belongs[n] = None
  OBVIOUS
<1>4. PodsOnNodes'
  BY <1>1, <1>2, <1>3, EvictNodesPods DEF SInv
<1>5. LabelsTyped' /\ WorkReads'
  BY <1>2 DEF SInv, LabelsTyped, WorkReads
<1> QED BY <1>4, <1>5, ReconcileDeletedAttends DEF SInv

LEMMA SyncKeepsS ==
  ASSUME Constants, IInv, IInv', SInv, syncNodeGroup
  PROVE  SInv'
<1>1. work # None /\ work' = None /\ labels' = labels
  BY DEF syncNodeGroup
<1>2. PICK kept \in SUBSET work.evict, spared \in SUBSET work.evict,
           added \in SUBSET {n \in work.new : work.belongs[n] = None} :
              evictNodes(kept, spared, added)
  BY DEF syncNodeGroup
<1>3. \A n \in added : n \in Nodes => belongs[n] = None
  BY <1>1, <1>2 DEF SInv, WorkReads
<1>4. PodsOnNodes'
  BY <1>1, <1>2, <1>3, EvictNodesPods DEF SInv
<1>5. LabelsTyped' /\ WorkReads'
  BY <1>1 DEF SInv, LabelsTyped, WorkReads
<1> QED BY <1>4, <1>5, SyncNodeGroupAttends DEF SInv

LEMMA InitSInv == ASSUME Init PROVE SInv
  BY DEF Init, SInv, LabelsTyped, AllAttended, WorkReads, PodsOnNodes

LEMMA NextSInv == ASSUME Constants, IInv, IInv', SInv, [Next]_vars PROVE SInv'
<1>1. CASE UNCHANGED vars
  <2>1. AllAttended'
    BY <1>1 DEF vars, SInv, AllAttended, Attended, getNodesSelectedBy
  <2> QED BY <1>1, <2>1, RestKeepsS DEF vars, SInv
<1>2. ASSUME NEW g \in Groups, ChangeGroup(g) PROVE SInv'
  <2>1. UNCHANGED <<labels, belongs, work, pods, stranded>>
    BY <1>2 DEF ChangeGroup
  <2> QED BY <1>2, <2>1, ChangeGroupAttends, RestKeepsS DEF SInv
<1>3. ASSUME NEW g \in Groups, Reconcile(g) PROVE SInv'
  <2>1. UNCHANGED <<labels, belongs, pods, stranded>>
    BY <1>3 DEF Reconcile
  <2>2. LabelsTyped' /\ PodsOnNodes'
    BY <2>1 DEF SInv, LabelsTyped, PodsOnNodes
  <2> QED BY <1>3, <2>2, ReconcileAttends, ReconcileReads DEF SInv
<1>4. ASSUME NEW g \in Groups, NEW n \in Nodes, Schedule(g, n) PROVE SInv'
  BY <1>4, ScheduleKeepsS
<1>5. ASSUME NEW n \in Nodes, ChangeNode(n) PROVE SInv'
  BY <1>5, ChangeNodeAttends, ChangeNodeKeepsPods DEF SInv
<1>6. ASSUME NEW e \in events, MapNode(e) PROVE SInv'
  <2>1. UNCHANGED <<labels, belongs, work, pods, stranded>>
    BY <1>6 DEF MapNode
  <2> QED BY <1>6, <2>1, MapNodeAttends, RestKeepsS DEF SInv
<1>7. CASE ReconcileDeleted
  BY <1>7, DeletedKeepsS
<1>8. CASE syncNodeGroup
  BY <1>8, SyncKeepsS
<1> QED BY <1>1, <1>2, <1>3, <1>4, <1>5, <1>6, <1>7, <1>8 DEF Next

\* A group that is gone left no label; once nothing is left to reconcile every label is that of a
\* group that is there and selects the node, and, unless the eviction of a pod failed after that
\* of its node, the pods of a group run on nodes with its label: whatever changed between the
\* reads and the patches of syncNodeGroup and evictNodes, in whichever order nodeMapFunc saw it.
THEOREM GroupsAreSettled == ASSUME Constants PROVE Spec => []GroupsSettle
<1>1. ASSUME IInv, SInv PROVE GroupsSettle
  <2>1. GoneLeavesNoLabel
    BY <1>1 DEF IInv, Typed, Finalized, LabelsFinalized, GoneLeavesNoLabel
  <2>2. QuietSelected
    BY <1>1 DEF IInv, Typed, SInv, AllAttended, Attended, Quiet, QuietSelected
  <2>3. QuietEvicted
    BY <1>1 DEF SInv, PodsOnNodes, QuietEvicted
  <2> QED BY <2>1, <2>2, <2>3 DEF GroupsSettle
<1>2. Init => IInv /\ SInv
  BY InitIInv, InitSInv
<1>3. IInv /\ SInv /\ [Next]_vars => IInv' /\ SInv'
  BY NextIInv, NextSInv
<1> QED BY <1>1, <1>2, <1>3, PTL DEF Spec
=============================================================================
