--------------------------- MODULE EdgeApplications ---------------------------
(***************************************************************************)
(* The controller of EdgeApplications and its status manager               *)
(* (cloud/pkg/controllermanager/edgeapplication).                          *)
(*                                                                         *)
(* An EdgeApplication lists manifests.  The controller turns them into     *)
(* templates (one per node group for the kinds with overriders), records   *)
(* them in the status, applies them, deletes what an annotation says it    *)
(* contained before and updates that annotation.  For every kind in use    *)
(* the status manager runs a controller which writes the conditions and    *)
(* triggers the first controller when an object of the kind changes.       *)
(***************************************************************************)
EXTENDS Naturals, Sequences, FiniteSets

CONSTANTS
    Specs,          \* bound: the specs users choose from
    Kinds,
    KindOf,         \* the kind of a manifest, by name
    Overridable,    \* OverriderTargetGVK: the kinds with overriders
    Foreign,        \* resources that exist before and have no annotation
    None,
    MaxChanges,     \* bound: edits of the application and of the objects
    MaxFailures     \* bound: calls of the API server that fail

VARIABLES
    spec,           \* manifests with a version each (0 cannot be decoded) and node groups
    last,           \* LastContainedResourcesAnnotation
    status,         \* Status.WorkloadStatus
    objs,           \* the objects of the API server: version, annotation, readiness
    queue,          \* is the application to be reconciled: "no", "yes", or only "retry"
                    \* because its manifests or overriders have errors
    work,           \* the reconcile under way: its step and what it read, or None
    watching, watchCh, cancelCh,
    gc,             \* the kinds watchControllersGC found in use, or None
    statusQueue,    \* the kinds whose status controller is to reconcile
    missed,         \* history: objects deleted while their kind was not watched
    changes, failures

vars == <<spec, last, status, objs, queue, work, watching, watchCh, cancelCh, gc, statusQueue,
          missed, changes, failures>>

api == <<spec, last, status, objs, missed>>
manager == <<watching, watchCh, cancelCh, gc, statusQueue>>

Names == DOMAIN KindOf
AllGroups == UNION {s.groups : s \in Specs}
Resources == {[name |-> n, group |-> g] : n \in Names, g \in AllGroups \cup {None}}
Kind(r) == KindOf[r.name]
Absent == [v |-> None, annotated |-> FALSE, ready |-> FALSE]

-----------------------------------------------------------------------------
(* Manifests and templates.                                                *)

\* GetTemplatesInfosOfEdgeApp and the override managers: the manifests that
\* are decoded, by ordinal; a kind with overriders has a copy for every node
\* group, with the name and the selector of the group, unless an overrider fails.
TemplatesOf ==
    [s \in Specs \cup {[t EXCEPT !.faulty = {}] : t \in Specs} |->
        LET decoded == {i \in DOMAIN s.manifests : s.manifests[i].v > 0}
            groups(i) == IF KindOf[s.manifests[i].name] \in Overridable
                         THEN s.groups \ s.faulty ELSE {None}
        IN  UNION {{[ord |-> i, res |-> [name |-> s.manifests[i].name, group |-> g],
                     v |-> s.manifests[i].v] : g \in groups(i)} : i \in decoded}]

Templates(s) == TemplatesOf[s]

HasErrors(s) ==
    \/ \E i \in DOMAIN s.manifests : s.manifests[i].v = 0
    \/ s.faulty # {} /\ \E i \in DOMAIN s.manifests : KindOf[s.manifests[i].name] \in Overridable

\* ResourceInfo: the ordinal is part of it.
Info(t) == [ord |-> t.ord, res |-> t.res]

\* A status entry.  id tells an empty identifier ("init"), one in which the
\* controller wrote the kind as version ("kind"), and a complete one ("full").
Entry(i, r, id, c) == [ord |-> i, res |-> r, id |-> id, cond |-> c]

\* updateStatus: entries of templates are kept, missing ones are added, and
\* a manifest without any entry gets an empty one.
NewStatus(old, s) ==
    LET kept == {e \in old : e.id = "full" /\ \E t \in Templates(s) : t.ord = e.ord /\ t.res = e.res}
        all == kept \cup {Entry(t.ord, t.res, "kind", "processing") :
                            t \in {t \in Templates(s) : \A e \in kept : Info(e) # Info(t)}}
    IN  all \cup {Entry(i, None, "init", "processing") :
                    i \in {i \in DOMAIN s.manifests : \A e \in all : e.ord # i}}

-----------------------------------------------------------------------------
(* Users and the cluster.                                                  *)

MayChange == changes < MaxChanges /\ changes' = changes + 1

Edit ==
    /\ MayChange
    /\ \E s \in Specs \ {spec} : spec' = s
    /\ queue' = "yes"
    /\ UNCHANGED <<last, status, objs, work, manager, missed, failures>>

\* An object changed: the status controller of its kind hears of it.
Notified(k) == IF k \in watching THEN statusQueue \cup {k} ELSE statusQueue

\* Somebody deletes an object of the application, or it becomes ready.
ChangeObject(r) ==
    /\ MayChange /\ objs[r].v # None /\ r \notin Foreign
    /\ \/ /\ objs' = [objs EXCEPT ![r] = Absent]
          /\ missed' = IF Kind(r) \in watching THEN missed ELSE missed \cup {r}
       \/ /\ Kind(r) \in Overridable
          /\ objs' = [objs EXCEPT ![r].ready = ~@]
          /\ UNCHANGED missed
    /\ statusQueue' = Notified(Kind(r))
    /\ UNCHANGED <<spec, last, status, queue, work, watching, watchCh, cancelCh, gc, failures>>

-----------------------------------------------------------------------------
(* The controller: the steps of syncEdgeApplication.                       *)

\* A call may fail, within the bound.
Failing(F) ==
    /\ F # {} => failures < MaxFailures
    /\ failures' = IF F # {} THEN failures + 1 ELSE failures

Reconcile ==
    /\ queue # "no" /\ work = None
    /\ queue' = "no"
    /\ work' = [at |-> "status", spec |-> spec, last |-> last, status |-> status,
                errs |-> FALSE]
    /\ UNCHANGED <<api, manager, changes, failures>>

\* updateStatus patches the status as a whole, whatever it is by now.
updateStatus ==
    /\ work # None /\ work.at = "status"
    /\ LET new == NewStatus(work.status, work.spec)
       IN  \E F \in SUBSET (IF new = work.status THEN {} ELSE {0}) :
             /\ Failing(F)
             /\ status' = IF new = work.status \/ F # {} THEN status ELSE new
             /\ queue' = IF status' # status THEN "yes" ELSE queue
             /\ work' = [work EXCEPT !.at = "apply", !.errs = @ \/ F # {}]
    /\ UNCHANGED <<spec, last, objs, missed, manager, changes>>

\* Is there something to write for a template: there is no object, or none with
\* the annotation, or the annotation has another version (isSameAsLastApplied).
\* Mutant: an object with the annotation is left as it is.
MissingOrForeign(t) == objs[t.res].v = None \/ ~objs[t.res].annotated
Outdated(t) == objs[t.res].v = None \/ ~objs[t.res].annotated \/ objs[t.res].v # t.v

\* applyTemplate: an object is created, or updated unless its annotation has
\* the template already, and the status manager is asked to watch its kind.
applyTemplates ==
    /\ work # None /\ work.at = "apply"
    /\ \E F \in SUBSET Templates(work.spec) :
          LET done == Templates(work.spec) \ F
              cur(t) == objs[t.res]
              changed == {t \in done : Outdated(t)}
              new(t) == [v |-> t.v, annotated |-> cur(t).v = None \/ cur(t).annotated,
                         ready |-> cur(t).ready]
          IN  /\ Failing(F)
              /\ objs' = [r \in Resources |->
                            IF \E t \in changed : t.res = r
                            THEN new(CHOOSE t \in changed : t.res = r) ELSE objs[r]]
              /\ missed' = missed \ {t.res : t \in done}
              /\ watchCh' = watchCh \cup {Kind(t.res) : t \in done}
              /\ statusQueue' = statusQueue \cup
                    ({Kind(t.res) : t \in {t \in changed : objs'[t.res] # cur(t)}} \cap watching)
              /\ work' = [work EXCEPT !.at = "delete", !.errs = @ \/ F # {}]
    /\ UNCHANGED <<spec, last, status, queue, watching, cancelCh, gc, changes>>

\* getDeletedResources: infos are compared with their ordinals.
getDeletedResources(old, new) == {i.res : i \in old \ new}

\* deleteRedundantResources.  The first resource that does not exist ends
\* the loop (the order of the infos is left open); other errors are ignored.
deleteRedundantResources ==
    /\ work # None /\ work.at = "delete"
    /\ LET deleted == getDeletedResources(work.last, {Info(t) : t \in Templates(work.spec)})
           there == {r \in deleted : objs[r].v # None}
       IN  \E F \in SUBSET there : \E D \in SUBSET there :
             /\ D \cup F = there \/ deleted # there
             /\ D \cap F = {}
             /\ Failing(F)
             /\ objs' = [r \in Resources |-> IF r \in D THEN Absent ELSE objs[r]]
             /\ statusQueue' = statusQueue \cup ({Kind(r) : r \in D} \cap watching)
             /\ work' = [work EXCEPT !.at = "annotate", !.errs = @ \/ deleted # there]
    /\ UNCHANGED <<spec, last, status, missed, queue, watching, watchCh, cancelCh, gc, changes>>

\* addOrUpdateLastContainedResourcesAnnotation, and the end of the reconcile:
\* any error requeues the application.
addOrUpdateLastContainedResourcesAnnotation ==
    /\ work # None /\ work.at = "annotate"
    /\ LET new == {Info(t) : t \in Templates(work.spec)}
       IN  \E F \in SUBSET (IF new = work.last THEN {} ELSE {0}) :
             /\ Failing(F)
             /\ last' = IF F # {} \/ new = work.last THEN last ELSE new
             /\ queue' = IF work.errs \/ F # {} \/ last' # last THEN "yes"
                         ELSE IF queue = "no" /\ HasErrors(work.spec) THEN "retry" ELSE queue
    /\ work' = None
    /\ UNCHANGED <<spec, status, objs, missed, manager, changes>>

-----------------------------------------------------------------------------
(* The status manager.                                                     *)

\* watchStatusWorker: the status controller of a kind lists its objects; a
\* watch that cannot start is not tried again.
watchStatusWorker(k) ==
    /\ k \in watchCh
    /\ watchCh' = watchCh \ {k}
    /\ \/ k \in watching /\ UNCHANGED <<watching, statusQueue, failures>>
       \/ /\ k \notin watching
          /\ watching' = watching \cup {k}
          /\ statusQueue' = IF \E r \in Resources : Kind(r) = k /\ objs[r].v \notin {None, 0}
                            THEN statusQueue \cup {k} ELSE statusQueue
          /\ UNCHANGED failures
       \/ k \notin watching /\ Failing({k}) /\ UNCHANGED <<watching, statusQueue>>
    /\ UNCHANGED <<api, queue, work, cancelCh, gc, changes>>

\* watchControllersGC lists the kinds in use; an application with a manifest
\* that cannot be decoded is skipped.
GCList ==
    /\ gc = None
    /\ gc' = IF \E i \in DOMAIN spec.manifests : spec.manifests[i].v = 0 THEN {}
             ELSE {KindOf[spec.manifests[i].name] : i \in DOMAIN spec.manifests}
    /\ UNCHANGED <<api, queue, work, watching, watchCh, cancelCh, statusQueue, changes, failures>>

\* It then has the others cancelled.
GCCancel ==
    /\ gc # None
    /\ cancelCh' = cancelCh \cup (watching \ gc)
    /\ gc' = None
    /\ UNCHANGED <<api, queue, work, watching, watchCh, statusQueue, changes, failures>>

\* cancelWatchWorker, unmarkWatching: the status controller stops.
cancelWatchWorker(k) ==
    /\ k \in cancelCh
    /\ cancelCh' = cancelCh \ {k}
    /\ watching' = watching \ {k}
    /\ statusQueue' = statusQueue \ {k}
    /\ missed' = IF k \in statusQueue
                 THEN missed \cup {r \in Resources : Kind(r) = k /\ objs[r].v = None} ELSE missed
    /\ UNCHANGED <<spec, last, status, objs, queue, work, watchCh, gc, changes, failures>>

\* availableIfExists, deploymentAvailable.
Available(r) == objs[r].v # None /\ (Kind(r) \in Overridable => objs[r].ready)

\* statusReconciler.update for the templates of a kind.  Names are overridden
\* here without the other overriders, so groups with a faulty one count.
Updated(old, k) ==
    LET named == [spec EXCEPT !.faulty = {}]
        mine == {t \in Templates(named) : Kind(t.res) = k}
        cond(t) == IF Available(t.res) THEN "available" ELSE "processing"
        replaced == {e \in old : \E t \in mine : e.ord = t.ord /\
                        (e.id = "init" \/ (e.id = "full" /\ e.res = t.res))}
    IN  (old \ replaced) \cup {Entry(t.ord, t.res, "full", cond(t)) : t \in mine}

\* statusReconciler.sync; the update fails when the application changed, and
\* is tried again.  The application's controller is triggered in the end.
statusSync(k) ==
    /\ k \in statusQueue /\ k \in watching
    /\ \E F \in SUBSET {k} :
          /\ Failing(F)
          /\ status' = IF F # {} THEN status ELSE Updated(status, k)
          /\ queue' = IF F = {} THEN "yes" ELSE queue
          /\ statusQueue' = IF F # {} THEN statusQueue ELSE statusQueue \ {k}
    /\ UNCHANGED <<spec, last, objs, missed, work, watching, watchCh, cancelCh, gc, changes>>

-----------------------------------------------------------------------------
Init ==
    /\ spec \in Specs /\ queue = "yes"
    /\ last = {} /\ status = {} /\ work = None
    /\ objs = [r \in Resources |-> IF r \in Foreign THEN [Absent EXCEPT !.v = 0] ELSE Absent]
    /\ watching = {} /\ watchCh = {} /\ cancelCh = {} /\ gc = None
    /\ statusQueue = {} /\ missed = {} /\ changes = 0 /\ failures = 0

Controller ==
    \/ Reconcile \/ updateStatus \/ applyTemplates \/ deleteRedundantResources
    \/ addOrUpdateLastContainedResourcesAnnotation

Next ==
    \/ Edit \/ (\E r \in Resources : ChangeObject(r))
    \/ Controller
    \/ \E k \in Kinds : watchStatusWorker(k) \/ cancelWatchWorker(k) \/ statusSync(k)
    \/ GCList \/ GCCancel

Spec == Init /\ [][Next]_vars

-----------------------------------------------------------------------------
\* Nothing is left to do but garbage collection and retries of errors in the spec.
Quiet == queue # "yes" /\ work = None /\ watchCh = {} /\ statusQueue = {}

\* The variables have their types.
TypeOK ==
    /\ spec \in Specs /\ queue \in {"no", "retry", "yes"}
    /\ watching \cup watchCh \cup cancelCh \cup statusQueue \subseteq Kinds
    /\ missed \subseteq Resources

\* When nothing is left to do every template is applied in its last version,
\* whoever deleted objects in between, if their kind was watched then.
QuietApplied ==
    Quiet => \A t \in Templates(spec) : t.res \in missed \/ objs[t.res].v = t.v

\* When nothing is left to do the status has one entry for every template
\* and for every manifest without one, and no other, however the two
\* controllers overwrote each other's status.
QuietStatus ==
    Quiet => /\ \A e \in status : e.id # "init" => \E t \in Templates(spec) : Info(t) = Info(e)
             /\ \A i \in DOMAIN spec.manifests : \E e \in status : e.ord = i
             /\ \A e, f \in status : Info(e) = Info(f) => e = f
=============================================================================
