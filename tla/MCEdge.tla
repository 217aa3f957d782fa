-------------------------------- MODULE MCEdge --------------------------------
(***************************************************************************)
(* Three paths through MetaManager that are checked apart: watches of the  *)
(* local API, what the node reports to the API server, and the messages to *)
(* edged.  A behaviour is a behaviour of one of them, named by part, while *)
(* the other two rest in their initial states.  EdgeUpstream is extended,  *)
(* the others are instances.                                               *)
(***************************************************************************)
EXTENDS EdgeUpstream

CONSTANTS w1, w2, a1, a2

VARIABLES
    part,
    \* MetaWatch
    obj, rev, changes, lister, events, listeners, center, asks, tells, synced, appOf, app, users, resync,
    meta_v2, revision, wc, incoming, added, view, lates, gap, passed, raced,
    \* EdgedSync
    call, calls, issued, failures, mmq, mm, edq, edged, answers, volume, row, kubelet, acked, open,
    deleted, unlisted

watchVars == <<obj, rev, changes, lister, events, listeners, center, asks, tells, synced, appOf, app,
               users, resync, meta_v2, revision, wc, incoming, added, view, lates, gap, passed, raced>>
edgedVars == <<call, calls, issued, failures, mmq, mm, edq, edged, answers, volume, row, kubelet, acked,
               open, deleted, unlisted>>
allVars == <<part, watchVars, vars, edgedVars>>

\* Requests of the three clients of EdgeUpstream.
RequestsOf == [pod |-> 2, lease |-> 4, node |-> 3]

\* One client calls: that of pods, of the lease or of the node.
OneClient == {{"pod"}, {"lease"}, {"node"}}

\* Two watches that ask for the same, or for different objects; one of the
\* applications has a selector.
Watch == INSTANCE MetaWatch
           WITH up <- asks, down <- tells, timeouts <- lates,
                Watches <- {w1, w2}, Apps <- {a1, a2}, Selective <- {a1},
                Asks <- {[w \in {w1, w2} |-> a1], [w \in {w1, w2} |-> IF w = w1 THEN a1 ELSE a2]},
                MaxRev <- 2, MaxTimeouts <- 1

\* Two volumes, and two pods of one name.
Edged == INSTANCE EdgedSync
           WITH db <- row, sent <- issued,
                Volumes <- {1, 2}, Uids <- {1, 2}, MaxMessages <- 3, MaxFailures <- 1

\* The parts that rest have one initial state each.
MCInit ==
    /\ part \in {"watch", "up", "edged"}
    /\ Watch!Init /\ (part # "watch" => appOf = [w \in {w1, w2} |-> a1])
    /\ Init /\ (part # "up" => callers = {"pod"})
    /\ Edged!Init

\* Only one part moves.
InWatch == part = "watch" /\ UNCHANGED <<part, vars, edgedVars>>
InUp    == part = "up" /\ UNCHANGED <<part, watchVars, edgedVars>>
InEdged == part = "edged" /\ UNCHANGED <<part, watchVars, vars>>

MCNext == (InWatch /\ Watch!Next) \/ (InUp /\ Next) \/ (InEdged /\ Edged!Next)

MCSpec == MCInit /\ [][MCNext]_allVars

-----------------------------------------------------------------------------
\* The variables of the part that moves have their types.
AllTypeOK ==
    /\ part = "watch" => Watch!TypeOK
    /\ part = "up" => TypeOK
    /\ part = "edged" => Edged!TypeOK

\* From the API server to the client of a watch, each link with the case in
\* which the code breaks it: an approved application has its listener (unless
\* an Apply overtook a list), the database of the edge has the object a
\* listener asks for (unless the event fell between listing and registration),
\* and a watch shows what the database has (unless its hook was passed by)
\* (MetaWatch).
WatchesFollow == Watch!ApprovedHasListener /\ Watch!StoreFollowsServer /\ Watch!WatchFollowsStore

\* A volume stays as the last successful call left it (EdgedSync).
DoneStays == Edged!DoneStays

\* When all is handled kubelet runs the pod of the database and none that was deleted
\* (EdgedSync).
QuietFollows == Edged!QuietFollows
=============================================================================
