---------------------------- MODULE HubSessions ----------------------------
(***************************************************************************)
(* CloudHub: the connections of the edge nodes, their sessions and message *)
(* pools (HandleConnection, SessionManager, NodeSession and the pool map   *)
(* of the message dispatcher).                                             *)
(*                                                                         *)
(* Every connection is served by a goroutine of its own, the two maps and  *)
(* the counter are shared.  An operation on a sync.Map or on the atomic    *)
(* counter is one step; what HandleConnection, AddSession, DeleteSession   *)
(* and DeleteNodeMessagePool make of several such operations is not.       *)
(***************************************************************************)
EXTENDS Integers, FiniteSets

CONSTANTS
  Conns,      \* the connections that are opened, one after the other per node
  NodeOf,     \* the node that opens each connection
  NodeLimit,  \* the nodes one CloudHub serves
  None,       \* no entry in a map
  Orphan      \* a pool the dispatcher created

Nodes == {NodeOf[c] : c \in Conns}

ASSUME HubSessionsAssumption ==
  /\ IsFiniteSet(Conns)
  /\ NodeLimit \in Nat
  /\ None \notin Conns \cup {Orphan}
  /\ Orphan \notin Conns

VARIABLES
  pc,        \* the goroutine of each connection
  link,      \* the transport of each connection
  stopped,   \* Terminating was called on the connection's session
  found,     \* the session AddSession replaces, or the read error terminates
  reader,    \* the goroutine that reads from each connection
  pools,     \* NodeMessagePools: the connection whose pool it is
  sessions,  \* NodeSessions: the connection whose session it is
  number,    \* NodeNumber
  creating,  \* the dispatcher missed a pool for this node and creates it
  overlapped \* history: a node came back before its last connection was cleaned up

vars == <<pc, link, stopped, found, reader, pools, sessions, number, creating,
          overlapped>>

Init ==
  /\ pc = [c \in Conns |-> "none"]
  /\ link = [c \in Conns |-> "none"]
  /\ stopped = [c \in Conns |-> FALSE]
  /\ found = [c \in Conns |-> [add |-> None, err |-> None]]
  /\ reader = [c \in Conns |-> "none"]
  /\ pools = [n \in Nodes |-> None]
  /\ sessions = [n \in Nodes |-> None]
  /\ number = 0
  /\ creating = None
  /\ overlapped = FALSE

\* Nothing is being done for the connection.
Idle == {"none", "refused", "end"}

Goto(c, label) == pc' = [pc EXCEPT ![c] = label]

\* Terminating: cancels the context, shuts the pool's queues down, closes the
\* connection; the second call does nothing.
Terminating(d) ==
  /\ stopped' = [stopped EXCEPT ![d] = TRUE]
  /\ link' = [link EXCEPT ![d] = "down"]

-----------------------------------------------------------------------------
(* HandleConnection                                                         *)

\* A node opens a connection once its last one is closed on its side.
Arrive(c) ==
  LET others == {d \in Conns : NodeOf[d] = NodeOf[c]}
  IN  /\ pc[c] = "none"
      /\ \A d \in others : link[d] # "up"
      /\ Goto(c, "limit")
      /\ link' = [link EXCEPT ![c] = "up"]
      /\ overlapped' = (overlapped \/ \E d \in others : pc[d] \notin Idle)
      /\ UNCHANGED <<stopped, found, reader, pools, sessions, number, creating>>

\* ReachLimit; the connection is read from even if it is refused.
CheckLimit(c) ==
  /\ pc[c] = "limit"
  /\ Goto(c, IF number >= NodeLimit THEN "refused" ELSE "pool")
  /\ reader' = [reader EXCEPT ![c] = "reading"]
  /\ UNCHANGED <<link, stopped, found, pools, sessions, number, creating,
                 overlapped>>

AddNodeMessagePool(c) ==
  /\ pc[c] = "pool"
  /\ Goto(c, "swap")
  /\ pools' = [pools EXCEPT ![NodeOf[c]] = c]
  /\ UNCHANGED <<link, stopped, found, reader, sessions, number, creating,
                 overlapped>>

\* AddSession: LoadAndDelete, ...
AddSwap(c) ==
  /\ pc[c] = "swap"
  /\ Goto(c, IF sessions[NodeOf[c]] = None THEN "store" ELSE "kill")
  /\ found' = [found EXCEPT ![c].add = sessions[NodeOf[c]]]
  /\ sessions' = [sessions EXCEPT ![NodeOf[c]] = None]
  /\ UNCHANGED <<link, stopped, reader, pools, number, creating, overlapped>>

\* ... Terminating of the session it replaces, ...
AddKill(c) ==
  /\ pc[c] = "kill"
  /\ Goto(c, "less")
  /\ Terminating(found[c].add)
  /\ found' = [found EXCEPT ![c].add = None]
  /\ UNCHANGED <<reader, pools, sessions, number, creating, overlapped>>

\* ... which no longer counts, ...
AddLess(c) ==
  /\ pc[c] = "less"
  /\ Goto(c, "store")
  /\ number' = number - 1
  /\ UNCHANGED <<link, stopped, found, reader, pools, sessions, creating,
                 overlapped>>

\* ... Store ...
AddStore(c) ==
  /\ pc[c] = "store"
  /\ Goto(c, "more")
  /\ sessions' = [sessions EXCEPT ![NodeOf[c]] = c]
  /\ UNCHANGED <<link, stopped, found, reader, pools, number, creating,
                 overlapped>>

\* ... and the new session counts.
AddMore(c) ==
  /\ pc[c] = "more"
  /\ Goto(c, "run")
  /\ number' = number + 1
  /\ UNCHANGED <<link, stopped, found, reader, pools, sessions, creating,
                 overlapped>>

\* Mutant: a session that was replaced leaves the pool to the new one.
StartReturnsLeave(c) ==
  /\ pc[c] = "run"
  /\ stopped[c]
  /\ Goto(c, IF sessions[NodeOf[c]] = c THEN "poolcheck" ELSE "sesscheck")
  /\ UNCHANGED <<link, stopped, found, reader, pools, sessions, number, creating,
                 overlapped>>

\* Start returns when the session's context is cancelled.
StartReturns(c) ==
  /\ pc[c] = "run"
  /\ stopped[c]
  /\ Goto(c, "poolcheck")
  /\ UNCHANGED <<link, stopped, found, reader, pools, sessions, number, creating,
                 overlapped>>

\* DeleteNodeMessagePool: Load and compare, then Delete.
PoolCheck(c) ==
  /\ pc[c] = "poolcheck"
  /\ Goto(c, IF pools[NodeOf[c]] = c THEN "pooldelete" ELSE "sesscheck")
  /\ UNCHANGED <<link, stopped, found, reader, pools, sessions, number, creating,
                 overlapped>>

PoolDelete(c) ==
  /\ pc[c] = "pooldelete"
  /\ Goto(c, "sesscheck")
  /\ pools' = [pools EXCEPT ![NodeOf[c]] = None]
  /\ UNCHANGED <<link, stopped, found, reader, sessions, number, creating,
                 overlapped>>

\* DeleteSession: Load and compare, then Delete, then the count.
SessionCheck(c) ==
  /\ pc[c] = "sesscheck"
  /\ Goto(c, IF sessions[NodeOf[c]] = c THEN "sessdelete" ELSE "end")
  /\ UNCHANGED <<link, stopped, found, reader, pools, sessions, number, creating,
                 overlapped>>

\* Mutant: the session is deleted and still counts.
SessionDeleteOnly(c) ==
  /\ pc[c] = "sessdelete"
  /\ Goto(c, "end")
  /\ sessions' = [sessions EXCEPT ![NodeOf[c]] = None]
  /\ UNCHANGED <<link, stopped, found, reader, pools, number, creating,
                 overlapped>>

SessionDelete(c) ==
  /\ pc[c] = "sessdelete"
  /\ Goto(c, "sessless")
  /\ sessions' = [sessions EXCEPT ![NodeOf[c]] = None]
  /\ UNCHANGED <<link, stopped, found, reader, pools, number, creating,
                 overlapped>>

SessionLess(c) ==
  /\ pc[c] = "sessless"
  /\ Goto(c, "end")
  /\ number' = number - 1
  /\ UNCHANGED <<link, stopped, found, reader, pools, sessions, creating,
                 overlapped>>

-----------------------------------------------------------------------------
(* What ends a session                                                      *)

\* The transport breaks, or the node closes it.
Break(c) ==
  /\ link[c] = "up"
  /\ link' = [link EXCEPT ![c] = "down"]
  /\ UNCHANGED <<pc, stopped, found, reader, pools, sessions, number, creating,
                 overlapped>>

\* The reader of a closed connection fails.  OnReadTransportErr looks up the
\* session by the node's name ...
ReadFails(c) ==
  /\ reader[c] = "reading"
  /\ link[c] = "down"
  /\ found' = [found EXCEPT ![c].err = sessions[NodeOf[c]]]
  /\ reader' = [reader EXCEPT ![c] =
                  IF sessions[NodeOf[c]] = None THEN "gone" ELSE "erring"]
  /\ UNCHANGED <<pc, link, stopped, pools, sessions, number, creating,
                 overlapped>>

\* ... and terminates the one it found.
OnReadTransportErr(c) ==
  /\ reader[c] = "erring"
  /\ Terminating(found[c].err)
  /\ reader' = [reader EXCEPT ![c] = "gone"]
  /\ found' = [found EXCEPT ![c].err = None]
  /\ UNCHANGED <<pc, pools, sessions, number, creating, overlapped>>

\* Keepalive messages reach the session that is stored under the node's name.
Fed(c) ==
  /\ sessions[NodeOf[c]] = c
  /\ \E d \in Conns : NodeOf[d] = NodeOf[c] /\ link[d] = "up" /\ reader[d] = "reading"

\* Mutant: only a session that is still stored checks its keepalive.
KeepAliveTimeoutStored(c) ==
  /\ pc[c] = "run" /\ ~stopped[c]
  /\ sessions[NodeOf[c]] = c
  /\ Terminating(c)
  /\ UNCHANGED <<pc, found, reader, pools, sessions, number, creating,
                 overlapped>>

\* KeepAliveCheck times out: always if no keepalive reaches the session, and
\* at times for a node that is slow.
KeepAliveTimeout(c) ==
  /\ pc[c] = "run" /\ ~stopped[c]
  /\ Terminating(c)
  /\ UNCHANGED <<pc, found, reader, pools, sessions, number, creating,
                 overlapped>>

\* GetNodeMessagePool of the dispatcher: Load, and if there is no pool, Store.
PoolMissing(n) ==
  /\ creating = None
  /\ pools[n] = None
  /\ creating' = n
  /\ UNCHANGED <<pc, link, stopped, found, reader, pools, sessions, number,
                 overlapped>>

PoolCreate ==
  /\ creating # None
  /\ pools' = [pools EXCEPT ![creating] = Orphan]
  /\ creating' = None
  /\ UNCHANGED <<pc, link, stopped, found, reader, sessions, number, overlapped>>

-----------------------------------------------------------------------------
\* The goroutine of HandleConnection.
Handle(c) ==
  \/ CheckLimit(c) \/ AddNodeMessagePool(c)
  \/ AddSwap(c) \/ AddKill(c) \/ AddLess(c) \/ AddStore(c) \/ AddMore(c)
  \/ StartReturns(c) \/ PoolCheck(c) \/ PoolDelete(c)
  \/ SessionCheck(c) \/ SessionDelete(c) \/ SessionLess(c)

Next ==
  \/ \E c \in Conns :
       \/ Arrive(c) \/ Handle(c) \/ Break(c)
       \/ ReadFails(c) \/ OnReadTransportErr(c) \/ KeepAliveTimeout(c)
  \/ \E n \in Nodes : PoolMissing(n)
  \/ PoolCreate

Spec == Init /\ [][Next]_vars

\* Goroutines that can run do run, and a session that no keepalive reaches
\* times out.
Fairness ==
  \A c \in Conns :
    /\ WF_vars(Handle(c))
    /\ WF_vars(ReadFails(c))
    /\ WF_vars(OnReadTransportErr(c))
    /\ WF_vars(~Fed(c) /\ KeepAliveTimeout(c))

FairSpec == Spec /\ Fairness

-----------------------------------------------------------------------------
(* Properties                                                               *)

Setup == {"none", "limit", "refused", "pool", "swap", "kill", "less", "store", "more"}
Cleanup == {"poolcheck", "pooldelete", "sesscheck", "sessdelete", "sessless", "end"}

\* Every variable keeps its type.
TypeOK ==
  /\ pc \in [Conns -> Setup \cup {"run"} \cup Cleanup]
  /\ link \in [Conns -> {"none", "up", "down"}]
  /\ stopped \in [Conns -> BOOLEAN]
  /\ found \in [Conns -> [add: Conns \cup {None}, err: Conns \cup {None}]]
  /\ reader \in [Conns -> {"none", "reading", "erring", "gone"}]
  /\ pools \in [Nodes -> Conns \cup {None, Orphan}]
  /\ sessions \in [Nodes -> Conns \cup {None}]
  /\ number \in Int
  /\ creating \in Nodes \cup {None}
  /\ overlapped \in BOOLEAN
  /\ \A c \in Conns : pc[c] = "kill" => found[c].add \in Conns
  /\ \A c \in Conns : reader[c] = "erring" => found[c].err \in Conns

\* The maps never keep a connection whose goroutine has done its part of the
\* clean-up: DeleteNodeMessagePool and DeleteSession leave nothing behind,
\* however connections of a node overlap.
NoDeadEntry ==
  \A n \in Nodes, c \in Conns :
    /\ pools[n] = c => /\ NodeOf[c] = n
                       /\ pc[c] \notin {"sesscheck", "sessdelete", "sessless", "end"}
    /\ sessions[n] = c => NodeOf[c] = n /\ pc[c] \notin {"sessless", "end"}

\* The connections whose session was counted, and is not yet taken off.
Counted == {c \in Conns : pc[c] = "run" \/ pc[c] \in Cleanup \ {"end"}}

\* As long as no node comes back before its last connection is cleaned up,
\* NodeNumber counts exactly the sessions, between any two steps of AddSession
\* and DeleteSession.
CountExact == ~overlapped => number = Cardinality(Counted)

\* The session of a broken connection comes to its end ("it will keep running
\* until it encounters some Transport Error from underlying connection"), and so
\* does one that is not the one stored for its node, although no keepalive,
\* acknowledgement or read error of its node finds it any more.
AbandonedEnds ==
  \A c \in Conns :
    pc[c] = "run" /\ (link[c] = "down" \/ sessions[NodeOf[c]] # c) ~> pc[c] = "end"
=============================================================================
