------------------------- MODULE HubSessionsProofs -------------------------
(***************************************************************************)
(* Proofs about HubSessions, for any number of nodes and connections.      *)
(***************************************************************************)
EXTENDS HubSessions, FiniteSetTheorems, TLAPS

Labels == Setup \cup {"run"} \cup Cleanup

-----------------------------------------------------------------------------
(* Types                                                                    *)

LEMMA NodesOf == \A c \in Conns : NodeOf[c] \in Nodes
  BY DEF Nodes

LEMMA TypeInit == Init => TypeOK
<1> SUFFICES ASSUME Init PROVE TypeOK
  OBVIOUS
<1>1. overlapped \in BOOLEAN
  BY Zenon DEF Init
<1>2. stopped \in [Conns -> BOOLEAN]
  BY DEF Init
<1>3. QED
  BY <1>1, <1>2, HubSessionsAssumption DEF Init, TypeOK, Setup, Cleanup

\* Terminating leaves the types as they are.
LEMMA TerminatingTypes ==
  ASSUME TypeOK, NEW d \in Conns, Terminating(d)
  PROVE  /\ stopped' \in [Conns -> BOOLEAN]
         /\ link' \in [Conns -> {"none", "up", "down"}]
  BY DEF TypeOK, Terminating

LEMMA HandleTypes ==
  ASSUME TypeOK, NEW c \in Conns, Handle(c)
  PROVE  TypeOK'
<1> USE NodesOf
<1>1. CASE CheckLimit(c)
  BY <1>1 DEF TypeOK, CheckLimit, Goto, Setup, Cleanup
<1>2. CASE AddNodeMessagePool(c)
  BY <1>2 DEF TypeOK, AddNodeMessagePool, Goto, Setup, Cleanup
<1>3. CASE AddSwap(c)
  BY <1>3 DEF TypeOK, AddSwap, Goto, Setup, Cleanup
<1>4. CASE AddKill(c)
  <2>1. found[c].add \in Conns
    BY <1>4 DEF TypeOK, AddKill
  <2>2. QED
    BY <1>4, <2>1, TerminatingTypes DEF TypeOK, AddKill, Goto, Setup, Cleanup
<1>5. CASE AddLess(c) \/ AddMore(c)
  BY <1>5 DEF TypeOK, AddLess, AddMore, Goto, Setup, Cleanup
<1>6. CASE AddStore(c)
  BY <1>6 DEF TypeOK, AddStore, Goto, Setup, Cleanup
<1>7. CASE StartReturns(c) \/ PoolCheck(c) \/ SessionCheck(c)
  BY <1>7 DEF TypeOK, StartReturns, PoolCheck, SessionCheck, Goto, Setup, Cleanup
<1>8. CASE PoolDelete(c)
  BY <1>8 DEF TypeOK, PoolDelete, Goto, Setup, Cleanup
<1>9. CASE SessionDelete(c)
  BY <1>9 DEF TypeOK, SessionDelete, Goto, Setup, Cleanup
<1>10. CASE SessionLess(c)
  BY <1>10 DEF TypeOK, SessionLess, Goto, Setup, Cleanup
<1>11. QED
  BY <1>1, <1>2, <1>3, <1>4, <1>5, <1>6, <1>7, <1>8, <1>9, <1>10 DEF Handle

LEMMA TypeStep == TypeOK /\ [Next]_vars => TypeOK'
<1> SUFFICES ASSUME TypeOK, [Next]_vars PROVE TypeOK'
  OBVIOUS
<1> USE NodesOf
<1>1. ASSUME NEW c \in Conns, Arrive(c) PROVE TypeOK'
  BY <1>1 DEF TypeOK, Arrive, Goto, Setup, Cleanup
<1>2. ASSUME NEW c \in Conns, Break(c) PROVE TypeOK'
  BY <1>2 DEF TypeOK, Break
<1>3. ASSUME NEW c \in Conns, ReadFails(c) PROVE TypeOK'
  BY <1>3 DEF TypeOK, ReadFails
<1>4. ASSUME NEW c \in Conns, OnReadTransportErr(c) PROVE TypeOK'
  <2>1. found[c].err \in Conns
    BY <1>4 DEF TypeOK, OnReadTransportErr
  <2>2. QED
    BY <1>4, <2>1, TerminatingTypes DEF TypeOK, OnReadTransportErr
<1>5. ASSUME NEW c \in Conns, KeepAliveTimeout(c) PROVE TypeOK'
  BY <1>5, TerminatingTypes DEF TypeOK, KeepAliveTimeout
<1>6. CASE PoolCreate \/ \E n \in Nodes : PoolMissing(n)
  BY <1>6 DEF TypeOK, PoolCreate, PoolMissing
<1>7. CASE UNCHANGED vars
  BY <1>7 DEF TypeOK, vars
<1>8. QED
  BY <1>1, <1>2, <1>3, <1>4, <1>5, <1>6, <1>7, HandleTypes DEF Next

\* Every variable keeps its type.
THEOREM TypeCorrect == Spec => []TypeOK
  BY TypeInit, TypeStep, PTL DEF Spec

-----------------------------------------------------------------------------
(* The maps                                                                 *)

LEMMA EntryStep == TypeOK /\ NoDeadEntry /\ [Next]_vars => NoDeadEntry'
<1> SUFFICES ASSUME TypeOK, NoDeadEntry, [Next]_vars PROVE NoDeadEntry'
  OBVIOUS
<1>1. /\ pc \in [Conns -> Labels]
      /\ pools \in [Nodes -> Conns \cup {None, Orphan}]
      /\ sessions \in [Nodes -> Conns \cup {None}]
      /\ None \notin Conns /\ Orphan \notin Conns
  BY HubSessionsAssumption DEF TypeOK, Labels
<1> USE NodesOf
<1>2. CASE UNCHANGED <<pc, pools, sessions>>
  BY <1>2 DEF NoDeadEntry
<1>3. ASSUME NEW c \in Conns, UNCHANGED <<pools, sessions>>, NEW label, Goto(c, label),
             label \notin {"sesscheck", "sessdelete", "sessless", "end"}
      PROVE  NoDeadEntry'
  BY <1>1, <1>3 DEF NoDeadEntry, Goto
<1>4. ASSUME NEW c \in Conns, Handle(c) PROVE NoDeadEntry'
  <2>1. CASE CheckLimit(c)
    BY <1>3, <2>1 DEF CheckLimit
  <2>2. CASE AddNodeMessagePool(c)
    BY <1>1, <2>2 DEF AddNodeMessagePool, NoDeadEntry, Goto
  <2>3. CASE AddSwap(c)
    BY <1>1, <2>3 DEF AddSwap, NoDeadEntry, Goto
  <2>4. CASE AddKill(c) \/ AddLess(c) \/ AddMore(c) \/ StartReturns(c)
    BY <1>3, <2>4 DEF AddKill, AddLess, AddMore, StartReturns
  <2>5. CASE AddStore(c)
    BY <1>1, <2>5 DEF AddStore, NoDeadEntry, Goto
  <2>6. CASE PoolCheck(c) \/ PoolDelete(c)
    BY <1>1, <2>6 DEF PoolCheck, PoolDelete, NoDeadEntry, Goto
  <2>7. CASE SessionCheck(c)
    BY <1>1, <2>7 DEF SessionCheck, NoDeadEntry, Goto
  <2>8. CASE SessionDelete(c) \/ SessionLess(c)
    BY <1>1, <2>8 DEF SessionDelete, SessionLess, NoDeadEntry, Goto
  <2>9. QED
    BY <1>4, <2>1, <2>2, <2>3, <2>4, <2>5, <2>6, <2>7, <2>8 DEF Handle
<1>5. ASSUME NEW c \in Conns, Arrive(c) PROVE NoDeadEntry'
  BY <1>3, <1>5 DEF Arrive
<1>6. ASSUME NEW c \in Conns,
             Break(c) \/ ReadFails(c) \/ OnReadTransportErr(c) \/ KeepAliveTimeout(c)
      PROVE  NoDeadEntry'
  BY <1>2, <1>6 DEF Break, ReadFails, OnReadTransportErr, KeepAliveTimeout
<1>7. CASE \E n \in Nodes : PoolMissing(n)
  BY <1>2, <1>7 DEF PoolMissing
<1>8. CASE PoolCreate
  BY <1>1, <1>8 DEF PoolCreate, NoDeadEntry, TypeOK
<1>9. CASE UNCHANGED vars
  BY <1>2, <1>9 DEF vars
<1>10. QED
  BY <1>4, <1>5, <1>6, <1>7, <1>8, <1>9 DEF Next

\* However the connections of a node overlap, no map keeps an entry of a
\* connection that is done with its clean-up.
THEOREM NoDeadEntries == Spec => []NoDeadEntry
<1>1. Init => NoDeadEntry
  BY HubSessionsAssumption DEF Init, NoDeadEntry
<1>2. QED
  BY <1>1, EntryStep, TypeCorrect, PTL DEF Spec

-----------------------------------------------------------------------------
(* The count, as long as connections of a node do not overlap               *)

Stored == {"more", "run", "poolcheck", "pooldelete", "sesscheck", "sessdelete"}

\* One connection of a node is served at a time, and its session is the one
\* that is stored.
Alone ==
  /\ \A c, d \in Conns : c # d /\ NodeOf[c] = NodeOf[d] => pc[c] \in Idle \/ pc[d] \in Idle
  /\ \A c \in Conns : pc[c] \in Stored <=> sessions[NodeOf[c]] = c
  /\ \A c \in Conns : pc[c] \notin {"kill", "less"}

LEMMA AloneStep ==
  ASSUME ~overlapped', TypeOK, NoDeadEntry, Alone, [Next]_vars
  PROVE  Alone'
<1>1. /\ pc \in [Conns -> Labels]
      /\ sessions \in [Nodes -> Conns \cup {None}]
      /\ None \notin Conns
  BY HubSessionsAssumption DEF TypeOK, Labels
<1> USE NodesOf DEF Idle, Stored, Goto
<1>2. CASE UNCHANGED <<pc, sessions>>
  BY <1>2 DEF Alone
<1>3. ASSUME NEW c \in Conns, Handle(c) PROVE Alone'
  <2>1. ASSUME NEW label, Goto(c, label), UNCHANGED sessions, pc[c] \notin Idle,
               label \in Stored <=> pc[c] \in Stored, label \notin {"kill", "less"}
        PROVE  Alone'
    BY <1>1, <2>1 DEF Alone
  <2>2. CASE CheckLimit(c) \/ AddNodeMessagePool(c) \/ AddMore(c)
               \/ StartReturns(c) \/ PoolCheck(c) \/ PoolDelete(c) \/ SessionLess(c)
    BY <2>1, <2>2 DEF CheckLimit, AddNodeMessagePool, AddMore, StartReturns, PoolCheck,
                      PoolDelete, SessionLess
  <2>3. CASE AddSwap(c)
    <3>1. sessions[NodeOf[c]] = None
      BY <1>1, <2>3 DEF AddSwap, Alone, NoDeadEntry
    <3>2. sessions' = sessions /\ Goto(c, "store")
      BY <1>1, <2>3, <3>1 DEF AddSwap
    <3>3. QED
      BY ZenonT(60), <2>1, <2>3, <3>2 DEF AddSwap
  <2>4. CASE AddKill(c) \/ AddLess(c)
    BY <2>4 DEF AddKill, AddLess, Alone
  <2>5. CASE AddStore(c)
    BY <1>1, <2>5 DEF AddStore, Alone
  <2>6. CASE SessionCheck(c)
    <3>1. sessions[NodeOf[c]] = c
      BY <2>6 DEF SessionCheck, Alone
    <3>2. Goto(c, "sessdelete") /\ UNCHANGED sessions /\ pc[c] = "sesscheck"
      BY <2>6, <3>1 DEF SessionCheck
    <3>3. QED
      BY <1>1, <3>2 DEF Alone
  <2>7. CASE SessionDelete(c)
    BY <1>1, <2>7 DEF SessionDelete, Alone
  <2>8. QED
    BY <1>3, <2>2, <2>3, <2>4, <2>5, <2>6, <2>7 DEF Handle
<1>4. ASSUME NEW c \in Conns, Arrive(c) PROVE Alone'
  <2>1. \A d \in Conns : NodeOf[d] = NodeOf[c] => pc[d] \in Idle
    BY <1>4, Zenon DEF Arrive
  <2>2. pc[c] = "none" /\ pc' = [pc EXCEPT ![c] = "limit"] /\ sessions' = sessions
    BY <1>4 DEF Arrive
  <2>3. QED
    BY <1>1, <2>1, <2>2 DEF Alone
<1>5. ASSUME NEW c \in Conns,
             Break(c) \/ ReadFails(c) \/ OnReadTransportErr(c) \/ KeepAliveTimeout(c)
      PROVE  Alone'
  BY <1>2, <1>5 DEF Break, ReadFails, OnReadTransportErr, KeepAliveTimeout
<1>6. CASE PoolCreate \/ \E n \in Nodes : PoolMissing(n)
  BY <1>2, <1>6 DEF PoolCreate, PoolMissing
<1>7. CASE UNCHANGED vars
  BY <1>2, <1>7 DEF vars
<1>8. QED
  BY <1>3, <1>4, <1>5, <1>6, <1>7 DEF Next

Exact == number = Cardinality(Counted)

LEMMA CountStep ==
  ASSUME TypeOK, Alone, Exact, [Next]_vars
  PROVE  Exact'
<1>1. pc \in [Conns -> Labels] /\ number \in Int
  BY DEF TypeOK, Labels
<1>2. IsFiniteSet(Counted)
  BY HubSessionsAssumption, FS_Subset DEF Counted
<1> USE DEF Goto, Counted, Cleanup
<1>3. CASE UNCHANGED <<pc, number>>
  BY <1>3 DEF Exact
<1>4. ASSUME NEW c \in Conns, Handle(c) PROVE Exact'
  <2>1. ASSUME NEW label, Goto(c, label), UNCHANGED number,
               (label = "run" \/ label \in Cleanup \ {"end"}) <=> c \in Counted
        PROVE  Exact'
    <3>1. Counted' = Counted
      BY <1>1, <2>1
    <3>2. QED
      BY <2>1, <3>1 DEF Exact
  <2>2. CASE CheckLimit(c) \/ AddNodeMessagePool(c) \/ AddSwap(c) \/ AddStore(c)
    BY <2>1, <2>2 DEF CheckLimit, AddNodeMessagePool, AddSwap, AddStore
  <2>3. CASE AddKill(c) \/ AddLess(c)
    BY <2>3 DEF AddKill, AddLess, Alone
  <2>4. CASE AddMore(c)
    <3>1. Counted' = Counted \cup {c} /\ c \notin Counted
      BY <1>1, <2>4 DEF AddMore
    <3>2. Cardinality(Counted') = Cardinality(Counted) + 1
      BY Zenon, <1>2, <3>1, FS_AddElement
    <3>3. QED
      BY <2>4, <3>2 DEF AddMore, Exact
  <2>5. CASE StartReturns(c) \/ PoolCheck(c) \/ PoolDelete(c) \/ SessionDelete(c)
    BY <2>1, <2>5 DEF StartReturns, PoolCheck, PoolDelete, SessionDelete
  <2>6. CASE SessionCheck(c)
    <3>1. sessions[NodeOf[c]] = c
      BY <2>6 DEF SessionCheck, Alone, Stored
    <3>2. QED
      BY Zenon, <2>1, <2>6, <3>1 DEF SessionCheck
  <2>7. CASE SessionLess(c)
    <3>1. Counted' = Counted \ {c} /\ c \in Counted
      BY <1>1, <2>7 DEF SessionLess
    <3>2. Cardinality(Counted') = Cardinality(Counted) - 1
      BY Zenon, <1>2, <3>1, FS_RemoveElement
    <3>3. QED
      BY <2>7, <3>2 DEF SessionLess, Exact
  <2>8. QED
    BY <1>4, <2>2, <2>3, <2>4, <2>5, <2>6, <2>7 DEF Handle
<1>5. ASSUME NEW c \in Conns, Arrive(c) PROVE Exact'
  <2>1. Counted' = Counted
    BY <1>1, <1>5 DEF Arrive
  <2>2. QED
    BY <1>5, <2>1 DEF Arrive, Exact
<1>6. ASSUME NEW c \in Conns,
             Break(c) \/ ReadFails(c) \/ OnReadTransportErr(c) \/ KeepAliveTimeout(c)
      PROVE  Exact'
  BY <1>3, <1>6 DEF Break, ReadFails, OnReadTransportErr, KeepAliveTimeout
<1>7. CASE PoolCreate \/ \E n \in Nodes : PoolMissing(n)
  BY <1>3, <1>7 DEF PoolCreate, PoolMissing
<1>8. CASE UNCHANGED vars
  BY <1>3, <1>8 DEF vars
<1>9. QED
  BY <1>4, <1>5, <1>6, <1>7, <1>8 DEF Next

\* Once connections of a node overlapped, this is remembered.
LEMMA OverlapStays == TypeOK /\ [Next]_vars /\ ~overlapped' => ~overlapped
  BY DEF TypeOK, Next, Handle, Arrive, CheckLimit, AddNodeMessagePool, AddSwap, AddKill,
         AddLess, AddStore, AddMore, StartReturns, PoolCheck, PoolDelete, SessionCheck,
         SessionDelete, SessionLess, Break, ReadFails, OnReadTransportErr,
         KeepAliveTimeout, PoolMissing, PoolCreate, vars

\* As long as every node reconnects only after its last connection was cleaned
\* up, NodeNumber is the number of sessions at every step of every connection.
THEOREM CountIsExact == Spec => []CountExact
<1> DEFINE CInv == ~overlapped => Alone /\ Exact
<1>1. Init => CInv
  <2> SUFFICES ASSUME Init PROVE Alone /\ Exact
    OBVIOUS
  <2>1. Alone
    BY HubSessionsAssumption, NodesOf DEF Init, Alone, Idle, Stored
  <2>2. Counted = {}
    BY DEF Init, Counted, Cleanup
  <2>3. QED
    BY <2>1, <2>2, FS_EmptySet DEF Init, Exact
<1>2. TypeOK /\ NoDeadEntry /\ CInv /\ [Next]_vars => CInv'
  BY AloneStep, CountStep, OverlapStays
<1>3. CInv => CountExact
  BY DEF Exact, CountExact
<1>4. QED
  BY <1>1, <1>2, <1>3, TypeCorrect, NoDeadEntries, PTL DEF Spec
=============================================================================
