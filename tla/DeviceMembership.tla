--------------------------- MODULE DeviceMembership ---------------------------
(***************************************************************************)
(* The devices of an edge node: DTContext (edge/pkg/devicetwin/dtcontext)  *)
(* with its list of devices and their locks, the membership worker that    *)
(* adds and removes devices, and the twin and device workers that update   *)
(* one device under its lock (edge/pkg/devicetwin/dtmanager).              *)
(*                                                                         *)
(* Lock takes the read side of the global lock and the mutex it finds for  *)
(* the device; Unlock looks the mutex up again.  The membership worker     *)
(* replaces and deletes mutexes while others hold them, since it takes     *)
(* the lock of a device only for delta updates, which nobody requests.     *)
(***************************************************************************)
EXTENDS Naturals

CONSTANTS
    Devices,
    Handlers,       \* the workers of the twin and of the device module
    MaxMutexes,     \* bound: mutexes ever created
    MaxFailures     \* bound: transactions that fail at every retry

VARIABLES
    list,       \* DeviceList: the devices in memory
    mutex,      \* DeviceMutex: the mutex of a device, 0 for none
    holder,     \* who locked a mutex: a handler, "free", or "new" before it is made
    readers,    \* how often the read side of the global lock is held
    writer,     \* LockAll: "no", "waiting" (it holds off new readers) or "held"
    rows,       \* the devices in the table device
    handler,    \* what a handler is doing, to which device, with which mutex
    member,     \* what the membership worker is doing, and has still to do
    fatal,      \* the process died: a lock was released that nobody held
    failures    \* transactions that failed

vars == <<list, mutex, holder, readers, writer, rows, handler, member, fatal, failures>>
locks == <<mutex, holder, readers, writer, fatal>>

Mutexes == 1 .. MaxMutexes
NoDevice == "none"
IdleHandler == [pc |-> "idle", dev |-> NoDevice, mu |-> 0]
IdleMember == [pc |-> "idle", dev |-> NoDevice, todo |-> {}, keep |-> {}, all |-> FALSE]

\* A mutex that was not made yet.
MayMake == \E m \in Mutexes : holder[m] = "new"
Fresh == CHOOSE m \in Mutexes : holder[m] = "new" /\ \A n \in 1 .. m - 1 : holder[n] # "new"

\* var deviceMutex sync.Mutex; context.DeviceMutex.Store(d, &deviceMutex)
NewMutex(d) ==
    /\ MayMake
    /\ mutex' = [mutex EXCEPT ![d] = Fresh]
    /\ holder' = [holder EXCEPT ![Fresh] = "free"]
    /\ UNCHANGED <<readers, writer, fatal>>

-----------------------------------------------------------------------------
(* DTContext: Lock, in three steps, and Unlock.                            *)

\* Lock: GetMutex.  Without a mutex the handler goes on without a lock.
GetMutex(h, d) ==
    /\ handler[h].pc = "idle" /\ ~fatal
    /\ handler' = [handler EXCEPT ![h] = [pc |-> IF mutex[d] = 0 THEN "work" ELSE "rlock",
                                          dev |-> d, mu |-> mutex[d]]]
    /\ UNCHANGED <<list, locks, rows, member, failures>>

RLock(h) ==
    /\ handler[h].pc = "rlock" /\ ~fatal /\ writer = "no"
    /\ readers' = readers + 1
    /\ handler' = [handler EXCEPT ![h].pc = "lock"]
    /\ UNCHANGED <<list, mutex, holder, writer, rows, member, fatal, failures>>

Lock(h) ==
    /\ handler[h].pc = "lock" /\ ~fatal
    /\ holder[handler[h].mu] = "free"
    /\ holder' = [holder EXCEPT ![handler[h].mu] = h]
    /\ handler' = [handler EXCEPT ![h].pc = "work"]
    /\ UNCHANGED <<list, mutex, readers, writer, rows, member, fatal, failures>>

\* Unlock looks the mutex up again; releasing what is not locked is fatal.
Unlock(d) ==
    \/ mutex[d] = 0 /\ UNCHANGED locks
    \/ /\ mutex[d] # 0 /\ holder[mutex[d]] # "free" /\ readers > 0
       /\ holder' = [holder EXCEPT ![mutex[d]] = "free"]
       /\ readers' = readers - 1
       /\ UNCHANGED <<mutex, writer, fatal>>
    \/ /\ mutex[d] # 0 /\ (holder[mutex[d]] = "free" \/ readers = 0)
       /\ fatal' = TRUE
       /\ UNCHANGED <<mutex, holder, readers, writer>>

-----------------------------------------------------------------------------
(* The handlers: dealTwinUpdate, dealTwinSync, dealDeviceAttrUpdate and    *)
(* dealDeviceStateUpdate.                                                  *)

\* The update of the device: refused when it is not in memory, written, or
\* read back from the tables after the transaction failed.
Work(h) ==
    LET d == handler[h].dev
        fails == d \in list /\ failures < MaxFailures
    IN  /\ handler[h].pc = "work" /\ ~fatal
        /\ \/ /\ handler' = [handler EXCEPT ![h].pc = "unlock"]
              /\ UNCHANGED failures
           \/ /\ fails
              /\ handler' = [handler EXCEPT ![h].pc = "query"]
              /\ failures' = failures + 1
        /\ UNCHANGED <<list, locks, rows, member>>

\* SyncDeviceFromSqlite: a device that is not in memory gets a new mutex;
\* one that is not in the table is left as it is.
Query(h) ==
    LET d == handler[h].dev
    IN  /\ handler[h].pc = "query" /\ ~fatal
        /\ IF d \in list THEN UNCHANGED locks ELSE NewMutex(d)
        /\ handler' = [handler EXCEPT ![h].pc = IF d \in rows THEN "store" ELSE "unlock"]
        /\ UNCHANGED <<list, rows, member, failures>>

\* context.DeviceList.Store of what was read.
Store(h) ==
    /\ handler[h].pc = "store" /\ ~fatal
    /\ list' = list \cup {handler[h].dev}
    /\ handler' = [handler EXCEPT ![h].pc = "unlock"]
    /\ UNCHANGED <<locks, rows, member, failures>>

\* The handler returns: context.Unlock, also when Lock found no mutex.
Return(h) ==
    /\ handler[h].pc = "unlock" /\ ~fatal
    /\ Unlock(handler[h].dev)
    /\ handler' = [handler EXCEPT ![h] = IdleHandler]
    /\ UNCHANGED <<list, rows, member, failures>>

HandlerStep(h) ==
    \/ \E d \in Devices : GetMutex(h, d)
    \/ RLock(h) \/ Lock(h) \/ Work(h) \/ Query(h) \/ Store(h) \/ Return(h)

-----------------------------------------------------------------------------
(* The membership worker                                                   *)

At(pc) == member.pc = pc /\ ~fatal

\* dealMembershipUpdate: the cloud adds or removes one device.
dealMembershipUpdate ==
    /\ At("idle")
    /\ \E d \in Devices, pc \in {"add", "remove"} :
         member' = [IdleMember EXCEPT !.pc = pc, !.todo = {d}]
    /\ UNCHANGED <<list, locks, rows, handler, failures>>

\* dealMembershipDetail: the list of all devices of the node.
dealMembershipDetail ==
    /\ At("idle")
    /\ \E ds \in SUBSET Devices :
         member' = [IdleMember EXCEPT !.pc = "lockall", !.todo = ds, !.keep = ds, !.all = TRUE]
    /\ writer' = "waiting"
    /\ UNCHANGED <<list, mutex, holder, readers, rows, handler, fatal, failures>>

LockAll ==
    /\ At("lockall") /\ readers = 0
    /\ writer' = "held"
    /\ member' = [member EXCEPT !.pc = "add"]
    /\ UNCHANGED <<list, mutex, holder, readers, rows, handler, fatal, failures>>

\* addDevice: a device that is in memory is only updated.
AddNext ==
    /\ At("add") /\ member.todo # {}
    /\ \E d \in member.todo :
         LET left == [member EXCEPT !.todo = @ \ {d}]
         IN  \/ /\ d \in list
                /\ member' = left /\ UNCHANGED locks
             \/ /\ d \notin list /\ NewMutex(d)
                /\ member' = [left EXCEPT !.pc = "list", !.dev = d]
    /\ UNCHANGED <<list, rows, handler, failures>>

AddList ==
    /\ At("list")
    /\ list' = list \cup {member.dev}
    /\ member' = [member EXCEPT !.pc = "insert"]
    /\ UNCHANGED <<locks, rows, handler, failures>>

\* AddDeviceTrans: the insert fails when the row is there.
AddDeviceTrans ==
    LET d == member.dev
        fails == d \in rows \/ failures < MaxFailures
    IN  /\ At("insert")
        /\ \/ /\ d \notin rows
              /\ rows' = rows \cup {d}
              /\ member' = [member EXCEPT !.pc = "add", !.dev = NoDevice]
              /\ UNCHANGED failures
           \/ /\ fails
              /\ member' = [member EXCEPT !.pc = "undo"]
              /\ failures' = IF d \in rows THEN failures ELSE failures + 1
              /\ UNCHANGED rows
        /\ UNCHANGED <<list, locks, handler>>

UndoList ==
    /\ At("undo")
    /\ list' = list \ {member.dev}
    /\ member' = [member EXCEPT !.pc = "release"]
    /\ UNCHANGED <<locks, rows, handler, failures>>

\* context.Unlock, of a device this worker has not locked.
UndoUnlock ==
    /\ At("release")
    /\ Unlock(member.dev)
    /\ member' = [member EXCEPT !.pc = "add", !.dev = NoDevice]
    /\ UNCHANGED <<list, rows, handler, failures>>

\* getRemoveList: after a full list, what it does not contain is removed.
AddDone ==
    /\ At("add") /\ member.todo = {}
    /\ member' = IF member.all
                 THEN [member EXCEPT !.pc = "remove", !.todo = list \ member.keep]
                 ELSE IdleMember
    /\ UNCHANGED <<list, locks, rows, handler, failures>>

\* The row is left in the table.
DeleteDeviceTransNot ==
    /\ At("remove") /\ member.todo # {}
    /\ \E d \in member.todo :
         LET left == [member EXCEPT !.todo = @ \ {d}]
         IN  member' = IF d \in list THEN [left EXCEPT !.pc = "unlist", !.dev = d] ELSE left
    /\ UNCHANGED <<list, locks, rows, handler, failures>>

\* removeDevice: DeleteDeviceTrans; a device it fails for is removed from
\* the memory nevertheless.
DeleteDeviceTrans ==
    /\ At("remove") /\ member.todo # {}
    /\ \E d \in member.todo :
         LET left == [member EXCEPT !.todo = @ \ {d}]
         IN  \/ /\ d \notin list
                /\ member' = left /\ UNCHANGED <<rows, failures>>
             \/ /\ d \in list
                /\ member' = [left EXCEPT !.pc = "unlist", !.dev = d]
                /\ rows' = rows \ {d} /\ UNCHANGED failures
             \/ /\ d \in list /\ failures < MaxFailures
                /\ member' = [left EXCEPT !.pc = "unlist", !.dev = d]
                /\ failures' = failures + 1 /\ UNCHANGED rows
    /\ UNCHANGED <<list, locks, handler>>

RemoveList ==
    /\ At("unlist")
    /\ list' = list \ {member.dev}
    /\ member' = [member EXCEPT !.pc = "unlock"]
    /\ UNCHANGED <<locks, rows, handler, failures>>

RemoveMutex ==
    /\ At("unlock")
    /\ mutex' = [mutex EXCEPT ![member.dev] = 0]
    /\ member' = [member EXCEPT !.pc = "remove", !.dev = NoDevice]
    /\ UNCHANGED <<list, holder, readers, writer, rows, handler, fatal, failures>>

RemoveDone ==
    /\ At("remove") /\ member.todo = {}
    /\ member' = IdleMember
    /\ writer' = "no"
    /\ UNCHANGED <<list, mutex, holder, readers, rows, handler, fatal, failures>>

MemberStep ==
    \/ dealMembershipUpdate \/ dealMembershipDetail \/ LockAll
    \/ AddNext \/ AddList \/ AddDeviceTrans \/ UndoList \/ UndoUnlock \/ AddDone
    \/ DeleteDeviceTrans \/ RemoveList \/ RemoveMutex \/ RemoveDone

-----------------------------------------------------------------------------
\* edgecore starts again, also after it died: SyncSqlite loads the devices
\* of the table and makes a mutex for each.
Numbered == CHOOSE f \in [rows -> Mutexes] : \A d, e \in rows : f[d] = f[e] => d = e

Restart ==
    /\ list' = rows
    /\ mutex' = [d \in Devices |-> IF d \in rows THEN Numbered[d] ELSE 0]
    /\ holder' = [m \in Mutexes |-> IF \E d \in rows : Numbered[d] = m THEN "free" ELSE "new"]
    /\ readers' = 0 /\ writer' = "no" /\ fatal' = FALSE
    /\ handler' = [h \in Handlers |-> IdleHandler]
    /\ member' = IdleMember
    /\ UNCHANGED <<rows, failures>>

Init ==
    /\ list = {} /\ rows = {}
    /\ mutex = [d \in Devices |-> 0]
    /\ holder = [m \in Mutexes |-> "new"]
    /\ readers = 0 /\ writer = "no" /\ fatal = FALSE
    /\ handler = [h \in Handlers |-> IdleHandler]
    /\ member = IdleMember
    /\ failures = 0

Next == MemberStep \/ (\E h \in Handlers : HandlerStep(h)) \/ Restart

Spec == Init /\ [][Next]_vars

-----------------------------------------------------------------------------
\* The variables have their types.
TypeOK ==
    /\ list \subseteq Devices /\ rows \subseteq Devices
    /\ mutex \in [Devices -> 0 .. MaxMutexes]
    /\ holder \in [Mutexes -> Handlers \cup {"free", "new"}]
    /\ readers \in Nat /\ writer \in {"no", "waiting", "held"}
    /\ handler \in [Handlers -> [pc : {"idle", "rlock", "lock", "work", "query", "store", "unlock"},
                                 dev : Devices \cup {NoDevice}, mu : 0 .. MaxMutexes]]
    /\ member \in [pc : {"idle", "lockall", "add", "list", "insert", "undo", "release",
                         "remove", "unlist", "unlock"},
                   dev : Devices \cup {NoDevice}, todo : SUBSET Devices,
                   keep : SUBSET Devices, all : BOOLEAN]
    /\ fatal \in BOOLEAN /\ failures \in 0 .. MaxFailures

\* A device in memory always has a lock a handler will find, at every step of
\* adding and removing it, as long as no transaction failed.
ListedHasLock == failures = 0 => \A d \in list : mutex[d] # 0

\* Between two membership messages the memory and the table have the same
\* devices, whatever the handlers and restarts did meanwhile, as long as no
\* transaction failed.
SettledAgree == failures = 0 /\ member.pc = "idle" => list = rows
=============================================================================
