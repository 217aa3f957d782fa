------------------------------ MODULE DeviceTwin ------------------------------
(***************************************************************************)
(* The twin handlers of edge/pkg/devicetwin/dtmanager/twin.go for one      *)
(* device and one twin key.                                                *)
(*                                                                         *)
(* A twin has an expected half (what the cloud or an application wants)    *)
(* and an actual half (what the device reports), each with a value and a   *)
(* version that counts the updates of the cloud and of the edge.  It is    *)
(* kept in memory (device.Twin) and in a row of the sqlite table           *)
(* device_twin.  A handler changes the memory first, writes the row in a   *)
(* transaction, and reads the memory back from the row when that failed.   *)
(* dealTwinUpdate handles an update published at the edge ("rest"),        *)
(* dealTwinSync one sent by the cloud ("sync"); both run under the lock of *)
(* the device, so a handler is one action.                                 *)
(*                                                                         *)
(* The keys of a message are handled one by one and each has its own row,  *)
(* so that one key stands for all of them.                                 *)
(***************************************************************************)
EXTENDS Naturals

CONSTANTS
    SyncVersions,   \* bound: the versions a sync of the cloud may bring
    MaxEdge,        \* bound: the largest edge version
    Nil,            \* a nil pointer, or no such key or row
    Empty           \* an empty column

VARIABLES
    mem,        \* device.Twin[key]: the twin in memory
    row,        \* the row of the table device_twin
    died,       \* whether a handler died, holding the lock of the device:
                \* "no", or while it was "reading" a message or "refusing" it
    diverged    \* whether a failure left the memory different from the row:
                \* "no", "now", or "once", before it was last read back

vars == <<mem, row, died, diverged>>

-----------------------------------------------------------------------------
(* Values are strings; "num" stands for those that parse as an integer.    *)
(* Blank is a TwinValue whose Value is nil, what a deletion leaves.        *)

Values == {"num", "txt"}
Blank == "blank"
Types == {"int", "string"}
Deleted == "deleted"
Halves == {"exp", "act"}

Versions == [c : Nat, e : Nat]
Zero == [c |-> 0, e |-> 0]

Half(V, none) == [value : V \cup {none}, version : Versions \cup {none}]
Twins == [type : Types \cup {Deleted}, opt : BOOLEAN,
          exp : Half(Values \cup {Blank}, Nil), act : Half(Values \cup {Blank}, Nil)]
Rows == [type : Types \cup {Deleted}, opt : BOOLEAN,
         exp : Half(Values, Empty), act : Half(Values, Empty)]

NoHalf == [value |-> Nil, version |-> Nil]

\* A message for the key: null, or a MsgTwin.  The versions of an update at
\* the edge are never read; a sync without a type is never read at all; a
\* deletion only has versions.  Bound: a sync with two values has one version.
RestMsgs == {Nil} \cup
    [type : Types \cup {Nil}, opt : {Nil, FALSE},
     exp : [value : {"txt", Nil}, version : {Nil}],
     act : [value : Values \cup {Nil}, version : {Nil}]]
SyncMsgs ==
    LET Sent(V) == [value : V, version : SyncVersions \cup {Nil}]
        Both == {m \in [type : Types, opt : {Nil}, exp : Sent({"txt"}) \cup {NoHalf},
                        act : Sent(Values) \cup {NoHalf}] :
                   NoHalf \in {m.exp, m.act} \/ m.exp.version = m.act.version}
    IN  Both \cup [type : {Deleted}, opt : {Nil}, exp : Sent({Nil}), act : Sent({Nil})]
        \cup {[type |-> Nil, opt |-> Nil, exp |-> NoHalf, act |-> NoHalf]}

\* ValidateValue.
ValidateValue(type, value) == type = "int" => value = "num"

\* The columns a half is written to: a nil pointer leaves them empty.
Column(h) == [value |-> IF h.value \in {Nil, Blank} THEN Empty ELSE h.value,
              version |-> IF h.version = Nil THEN Empty ELSE h.version]

\* DeviceTwinToMsgTwin: an empty column is a nil pointer.
Pointer(h) == [f \in DOMAIN h |-> IF h[f] = Empty THEN Nil ELSE h[f]]
DeviceTwinToMsgTwin(r) ==
    IF r = Nil THEN Nil ELSE [r EXCEPT !.exp = Pointer(@), !.act = Pointer(@)]

-----------------------------------------------------------------------------
(* The three cases of DealMsgTwin, as functions of the twin, the message   *)
(* and the kind of the update.  Each returns the twin left in memory, the  *)
(* columns to write, and how it ended: "ok", "refused" (a half was refused *)
(* and the cloud is sent the twin of the edge), "error" (only at the edge) *)
(* or "panic".                                                             *)

Ended(twin, cols, end) == [twin |-> twin, cols |-> cols, end |-> end]

VersionOf(h) == IF h.version \in {Nil, Empty} THEN Zero ELSE h.version

\* The edge version is not compared.
dealVersionCloudOnly(version, req, kind) ==
    IF kind = "rest" THEN [ok |-> TRUE, version |-> [version EXCEPT !.e = @ + 1]]
    ELSE IF req = Nil THEN [ok |-> kind = Deleted, version |-> version]
    ELSE IF version.c > req.c THEN [ok |-> FALSE, version |-> version]
    ELSE [ok |-> TRUE, version |-> req]

\* An update at the edge counts one; a sync is refused when the edge has
\* seen more of either side, or (unless it deletes) brings no version.
dealVersion(version, req, kind) ==
    IF kind = "rest" THEN [ok |-> TRUE, version |-> [version EXCEPT !.e = @ + 1]]
    ELSE IF req = Nil THEN [ok |-> kind = Deleted, version |-> version]
    ELSE IF version.c > req.c \/ version.e > req.e THEN [ok |-> FALSE, version |-> version]
    ELSE [ok |-> TRUE, version |-> req]

\* One half of dealTwinDelete, on what the half before it left.
DeleteHalf(s, f, m, kind) ==
    LET h == s.twin[f]
        v == dealVersion(h.version, IF kind = "rest" THEN Nil ELSE m[f].version, kind)
    IN  IF s.end # "ok" THEN s
        ELSE IF h.version = Nil
        THEN [s EXCEPT !.twin[f].version = Zero]
        ELSE IF ~v.ok
        THEN Ended(s.twin, {}, "refused")
        ELSE Ended([s.twin EXCEPT ![f] = [value |-> Blank, version |-> v.version], !.type = Deleted],
                   s.cols \cup {f, "type"}, "ok")

\* Only an optional twin may be deleted at the edge.  A refused half ends
\* the deletion at once: what the first half changed stays in memory and no
\* column is written.
dealTwinDelete(twin, m, kind) ==
    IF (kind = "rest" /\ ~twin.opt) \/ twin.type = Deleted
    THEN Ended(twin, {}, "ok")
    ELSE LET k == IF kind = "rest" THEN kind ELSE Deleted
         IN  DeleteHalf(DeleteHalf(Ended(twin, {}, "ok"), "exp", m, k), "act", m, k)

\* isTwinValueDiff: "same" when the message has no value for the half.  A
\* new expected value is not validated when the twin had none.
isTwinValueDiff(twin, m, f) ==
    LET type == IF twin.type # Deleted THEN twin.type
                ELSE IF m.type # Nil THEN m.type ELSE "string"
        hasTwin == f = "act" \/ twin[f].value # Nil
    IN  IF m[f].value = Nil THEN "same"
        ELSE IF hasTwin /\ ~ValidateValue(type, m[f].value) THEN "invalid"
        ELSE "diff"

\* One half of dealTwinCompare.  A refused half is answered with the value
\* of the twin, read through a pointer that is nil when it has none.
CompareHalf(s, f, m, kind) ==
    LET diff == isTwinValueDiff(s.twin, m, f)
        old  == VersionOf(s.twin[f])
        v    == dealVersion(old, m[f].version, kind)
    IN  IF s.end # "ok" \/ diff = "same" THEN s
        ELSE IF diff = "invalid"
        THEN [s EXCEPT !.end = IF kind = "rest" THEN "error" ELSE @]
        ELSE IF v.ok
        THEN Ended([s.twin EXCEPT ![f] = [value |-> m[f].value, version |-> v.version]],
                   s.cols \cup {f}, "ok")
        ELSE Ended([s.twin EXCEPT ![f].version = old], s.cols,
                   IF s.twin[f].value = Nil THEN "panic" ELSE "refused")

\* The rest of dealTwinCompare: an optional twin may become mandatory, and a
\* deleted one takes the type of the message; another type only writes the
\* column metadata, which nothing reads.
dealTwinCompare(twin, m, kind) ==
    LET s == CompareHalf(CompareHalf(Ended(twin, {}, "ok"), "exp", m, kind), "act", m, kind)
        optional == m.opt # Nil /\ s.twin.opt /\ m.opt # s.twin.opt
        retyped  == m.type # Nil /\ m.type # s.twin.type
        revived  == s.twin.type = Deleted
        type     == IF m.type # Nil THEN m.type ELSE "string"
    IN  IF s.end # "ok" THEN s
        ELSE Ended([s.twin EXCEPT !.opt = IF optional THEN m.opt ELSE @,
                                  !.type = IF revived THEN type ELSE @],
                   s.cols \cup (IF optional THEN {"opt"} ELSE {})
                          \cup (IF retyped THEN {"metadata"} ELSE {})
                          \cup (IF revived THEN {"type"} ELSE {}),
                   "ok")

\* dealTwinAdd: every column is written; Nil when the twin is not added.
AddHalf(m, f, kind) ==
    LET v == dealVersion(Zero, m[f].version, kind)
        type == IF m.type # Nil THEN m.type ELSE "string"
    IN  IF m[f].value = Nil
        THEN [half |-> [NoHalf EXCEPT !.version = IF m.type = Deleted THEN m[f].version ELSE Nil],
              end |-> "ok"]
        ELSE IF ~v.ok THEN [half |-> NoHalf, end |-> "rejected"]
        ELSE IF ~ValidateValue(type, m[f].value)
        THEN [half |-> NoHalf, end |-> IF kind = "rest" THEN "error" ELSE "rejected"]
        ELSE [half |-> [value |-> m[f].value, version |-> v.version], end |-> "ok"]

dealTwinAdd(m, kind) ==
    LET exp == AddHalf(m, "exp", kind)
        act == AddHalf(m, "act", kind)
        twin == [type |-> IF m.type # Nil THEN m.type ELSE "string",
                 opt |-> IF m.opt # Nil THEN m.opt ELSE TRUE,
                 exp |-> exp.half, act |-> act.half]
    IN  IF m = Nil THEN Ended(Nil, {}, "ok")
        ELSE IF "error" \in {exp.end, act.end} THEN Ended(Nil, {}, "error")
        ELSE IF "rejected" \in {exp.end, act.end} THEN Ended(Nil, {}, "ok")
        ELSE Ended(twin, {"exp", "act", "opt", "type"}, "ok")

\* DealMsgTwin: a sync is expected to carry the type of the twin.
DealMsgTwin(m, kind) ==
    IF kind = "sync" /\ m.type = Nil THEN Ended(mem, {}, "panic")
    ELSE IF mem = Nil THEN dealTwinAdd(m, kind)
    ELSE IF m = Nil \/ (kind = "sync" /\ m.type = Deleted) THEN dealTwinDelete(mem, m, kind)
    ELSE dealTwinCompare(mem, m, kind)

-----------------------------------------------------------------------------
(* DealDeviceTwin: the transaction, and what is sent afterwards.           *)

\* DeviceTwinTrans: an insert, or an update of the columns, which changes
\* nothing when there is no such row.
DeviceTwinTrans(s) ==
    LET new == [type |-> s.twin.type, opt |-> s.twin.opt,
                exp |-> Column(s.twin.exp), act |-> Column(s.twin.act)]
    IN  IF mem = Nil THEN new
        ELSE IF row = Nil THEN Nil
        ELSE [f \in DOMAIN row |-> IF f \in s.cols THEN new[f] ELSE row[f]]

\* The bound on failures: one commit or one reading back fails.
MayFail == diverged = "no"

ReadBack == IF diverged = "no" THEN "no" ELSE "once"

\* The memory is not read back.
SyncDeviceFromSqliteNot(s) ==
    mem' = s.twin /\ UNCHANGED diverged

\* SyncDeviceFromSqlite: the memory is read back, or the query fails.
SyncDeviceFromSqlite(s) ==
    \/ mem' = DeviceTwinToMsgTwin(row) /\ diverged' = ReadBack
    \/ MayFail /\ mem' = s.twin /\ diverged' = "now"

\* The transaction succeeds, fails at every retry, or fails in its commit,
\* which is logged and not reported.
Write(s) ==
    \/ mem' = s.twin /\ row' = DeviceTwinTrans(s) /\ UNCHANGED diverged
    \/ UNCHANGED row /\ SyncDeviceFromSqlite(s)
    \/ MayFail /\ UNCHANGED row /\ mem' = s.twin /\ diverged' = "now"

\* The bound on the versions counted at the edge.
MayCount(t) == t # Nil => \A f \in Halves : VersionOf(t[f]).e < MaxEdge

\* dealTwinUpdate and dealTwinSync.
DealDeviceTwin(m, kind) ==
    /\ died = "no"
    /\ kind = "rest" => MayCount(mem)
    /\ LET s == DealMsgTwin(m, kind)
           halfway == s.end = "refused" /\ s.cols = {} /\ s.twin.type # mem.type
       IN  \/ /\ s.end = "panic"
              /\ died' = IF m.type = Nil THEN "reading" ELSE "refusing"
              /\ mem' = s.twin /\ diverged' = "now" /\ UNCHANGED row
           \/ s.end = "error" /\ SyncDeviceFromSqlite(s) /\ UNCHANGED <<row, died>>
           \/ s.end \in {"ok", "refused"} /\ s.cols # {} /\ Write(s) /\ UNCHANGED died
           \/ /\ s.end \in {"ok", "refused"} /\ s.cols = {}
              /\ mem' = s.twin /\ diverged' = IF halfway THEN "now" ELSE diverged
              /\ UNCHANGED <<row, died>>

\* edgecore restarts: SyncSqlite reads the memory from the table.
Restart ==
    /\ mem' = DeviceTwinToMsgTwin(row)
    /\ died' = "no" /\ diverged' = ReadBack
    /\ UNCHANGED row

Init ==
    /\ mem = Nil /\ row = Nil
    /\ died = "no" /\ diverged = "no"

Next ==
    \/ \E m \in RestMsgs : DealDeviceTwin(m, "rest")
    \/ \E m \in SyncMsgs : DealDeviceTwin(m, "sync")
    \/ Restart

Spec == Init /\ [][Next]_vars

-----------------------------------------------------------------------------
\* The variables have their types.
TypeOK ==
    /\ mem \in Twins \cup {Nil}
    /\ row \in Rows \cup {Nil}
    /\ died \in {"no", "reading", "refusing"}
    /\ diverged \in {"no", "now", "once"}

\* What a reader of the twin sees: a half without value has none, whether
\* the pointer or what it points to is nil, and no version is version zero.
Seen(t) ==
    IF t = Nil THEN Nil
    ELSE [type |-> t.type, opt |-> t.opt,
          exp |-> [value |-> Column(t.exp).value, version |-> VersionOf(t.exp)],
          act |-> [value |-> Column(t.act).value, version |-> VersionOf(t.act)]]

\* The memory and the row show the same twin whatever updates were accepted,
\* refused or rolled back, unless a commit or the reading back failed, a
\* handler died or a deletion was refused after its first half.
MemoryIsStored == diverged # "now" => Seen(mem) = Seen(row)

\* What is stored never goes back to an earlier version, across updates of
\* both sides, failed transactions and restarts: a sync the cloud sent before
\* it knew of an update at the edge cannot undo that update.
StoredVersionsGrow ==
    [][row # Nil => /\ row' # Nil
                    /\ \A f \in Halves : /\ VersionOf(row[f]).c <= VersionOf(row'[f]).c
                                         /\ VersionOf(row[f]).e <= VersionOf(row'[f]).e]_vars

\* A reported value that is stored fits the type of the twin, also after the
\* twin was deleted and revived with another type.
StoredActualFits ==
    diverged = "no" /\ row # Nil /\ row.act.value # Empty => ValidateValue(row.type, row.act.value)

\* Memory and row show the same twin unless a failure parted them, and a
\* reported value that is stored fits the type of the twin even after the
\* twin was deleted and revived with another one (DealDeviceTwin).
TwinIsStored == MemoryIsStored /\ StoredActualFits
=============================================================================
